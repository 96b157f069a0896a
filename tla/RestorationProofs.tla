------------------------- MODULE RestorationProofs -------------------------
(***************************************************************************)
(* Restoration, for every archive that is a tree, every tree it is         *)
(* restored over, every policy and whatever fails.                         *)
(*                                                                         *)
(* The walk stays in step (WalkIsInStep):                                  *)
(*  - between two entries the catalogue read, the path told (juillet) and  *)
(*    the directory written in are one place (Placed, CurrentDir), however *)
(*    the entry ended, and wherever a directory left out is skipped to;    *)
(*  - each step of write() keeps what is restored at its path of the       *)
(*    archive, the links to an inode included, since the first link of     *)
(*    each is recorded at its path (Sound);                                *)
(*  - what was seen and not counted yet is the entry being written.        *)
(*                                                                         *)
(* What write() reaches (PreservedUntouched, NewInodeHasItsEA,             *)
(* LastCopyOrReported):                                                    *)
(*  - each step of write() changes its own path and what is below, inodes  *)
(*    made and the dates of directories (Framed), in a directory that is   *)
(*    one (WhereWritten);                                                  *)
(*  - the copies of a file are read in order of their marks, and a later   *)
(*    one replaces only a file that was restored (CopiesInOrder);          *)
(*  - an inode that is not the last copy of its entry is the one in hand,  *)
(*    or was reported (Told, Reported).                                    *)
(***************************************************************************)
EXTENDS Restoration, SequenceTheorems, FiniteSetTheorems, TLAPS

\* What the catalogue reads from.
ReadFrom == CASE rd.status = "completed" -> arch.all
             [] rd.status = "marks" -> arch.items
             [] rd.status = "detruits" -> arch.dets
             [] OTHER -> <<>>
Busy == pc \in {"write", "wrote", "count"}
NotEod == rd.status # "eod"

Frames == [name : Names, date : Int, restore : BOOLEAN]
Stacks == Seq(Frames)
Results == {"no_data", "restored", "policy", "removed"}

\* The state of the walk.
ReaderOK ==
  /\ rd = [status |-> rd.status, pos |-> rd.pos, depth |-> rd.depth, wait |-> rd.wait,
           marks |-> rd.marks, eas |-> rd.eas]
  /\ rd.status \in {"completed", "marks", "eod", "detruits"}
  /\ rd.pos \in Nat /\ rd.depth \in Int /\ rd.wait \in Nat
  /\ rd.status = "completed" <=> opts.mode = "direct"
  /\ rd.status = "eod" => ~ arch.complete
GhostOK ==
  /\ ghost = [seen |-> ghost.seen, strayed |-> ghost.strayed]
  /\ ghost.seen \in Nat /\ ghost.strayed \in BOOLEAN
WalkOK ==
  /\ arch \in Archives /\ opts \in Options
  /\ pc \in {"reading", "filter", "write", "wrote", "count", "eod", "end", "gone"}
  /\ verdict \in {"none", "done", "error", "cancelled", "bug"}
  /\ pc \in {"end", "gone"} <=> verdict # "none"
  /\ juillet = [path |-> juillet.path, init |-> juillet.init]
  /\ juillet.path \in Seq(Names) /\ juillet.init \in BOOLEAN
  /\ cur \in Seq(Names) /\ stack \in Stacks
  /\ {"res", "copy", "exc"} \subseteq DOMAIN w /\ w.res \in Results /\ w.copy \in Nat
Shaped == ReaderOK /\ GhostOK /\ WalkOK

\* Only a file has marks other than that of its EA, and only between marks are any left.
MarksOK(x, marks) == /\ x.type # "file" => marks \in {<<>>, <<"ea">>}
                     /\ rd.status # "marks" => marks = <<>>

\* The path told is where the catalogue is; a directory skipped in sequence is
\* left at the first end of directory above it.
Placed ==
  /\ NotEod =>
       /\ rd.pos \in 0..Len(ReadFrom)
       /\ rd.wait = 0 /\ pc \in {"reading", "eod"} => JuilletDir = Where(ReadFrom, rd.pos)
       /\ pc = "filter" =>
            /\ rd.pos > 0 /\ e = ReadFrom[rd.pos] /\ rd.wait = 0
            /\ JuilletDir = Where(ReadFrom, rd.pos - 1)
       /\ Busy => rd.pos > 0 /\ e = ReadFrom[rd.pos] /\ rd.wait = 0
  /\ rd.status \in {"completed", "detruits"} => rd.wait = 0
  /\ rd.status = "marks" =>
       /\ rd.depth = Len(Where(arch.items, rd.pos))
       /\ rd.wait > 0 =>
            /\ pc \in {"reading", "end", "gone"} /\ rd.depth >= rd.wait
            /\ SubSeq(Where(arch.items, rd.pos), 1, rd.wait - 1) = JuilletDir
  /\ rd.status = "eod" => pc \notin {"write", "wrote", "count"} /\ (pc = "filter" => e = Eod)
  /\ Busy => /\ e \in Listed
             /\ juillet = [path |-> e.path, init |-> IsDir(e)]
             /\ IsDir(e) => ~ opts.flat
  /\ pc \in {"filter", "write", "wrote"} => MarksOK(e, rd.marks)
  /\ rd.status # "marks" => rd.marks = <<>>
  /\ pc = "eod" => ~ juillet.init /\ ~ opts.flat

\* The directory written in.
CurrentDir ==
  ~ ghost.strayed /\ pc \notin {"end", "gone"} =>
    /\ Len(stack) = Len(cur)
    /\ cur = IF opts.flat THEN <<>>
             ELSE IF pc = "write" \/ (pc = "wrote" /\ w.exc # "none") THEN Front(juillet.path)
             ELSE IF pc = "eod" THEN juillet.path
             ELSE JuilletDir

\* What is restored is at its path, and so is the first link to an inode.
Sited(d, i) ==
  \A p \in DOMAIN d : i[d[p]].id # "none" => \E x \in Listed : x.path = p /\ x.id = i[d[p]].id
Recorded(c) ==
  \A n \in DOMAIN c : \E x \in Listed : x.hard /\ x.etiq = n /\ x.path = c[n].path
Tame == ~ ghost.strayed /\ ~ opts.flat
TreeOK ==
  /\ ino \in Seq(Inodes)
  /\ \A p \in DOMAIN disk : disk[p] \in DOMAIN ino
  /\ Tame => Sited(disk, ino) /\ Recorded(corres)

\* What was seen was counted, but for the entry being written.
Counters == {"treated", "hard_links", "skipped", "tooold", "deleted", "ignored", "errored", "ea_treated"}
Counted ==
  /\ stats \in [Counters -> Nat]
  /\ opts.mode = "direct" /\ opts.restore = "all" /\ verdict \in {"none", "done"} =>
       ghost.seen = stats.treated + stats.skipped + stats.tooold + stats.deleted
                    + stats.ignored + stats.errored + (IF Busy THEN 1 ELSE 0)

IInv == Shaped /\ Placed /\ CurrentDir /\ TreeOK /\ Counted
-----------------------------------------------------------------------------
(* One step of write(): what it has done of the tree so far. *)

Fields == {"disk", "ino", "corres", "marks", "eas", "faults", "stack", "res", "ea", "exc",
           "copy", "sized", "hard"}
Sound(m) ==
  /\ Fields \subseteq DOMAIN m
  /\ m.ino \in Seq(Inodes)
  /\ \A q \in DOMAIN m.disk : m.disk[q] \in DOMAIN m.ino
  /\ Tame => Sited(m.disk, m.ino) /\ Recorded(m.corres)
  /\ MarksOK(e, m.marks)
  /\ m.stack \in Stacks /\ Len(m.stack) = Len(stack)
  /\ m.res \in Results /\ m.copy \in Nat

\* The entry is written at its path.
Writes(p) ==
  /\ arch \in Archives /\ e \in Listed
  /\ Tame => p = e.path

\* An exception leaves what was done.
LEMMA RaiseSound ==
  ASSUME NEW m, Sound(m), NEW x PROVE Sound(Raise(m, x))
BY DEF Sound, Fields, Raise, Sited, Recorded, MarksOK

\* A failure of the system leaves what was done.
LEMMA FailsSound ==
  ASSUME NEW m, Sound(m), NEW x, NEW r \in Fails(m, x) PROVE Sound(r)
<1>1. r = [m EXCEPT !.faults = @ - 1, !.exc = x]  BY DEF Fails
<1>. QED BY <1>1 DEF Sound, Fields, Sited, Recorded, MarksOK

\* What is written of an inode leaves it the copy of the same entry.
SameIds(i, j) == /\ j \in Seq(Inodes) /\ Len(j) = Len(i)
                 /\ \A n \in DOMAIN i : j[n].id = i[n].id

\* A step that edits inodes, and keeps of each what entry it is, is sound.
LEMMA InodesEdited ==
  ASSUME NEW m, Sound(m), NEW r, Fields \subseteq DOMAIN r, SameIds(m.ino, r.ino),
         r.disk = m.disk, r.corres = m.corres, r.marks = m.marks, r.stack = m.stack,
         r.res \in Results, r.copy = m.copy
  PROVE  Sound(r)
BY DEF Sound, SameIds, Sited, Recorded, MarksOK

\* Setting the date, or the EA, of an inode.
LEMMA Dated ==
  ASSUME NEW x \in Inodes, NEW d \in Int
  PROVE  [x EXCEPT !.mtime = d] \in Inodes /\ [x EXCEPT !.mtime = d].id = x.id
BY DEF Inodes

\* A date set in the sequence of inodes.
LEMMA DateIsInode ==
  ASSUME NEW i \in Seq(Inodes), NEW n \in DOMAIN i, NEW d \in Int
  PROVE  SameIds(i, [i EXCEPT ![n].mtime = d])
<1>1. i[n] \in Inodes  OBVIOUS
<1>2. [i[n] EXCEPT !.mtime = d] \in Inodes /\ [i[n] EXCEPT !.mtime = d].id = i[n].id
  BY <1>1, Dated
<1>. QED BY <1>2 DEF SameIds

\* EA set in the sequence of inodes.
LEMMA EAIsInode ==
  ASSUME NEW i \in Seq(Inodes), NEW n \in DOMAIN i, NEW eas \in SUBSET {"archive", "own"},
         NEW s \in {"none", "full"}
  PROVE  SameIds(i, [i EXCEPT ![n].eas = eas, ![n].ea = s])
<1>1. [i[n] EXCEPT !.eas = eas, !.ea = s] \in Inodes
      /\ [i[n] EXCEPT !.eas = eas, !.ea = s].id = i[n].id
  <2>1. i[n] \in Inodes  OBVIOUS
  <2>. QED BY <2>1 DEF Inodes
<1>2. [i EXCEPT ![n].eas = eas, ![n].ea = s]
      = [i EXCEPT ![n] = [i[n] EXCEPT !.eas = eas, !.ea = s]]
  BY DEF Inodes
<1>. QED BY <1>1, <1>2 DEF SameIds

\* Setting the date of what is at a path.
LEMMA SetDateSound ==
  ASSUME NEW m, Sound(m), NEW p, NEW d \in Int PROVE Sound(SetDate(m, p, d))
<1>1. CASE p \in DOMAIN m.disk
  <2>. DEFINE n == m.disk[p]
              i == [m.ino EXCEPT ![n].mtime = d]
  <2>1. n \in DOMAIN m.ino /\ m.ino \in Seq(Inodes)  BY <1>1 DEF Sound
  <2>2. SameIds(m.ino, i)  BY <2>1, DateIsInode
  <2>3. SetDate(m, p, d) = [m EXCEPT !.ino = i]  BY <1>1 DEF SetDate, Sound, Fields
  <2>4. /\ Fields \subseteq DOMAIN SetDate(m, p, d)
        /\ SetDate(m, p, d).ino = i /\ SetDate(m, p, d).disk = m.disk
        /\ SetDate(m, p, d).corres = m.corres /\ SetDate(m, p, d).marks = m.marks
        /\ SetDate(m, p, d).stack = m.stack /\ SetDate(m, p, d).res = m.res
        /\ SetDate(m, p, d).copy = m.copy
    BY <2>3 DEF Sound, Fields
  <2>5. m.res \in Results  BY DEF Sound
  <2>. QED BY <2>2, <2>4, <2>5, InodesEdited
<1>2. CASE p \notin DOMAIN m.disk
  BY <1>2 DEF SetDate
<1>. QED BY <1>1, <1>2

\* The directory of a path is modified.
LEMMA TouchSound ==
  ASSUME NEW m, Sound(m), NEW p
  PROVE  /\ Sound(Touch(m, p))
         /\ SameIds(m.ino, Touch(m, p).ino) /\ Touch(m, p).disk = m.disk
         /\ Touch(m, p).exc = m.exc
<1>1. CASE Front(p) \in DOMAIN m.disk
  <2>. DEFINE n == m.disk[Front(p)]
              i == [m.ino EXCEPT ![n].mtime = Now]
  <2>1. n \in DOMAIN m.ino /\ m.ino \in Seq(Inodes)  BY <1>1 DEF Sound
  <2>2. SameIds(m.ino, i)
    <3>1. Now \in Int  BY DEF Now
    <3>. QED BY <2>1, <3>1, DateIsInode
  <2>3. Touch(m, p) = [m EXCEPT !.ino = i]  BY <1>1 DEF Touch, Sound, Fields
  <2>4. /\ Fields \subseteq DOMAIN Touch(m, p)
        /\ Touch(m, p).ino = i /\ Touch(m, p).disk = m.disk /\ Touch(m, p).exc = m.exc
        /\ Touch(m, p).corres = m.corres /\ Touch(m, p).marks = m.marks
        /\ Touch(m, p).stack = m.stack /\ Touch(m, p).res = m.res
        /\ Touch(m, p).copy = m.copy
    BY <2>3 DEF Sound, Fields
  <2>5. m.res \in Results  BY DEF Sound
  <2>. QED BY <2>2, <2>4, <2>5, InodesEdited
<1>2. CASE Front(p) \notin DOMAIN m.disk
  BY <1>2 DEF Touch, SameIds, Sound
<1>. QED BY <1>1, <1>2

\* Setting the EA of what is at a path.
LEMMA SetEASound ==
  ASSUME NEW m, Sound(m), NEW p \in DOMAIN m.disk, NEW eas \in SUBSET {"archive", "own"}
  PROVE  Sound(SetEA(m, p, eas)) /\ SetEA(m, p, eas).exc = m.exc
<1>. DEFINE n == m.disk[p]
            s == IF eas = {} THEN "none" ELSE "full"
            i == [m.ino EXCEPT ![n].eas = eas, ![n].ea = s]
<1>1. n \in DOMAIN m.ino /\ m.ino \in Seq(Inodes)  BY DEF Sound
<1>2. SameIds(m.ino, i)  BY <1>1, EAIsInode
<1>3. SetEA(m, p, eas) = [m EXCEPT !.ino = i]  BY DEF SetEA, Sound, Fields
<1>4. /\ Fields \subseteq DOMAIN SetEA(m, p, eas)
      /\ SetEA(m, p, eas).ino = i /\ SetEA(m, p, eas).disk = m.disk /\ SetEA(m, p, eas).exc = m.exc
      /\ SetEA(m, p, eas).corres = m.corres /\ SetEA(m, p, eas).marks = m.marks
      /\ SetEA(m, p, eas).stack = m.stack /\ SetEA(m, p, eas).res = m.res
      /\ SetEA(m, p, eas).copy = m.copy
  BY <1>3 DEF Sound, Fields
<1>5. m.res \in Results  BY DEF Sound
<1>. QED BY <1>2, <1>4, <1>5, InodesEdited

\* The date of the parent directory is to be set back.
LEMMA MarkParentSound ==
  ASSUME NEW m, Sound(m) PROVE Sound(MarkParent(m)) /\ MarkParent(m).res = m.res
<1>1. CASE m.stack = <<>>  BY <1>1 DEF MarkParent
<1>2. CASE m.stack # <<>>
  <2>. DEFINE t == [m.stack EXCEPT ![Len(m.stack)].restore = TRUE]
  <2>1. m.stack \in Stacks  BY DEF Sound
  <2>2. Len(m.stack) \in DOMAIN m.stack  BY <1>2, <2>1 DEF Stacks
  <2>3. t \in Stacks /\ Len(t) = Len(m.stack)
    <3>1. m.stack[Len(m.stack)] \in Frames  BY <2>1, <2>2 DEF Stacks
    <3>2. [m.stack[Len(m.stack)] EXCEPT !.restore = TRUE] \in Frames  BY <3>1 DEF Frames
    <3>. QED BY <2>1, <2>2, <3>2 DEF Stacks
  <2>4. MarkParent(m) = [m EXCEPT !.stack = t]  BY <1>2 DEF MarkParent, Sound, Fields
  <2>. QED BY <2>3, <2>4 DEF Sound, Fields, Sited, Recorded, MarksOK
<1>. QED BY <1>1, <1>2

\* What is removed is at no path any more.
LEMMA WithoutSound ==
  ASSUME NEW m, Sound(m), NEW S PROVE Sound([m EXCEPT !.disk = Without(@, S)])
BY DEF Sound, Fields, Without, Sited, Recorded, MarksOK

\* supprime(), whole or stopped half way.
LEMMA SupprimeSound ==
  ASSUME NEW m, Sound(m), NEW p, NEW r \in Supprime(m, p) PROVE Sound(r)
<1>1. CASE p \notin DOMAIN m.disk
  BY <1>1, RaiseSound DEF Supprime
<1>2. CASE p \in DOMAIN m.disk
  <2>. DEFINE below == {q \in DOMAIN m.disk : Below(p, q)}
              all == [m EXCEPT !.disk = Without(@, below \cup {p})]
              part == [m EXCEPT !.disk = Without(@, below)]
  <2>1. Sound(all) /\ Sound(part)  BY WithoutSound
  <2>2. r = Touch(all, p) \/ r \in Fails(part, "range")  BY <1>2 DEF Supprime
  <2>. QED BY <2>1, <2>2, TouchSound, FailsSound
<1>. QED BY <1>1, <1>2

\* An entry of the catalogue.
LEMMA ListedIs ==
  ASSUME arch \in Archives, NEW x \in Listed
  PROVE  /\ x.type \in {"dir", "file", "detruit"} /\ x.mtime \in Int /\ x.size \in Int
         /\ Len(x.copies) \in Nat
<1>1. x \in Entries(arch.all)  BY DEF Listed
<1>2. /\ x.type \in {"dir", "file", "detruit"} /\ x.mtime \in Int /\ x.size \in Int
      /\ x.copies \in Seq({"good", "bad", "empty"})
  BY <1>1, ArchivesAreTrees
<1>. QED BY <1>2

\* A path has one entry, and the links of an inode its name in the archive.
LEMMA OneEntry ==
  ASSUME arch \in Archives, NEW x \in Listed, NEW y \in Listed
  PROVE  /\ x.path = y.path => x = y
         /\ x.hard /\ y.hard /\ x.etiq = y.etiq => x.id = y.id
BY ArchivesAreTrees DEF Listed

\* The inode made of the entry.
LEMMA EntryIsInode ==
  ASSUME NEW p, Writes(p), ~ IsDet(e), NEW k \in Nat
  PROVE  Entry(e, k) \in Inodes /\ Entry(e, k).id = e.id
<1>1. e.type \in {"dir", "file"} /\ e.mtime \in Int /\ e.size \in Int
  BY ListedIs DEF Writes, IsDet
<1>2. e.id \in Ids  BY DEF Writes, Listed, Ids
<1>. QED BY <1>1, <1>2 DEF Entry, Inodes, Now

\* An inode that is the entry is made at the path of the entry.
LEMMA AddedSound ==
  ASSUME NEW p, Writes(p), NEW m, Sound(m), NEW n \in Inodes, n.id = e.id
  PROVE  /\ Sound(Added(m, p, n))
         /\ Added(m, p, n).ino # <<>> /\ Added(m, p, n).ino[Len(Added(m, p, n).ino)].id = e.id
<1>. DEFINE i == Append(m.ino, n)
            d == With(m.disk, p, Len(m.ino) + 1)
            a == [m EXCEPT !.ino = i, !.disk = d]
<1>1. m.ino \in Seq(Inodes)  BY DEF Sound
<1>2. i \in Seq(Inodes) /\ Len(i) = Len(m.ino) + 1 /\ i[Len(i)] = n
      /\ \A x \in DOMAIN m.ino : i[x] = m.ino[x] /\ x # Len(i)
  BY <1>1
<1>3. \A q \in DOMAIN d : \/ q = p /\ d[q] = Len(i)
                          \/ q \in DOMAIN m.disk /\ d[q] = m.disk[q] /\ d[q] \in DOMAIN m.ino
  BY <1>2 DEF Sound, With
<1>4. /\ Fields \subseteq DOMAIN a /\ a.ino = i /\ a.disk = d /\ a.corres = m.corres
      /\ a.marks = m.marks /\ a.stack = m.stack /\ a.res = m.res /\ a.copy = m.copy
  BY DEF Sound, Fields
<1>5. ASSUME Tame PROVE Sited(d, i)
  <2>1. p = e.path /\ e \in Listed  BY <1>5 DEF Writes
  <2>2. Sited(m.disk, m.ino)  BY <1>5 DEF Sound
  <2>. QED BY <1>2, <1>3, <2>1, <2>2 DEF Sited
<1>6. Sound(a)
  <2>1. \A q \in DOMAIN d : d[q] \in DOMAIN i  BY <1>1, <1>2, <1>3
  <2>. HIDE DEF a, i, d
  <2>. QED BY <1>2, <1>4, <1>5, <2>1 DEF Sound
<1>7. Added(m, p, n) = Touch(a, p)  BY DEF Added, Sound, Fields
<1>8. Sound(Touch(a, p)) /\ SameIds(i, Touch(a, p).ino)  BY <1>4, <1>6, TouchSound
<1>. QED BY <1>2, <1>7, <1>8 DEF SameIds

\* The size of the data stored, once the CRC is met.
LEMMA ReadCRCSound ==
  ASSUME NEW m, Sound(m), e.type = "file", NEW r \in ReadCRC(m, e)
  PROVE  Sound(r) /\ r.ino = m.ino
<1>1. CASE opts.mode = "direct" \/ m.marks = <<>> \/ Head(m.marks) # "crc"
  BY <1>1, RaiseSound DEF ReadCRC, Raise, Sound, Fields
<1>2. CASE ~ (opts.mode = "direct" \/ m.marks = <<>> \/ Head(m.marks) # "crc")
  <2>1. MarksOK(e, Tail(m.marks))  BY <1>2 DEF Sound, MarksOK
  <2>2. ASSUME NEW f PROVE Sound([m EXCEPT !.marks = Tail(@), !.sized = f])
    BY <2>1 DEF Sound, Fields, Sited, Recorded
  <2>3. CASE m.sized
    <3>1. r = Raise([m EXCEPT !.marks = Tail(@)], "bug")  BY <1>2, <2>3 DEF ReadCRC
    <3>2. Sound([m EXCEPT !.marks = Tail(@)])  BY <2>1 DEF Sound, Fields, Sited, Recorded
    <3>. QED BY <3>1, <3>2, RaiseSound DEF Raise, Sound, Fields
  <2>4. CASE ~ m.sized
    <3>1. r = [m EXCEPT !.marks = Tail(@), !.sized = (e.copies[m.copy] # "empty")]
      BY <1>2, <2>4 DEF ReadCRC
    <3>. QED BY <2>2, <3>1 DEF Sound, Fields
  <2>. QED BY <2>3, <2>4
<1>. QED BY <1>1, <1>2

\* The data of a file are those of the entry, all of them or a part.
LEMMA WriteDataSound ==
  ASSUME NEW p, Writes(p), e.type = "file", NEW m, Sound(m), NEW r \in WriteData(m, p, e)
  PROVE  Sound(r)
<1>. DEFINE k == IF opts.mode = "direct" THEN Len(e.copies) ELSE m.copy
            n == [Entry(e, 0) EXCEPT !.mtime = Now]
            partial == Added(m, p, n)
<1>0. k \in Nat
  BY ListedIs DEF Writes, Sound
<1>1. /\ Entry(e, 0) \in Inodes /\ Entry(e, 0).id = e.id
      /\ Entry(e, k) \in Inodes /\ Entry(e, k).id = e.id
  BY <1>0, EntryIsInode DEF IsDet
<1>2. n \in Inodes /\ n.id = e.id
  <2>1. Now \in Int  BY DEF Now
  <2>. QED BY <1>1, <2>1, Dated
<1>. HIDE DEF n
<1>3. /\ Sound(partial) /\ partial.ino # <<>>
      /\ partial.ino[Len(partial.ino)].id = e.id
  BY <1>2, AddedSound
<1>4. CASE r = Raise(partial, "range")  BY <1>3, <1>4, RaiseSound
<1>5. CASE r \in Fails(Touch(m, p), "cancel")  BY <1>5, TouchSound, FailsSound
<1>6. CASE r \in Then(ReadCRC(partial, e),
                      LAMBDA x : IF e.copies[k] = "bad" THEN {Raise(x, "range")}
                                 ELSE {[x EXCEPT !.ino[Len(x.ino)] = Entry(e, k)]})
  <2>. HIDE DEF partial, k
  <2>1. PICK x \in ReadCRC(partial, e) :
          r = x \/ r = Raise(x, "range") \/ r = [x EXCEPT !.ino[Len(x.ino)] = Entry(e, k)]
    BY <1>6 DEF Then
  <2>2. Sound(x) /\ x.ino = partial.ino  BY <1>3, ReadCRCSound
  <2>3. CASE r = [x EXCEPT !.ino[Len(x.ino)] = Entry(e, k)]
    <3>. DEFINE j == [x.ino EXCEPT ![Len(x.ino)] = Entry(e, k)]
    <3>1. x.ino \in Seq(Inodes) /\ x.ino # <<>>  BY <1>3, <2>2 DEF Sound
    <3>2. SameIds(x.ino, j)  BY <1>1, <1>3, <2>2, <3>1 DEF SameIds
    <3>3. r = [x EXCEPT !.ino = j]  BY <2>3
    <3>4. /\ Fields \subseteq DOMAIN r /\ r.ino = j /\ r.disk = x.disk /\ r.corres = x.corres
          /\ r.marks = x.marks /\ r.stack = x.stack /\ r.res = x.res /\ r.copy = x.copy
      BY <2>2, <3>3 DEF Sound, Fields
    <3>5. x.res \in Results  BY <2>2 DEF Sound
    <3>. QED BY <2>2, <3>2, <3>4, <3>5, InodesEdited
  <2>. QED BY <2>1, <2>2, <2>3, RaiseSound
<1>. QED BY <1>4, <1>5, <1>6 DEF WriteData, n

\* The path of the first link is recorded, or forgotten.
LEMMA CorresSound ==
  ASSUME NEW p, Writes(p), NEW m, Sound(m), e.hard, NEW a, NEW q,
         q = p \/ (e.etiq \in DOMAIN m.corres /\ q = m.corres[e.etiq].path)
  PROVE  Sound([m EXCEPT !.corres = With(@, e.etiq, [path |-> q, ea |-> a])])
<1>. DEFINE c == With(m.corres, e.etiq, [path |-> q, ea |-> a])
<1>1. ASSUME Tame PROVE Recorded(c)
  <2>1. p = e.path /\ e \in Listed /\ Recorded(m.corres)  BY <1>1 DEF Writes, Sound
  <2>2. \E x \in Listed : x.hard /\ x.etiq = e.etiq /\ x.path = q  BY <2>1 DEF Recorded
  <2>3. \A n \in DOMAIN c : (n = e.etiq /\ c[n].path = q) \/ (n \in DOMAIN m.corres /\ c[n] = m.corres[n])
    BY DEF With
  <2>. QED BY <2>1, <2>2, <2>3 DEF Recorded
<1>. HIDE DEF c
<1>2. Sound([m EXCEPT !.corres = c])  BY <1>1 DEF Sound, Fields, MarksOK
<1>3. [m EXCEPT !.corres = With(@, e.etiq, [path |-> q, ea |-> a])] = [m EXCEPT !.corres = c]
  BY DEF c, Sound, Fields
<1>. QED BY <1>2, <1>3

\* A first link is forgotten.
LEMMA ForgetSound ==
  ASSUME NEW m, Sound(m), NEW S PROVE Sound([m EXCEPT !.corres = Without(@, S)])
BY DEF Sound, Fields, Without, Recorded, MarksOK

\* The system failed once more.
LEMMA FaultsSound ==
  ASSUME NEW m, Sound(m), NEW f PROVE Sound([m EXCEPT !.faults = f])
BY DEF Sound, Fields, MarksOK

\* An inode is made, and recorded when it is the first link.
LEMMA CreateSound ==
  ASSUME NEW p, Writes(p), ~ IsDet(e), NEW m, Sound(m), NEW r \in Create(m, p, e)
  PROVE  Sound(r)
<1>. DEFINE made == IF e.type = "file" THEN WriteData(m, p, e) ELSE {Added(m, p, Entry(e, 1))}
<1>1. ASSUME NEW x \in made PROVE Sound(x)
  <2>1. CASE e.type = "file"  BY <1>1, <2>1, WriteDataSound
  <2>2. CASE e.type # "file"
    <3>1. Entry(e, 1) \in Inodes /\ Entry(e, 1).id = e.id  BY EntryIsInode
    <3>. QED BY <1>1, <2>2, <3>1, AddedSound
  <2>. QED BY <2>1, <2>2
<1>2. ASSUME NEW x, Sound(x), e.hard
      PROVE  Sound([x EXCEPT !.corres = With(@, e.etiq, [path |-> p, ea |-> FALSE])])
  BY <1>2, CorresSound
<1>3. CASE r \in Fails(m, "range") \/ r \in Fails(m, "abort")  BY <1>3, FailsSound
<1>4. ASSUME NEW x \in made,
             r = x \/ (e.hard /\ r = [x EXCEPT !.corres = With(@, e.etiq, [path |-> p, ea |-> FALSE])])
      PROVE  Sound(r)
  BY <1>1, <1>2, <1>4
<1>5. CASE Front(p) \notin DOMAIN m.disk
  BY <1>5, RaiseSound DEF Create
<1>6. CASE Front(p) \in DOMAIN m.disk
  <2>. DEFINE kept(x) == IF e.hard /\ e.etiq \notin DOMAIN m.corres
                         THEN [x EXCEPT !.corres = With(@, e.etiq, [path |-> p, ea |-> FALSE])] ELSE x
  <2>1. r \in Fails(m, "range") \/ r \in Fails(m, "abort") \/ r \in Then(made, LAMBDA x : {kept(x)})
    BY <1>6 DEF Create
  <2>2. ASSUME r \in Then(made, LAMBDA x : {kept(x)})
        PROVE  \E x \in made : r = x \/ (e.hard /\ r = [x EXCEPT !.corres = With(@, e.etiq, [path |-> p, ea |-> FALSE])])
    <3>. HIDE DEF made, kept
    <3>1. PICK x \in made : r = x \/ r = kept(x)  BY <2>2 DEF Then
    <3>. QED BY <3>1 DEF kept
  <2>. QED BY <1>3, <1>4, <2>1, <2>2
<1>. QED BY <1>5, <1>6

\* A name linked to the first link recorded is a name of the same inode of the archive.
LEMMA LinkSound ==
  ASSUME NEW p, Writes(p), NEW m, Sound(m), e.hard, e.etiq \in DOMAIN m.corres,
         NEW t, t = m.corres[e.etiq].path, t \in DOMAIN m.disk
  PROVE  Sound([m EXCEPT !.disk = With(@, p, m.disk[t])])
<1>. DEFINE d == With(m.disk, p, m.disk[t])
<1>1. \A q \in DOMAIN d : \/ q = p /\ d[q] = m.disk[t]
                          \/ q \in DOMAIN m.disk /\ d[q] = m.disk[q]
  BY DEF With
<1>2. \A q \in DOMAIN d : d[q] \in DOMAIN m.ino  BY <1>1 DEF Sound
<1>3. ASSUME Tame PROVE Sited(d, m.ino)
  <2>1. p = e.path /\ e \in Listed /\ Recorded(m.corres) /\ Sited(m.disk, m.ino)
    BY <1>3 DEF Writes, Sound
  <2>2. PICK x \in Listed : x.hard /\ x.etiq = e.etiq /\ x.path = t  BY <2>1 DEF Recorded
  <2>3. x.id = e.id  BY <2>1, <2>2, OneEntry DEF Writes
  <2>4. m.ino[m.disk[t]].id # "none" => m.ino[m.disk[t]].id = e.id
    <3>1. HAVE m.ino[m.disk[t]].id # "none"
    <3>2. PICK y \in Listed : y.path = t /\ y.id = m.ino[m.disk[t]].id  BY <2>1, <3>1 DEF Sited
    <3>3. y = x  BY <2>2, <3>2, OneEntry DEF Writes
    <3>. QED BY <2>3, <3>2, <3>3
  <2>. SUFFICES ASSUME NEW q \in DOMAIN d, m.ino[d[q]].id # "none"
                PROVE  \E y \in Listed : y.path = q /\ y.id = m.ino[d[q]].id
    BY DEF Sited
  <2>5. CASE q = p /\ d[q] = m.disk[t]  BY <2>1, <2>4, <2>5
  <2>6. CASE q \in DOMAIN m.disk /\ d[q] = m.disk[q]  BY <2>1, <2>6 DEF Sited
  <2>. QED BY <1>1, <2>5, <2>6
<1>. HIDE DEF d
<1>4. Sound([m EXCEPT !.disk = d])  BY <1>2, <1>3 DEF Sound, Fields, MarksOK
<1>5. [m EXCEPT !.disk = With(@, p, m.disk[t])] = [m EXCEPT !.disk = d]  BY DEF d, Sound, Fields
<1>. QED BY <1>4, <1>5

\* make_file: linked to the first link, or made.
LEMMA MakeFileSound ==
  ASSUME NEW p, Writes(p), ~ IsDet(e), NEW m, Sound(m), NEW r \in MakeFile(m, p, e)
  PROVE  Sound(r)
<1>. DEFINE t == m.corres[e.etiq].path
            forget == [m EXCEPT !.corres = Without(@, {e.etiq})]
<1>1. Sound(forget) /\ Sound([forget EXCEPT !.faults = @ - 1]) /\ Sound([m EXCEPT !.faults = @ - 1])
  <2>1. Sound(forget)  BY ForgetSound
  <2>. HIDE DEF forget
  <2>. QED BY <2>1, FaultsSound
<1>2. CASE ~ e.hard \/ e.etiq \notin DOMAIN m.corres
  <2>1. r \in Create(m, p, e)  BY <1>2 DEF MakeFile
  <2>. QED BY <2>1, CreateSound
<1>3. CASE e.hard /\ e.etiq \in DOMAIN m.corres /\ t \in DOMAIN m.disk
  <2>. DEFINE linked == [m EXCEPT !.disk = With(@, p, m.disk[t])]
  <2>1. \/ r = Touch(linked, p) \/ r = m
        \/ r = [m EXCEPT !.faults = @ - 1]
        \/ r \in Create(forget, p, e)
        \/ r \in Create([forget EXCEPT !.faults = @ - 1], p, e)
    <3>1. CASE Front(p) \notin DOMAIN m.disk  BY <1>3, <3>1 DEF MakeFile
    <3>2. CASE Front(p) \in DOMAIN m.disk /\ m.ino[m.disk[t]].type = "dir"
      BY <1>3, <3>2 DEF MakeFile
    <3>3. CASE Front(p) \in DOMAIN m.disk /\ m.ino[m.disk[t]].type # "dir"
      BY <1>3, <3>3 DEF MakeFile
    <3>. QED BY <3>1, <3>2, <3>3
  <2>2. Sound(linked)  BY <1>3, LinkSound
  <2>. HIDE DEF forget, linked
  <2>. QED BY <1>1, <2>1, <2>2, CreateSound, TouchSound
<1>4. CASE e.hard /\ e.etiq \in DOMAIN m.corres /\ t \notin DOMAIN m.disk
  <2>1. r \in Create(forget, p, e) \/ r = m  BY <1>4 DEF MakeFile
  <2>. HIDE DEF forget
  <2>. QED BY <1>1, <2>1, CreateSound
<1>. QED BY <1>2, <1>3, <1>4
-----------------------------------------------------------------------------
(* EA *)

\* The EA of the entry are read once.
LEMMA GetEASound ==
  ASSUME NEW m, Sound(m), NEW r \in GetEA(m, e) PROVE Sound(r)
<1>1. CASE r = m  BY <1>1
<1>2. CASE r = Raise(m, "range")  BY <1>2, RaiseSound
<1>3. CASE m.marks # <<>> /\ r = [m EXCEPT !.marks = Tail(@), !.eas = @ \cup {e.id}]
  <2>1. Tail(<<"ea">>) = <<>>  OBVIOUS
  <2>2. MarksOK(e, m.marks)  BY DEF Sound
  <2>3. MarksOK(e, Tail(m.marks))  BY <1>3, <2>1, <2>2 DEF MarksOK
  <2>. QED BY <1>3, <2>3 DEF Sound, Fields
<1>. QED BY <1>1, <1>2, <1>3 DEF GetEA

\* That the EA of an inode with several links are done is recorded.
LEMMA RecordSound ==
  ASSUME NEW p, Writes(p), NEW m, Sound(m), NEW done
  PROVE  Sound(Record(m, p, e, done)) /\ Record(m, p, e, done).disk = m.disk
<1>1. CASE ~ e.hard  BY <1>1 DEF Record
<1>2. CASE e.hard
  <2>. DEFINE q == IF e.etiq \in DOMAIN m.corres THEN m.corres[e.etiq].path ELSE p
  <2>1. q = p \/ (e.etiq \in DOMAIN m.corres /\ q = m.corres[e.etiq].path)  OBVIOUS
  <2>2. Record(m, p, e, done) = [m EXCEPT !.corres = With(@, e.etiq, [path |-> q, ea |-> done])]
    BY <1>2 DEF Record, Sound, Fields
  <2>. HIDE DEF q
  <2>3. Sound([m EXCEPT !.corres = With(@, e.etiq, [path |-> q, ea |-> done])])
    BY <1>2, <2>1, CorresSound
  <2>. QED BY <2>2, <2>3 DEF Sound, Fields
<1>. QED BY <1>1, <1>2

\* The field ea tells write() that EA were restored.
LEMMA TellSound ==
  ASSUME NEW m, Sound(m), NEW x PROVE Sound([m EXCEPT !.ea = x])
BY DEF Sound, Fields, MarksOK

\* raw_set_ea, refused or not.
LEMMA RawSetEASound ==
  ASSUME NEW p, Writes(p), NEW m, Sound(m), NEW given \in SUBSET {"archive", "own"},
         NEW r \in RawSetEA(m, p, e, given)
  PROVE  Sound(r)
<1>. DEFINE s == Record(m, p, e, TRUE)
<1>1. Sound(s)  BY RecordSound
<1>. HIDE DEF s
<1>2. CASE r = m \/ r = Raise(s, "range") \/ r \in Fails(s, "range")
  BY <1>1, <1>2, RaiseSound, FailsSound
<1>3. CASE p \in DOMAIN m.disk /\ r = [SetEA(s, p, s.ino[s.disk[p]].eas \cup given) EXCEPT !.ea = TRUE]
  <2>1. p \in DOMAIN s.disk  BY <1>3, RecordSound DEF s
  <2>2. s.ino[s.disk[p]] \in Inodes  BY <1>1, <2>1 DEF Sound
  <2>3. s.ino[s.disk[p]].eas \cup given \in SUBSET {"archive", "own"}  BY <2>2 DEF Inodes
  <2>. QED BY <1>1, <1>3, <2>1, <2>3, SetEASound, TellSound
<1>. QED BY <1>2, <1>3 DEF RawSetEA, s

\* raw_clear_ea_set.
LEMMA RawClearEASound ==
  ASSUME NEW p, Writes(p), NEW m, Sound(m), NEW r \in RawClearEA(m, p, e)
  PROVE  Sound(r)
<1>. DEFINE s == Record(m, p, e, FALSE)
<1>1. Sound(s) /\ s.disk = m.disk  BY RecordSound
<1>. HIDE DEF s
<1>2. CASE p \in DOMAIN m.disk /\ r = SetEA(s, p, {})  BY <1>1, <1>2, SetEASound
<1>3. CASE r = Raise(s, "range")  BY <1>1, <1>3, RaiseSound
<1>. QED BY <1>2, <1>3 DEF RawClearEA, s
-----------------------------------------------------------------------------
(* The cases of write(). *)

\* The result of write().
LEMMA ResultSound ==
  ASSUME NEW m, Sound(m), NEW x \in Results PROVE Sound([m EXCEPT !.res = x])
BY DEF Sound, Fields, MarksOK

\* Whether a hard link is counted.
LEMMA HardSound ==
  ASSUME NEW m, Sound(m), NEW x PROVE Sound([m EXCEPT !.hard = x])
BY DEF Sound, Fields, MarksOK

\* The EA of the archive.
LEMMA GivenIs == Given(e) \in SUBSET {"archive", "own"}
BY DEF Given

\* What is written where nothing is in place.
LEMMA WriteNewSound ==
  ASSUME NEW p, Writes(p), NEW m, Sound(m), NEW r \in WriteNew(m, p, e)
  PROVE  Sound(r)
<1>1. CASE IsDet(e)
  BY <1>1, RaiseSound DEF WriteNew
<1>2. CASE ~ IsDet(e) /\ r = [m EXCEPT !.hard = FALSE]
  BY <1>2, HardSound
<1>3. CASE ~ IsDet(e) /\ r # [m EXCEPT !.hard = FALSE]
  <2>. DEFINE made == IF opts.empty THEN {m} ELSE MakeFile(m, p, e)
              done(x) == MarkParent([x EXCEPT !.res = "restored"])
              given(d) == Then(Then(GetEA(d, e), LAMBDA g : RawSetEA(g, p, e, Given(e))),
                               LAMBDA s : {SetDate(s, p, e.mtime)})
  <2>1. ASSUME NEW x \in made PROVE Sound(x) /\ Sound(done(x))
    <3>1. Sound(x)  BY <1>3, <2>1, MakeFileSound
    <3>2. Sound([x EXCEPT !.res = "restored"])  BY <3>1, ResultSound DEF Results
    <3>. QED BY <3>1, <3>2, MarkParentSound
  <2>2. ASSUME NEW d, Sound(d), NEW y \in given(d) PROVE Sound(y)
    <3>1. PICK s : Sound(s) /\ (y = s \/ y = SetDate(s, p, e.mtime))
      <4>1. PICK s \in Then(GetEA(d, e), LAMBDA g : RawSetEA(g, p, e, Given(e))) :
               y = s \/ y = SetDate(s, p, e.mtime)
        BY <2>2 DEF Then
      <4>2. PICK g \in GetEA(d, e) : s = g \/ s \in RawSetEA(g, p, e, Given(e))
        BY <4>1 DEF Then
      <4>3. Sound(g)  BY <2>2, <4>2, GetEASound
      <4>4. Sound(s)  BY <4>2, <4>3, RawSetEASound, GivenIs
      <4>. QED BY <4>1, <4>4
    <3>2. e.mtime \in Int  BY ListedIs DEF Writes
    <3>. QED BY <3>1, <3>2, SetDateSound
  <2>3. PICK x \in made : \/ r = x \/ r = done(x) \/ r = [done(x) EXCEPT !.ea = TRUE]
                          \/ r \in given(done(x))
    <3>1. r \in Then(made, LAMBDA y : IF ~ HasEASaved(e) THEN {done(y)}
                                      ELSE IF opts.empty THEN {[done(y) EXCEPT !.ea = TRUE]}
                                      ELSE given(done(y)))
      BY <1>3 DEF WriteNew
    <3>. HIDE DEF made, done, given
    <3>. QED BY <3>1 DEF Then
  <2>. HIDE DEF made, done, given
  <2>. QED BY <2>1, <2>2, <2>3, TellSound
<1>. QED BY <1>1, <1>2, <1>3

\* What is in place is replaced.
LEMMA OverwriteDataSound ==
  ASSUME NEW p, Writes(p), ~ IsDet(e), NEW m, Sound(m), p \in DOMAIN m.disk,
         NEW r \in OverwriteData(m, p, e)
  PROVE  Sound(r)
<1>. DEFINE kept == m.ino[m.disk[p]].eas
            done(x) == [x EXCEPT !.res = "restored"]
<1>1. kept \in SUBSET {"archive", "own"}
  <2>1. m.ino[m.disk[p]] \in Inodes  BY DEF Sound
  <2>. QED BY <2>1 DEF Inodes
<1>2. e.mtime \in Int  BY ListedIs DEF Writes
<1>3. ASSUME NEW x, Sound(x) PROVE Sound(done(x))  BY <1>3, ResultSound DEF Results
<1>4. CASE BothDirs(m, p, e)
  <2>1. Sound(SetDate(m, p, e.mtime))  BY <1>2, SetDateSound
  <2>2. r = done(m) \/ r = done(SetDate(m, p, e.mtime))  BY <1>4 DEF OverwriteData
  <2>. HIDE DEF done
  <2>. QED BY <1>3, <2>1, <2>2
<1>5. CASE ~ BothDirs(m, p, e) /\ opts.empty
  BY <1>5 DEF OverwriteData
<1>6. CASE ~ BothDirs(m, p, e) /\ ~ opts.empty
  <2>. DEFINE eased(s) == IF kept # {} /\ p \in DOMAIN s.disk
                          THEN SetEA(s, p, s.ino[s.disk[p]].eas \cup kept) ELSE s
  <2>1. r \in Then(Supprime(m, p), LAMBDA x : Then(MakeFile(x, p, e), LAMBDA s : {done(eased(s))}))
    BY <1>6 DEF OverwriteData
  <2>. HIDE DEF done, eased, kept
  <2>2. PICK x \in Supprime(m, p) : r = x \/ r \in Then(MakeFile(x, p, e), LAMBDA s : {done(eased(s))})
    BY <2>1 DEF Then
  <2>3. Sound(x)  BY <2>2, SupprimeSound
  <2>4. r = x \/ \E s \in MakeFile(x, p, e) : r = s \/ r = done(eased(s))  BY <2>2 DEF Then
  <2>5. ASSUME NEW s, Sound(s) PROVE Sound(eased(s))
    <3>1. CASE p \in DOMAIN s.disk
      <4>1. s.ino[s.disk[p]] \in Inodes  BY <2>5, <3>1 DEF Sound
      <4>2. s.ino[s.disk[p]].eas \cup kept \in SUBSET {"archive", "own"}  BY <1>1, <4>1 DEF Inodes
      <4>. QED BY <2>5, <3>1, <4>2, SetEASound DEF eased
    <3>2. CASE p \notin DOMAIN s.disk  BY <2>5, <3>2 DEF eased
    <3>. QED BY <3>1, <3>2
  <2>. QED BY <1>3, <2>3, <2>4, <2>5, MakeFileSound
<1>. QED BY <1>4, <1>5, <1>6

\* What a policy does of the data.
LEMMA OverDataSound ==
  ASSUME NEW p, Writes(p), ~ IsDet(e), NEW m, Sound(m), p \in DOMAIN m.disk,
         NEW action, NEW r \in OverData(m, p, e, action)
  PROVE  Sound(r)
<1>1. ASSUME NEW x PROVE Sound(Raise(m, x))  BY RaiseSound
<1>2. ASSUME NEW x \in Results PROVE Sound([m EXCEPT !.res = x])  BY ResultSound
<1>3. CASE action \in {"preserve", "preserve_mark_saved"}
  BY <1>1, <1>2, <1>3 DEF OverData, Results
<1>4. CASE action \in {"overwrite", "overwrite_mark_saved"}
  <2>1. \/ r \in OverwriteData(m, p, e)
        \/ r = [m EXCEPT !.res = "policy"] \/ r = Raise(m, "abort")
    BY <1>4 DEF OverData, Confirm
  <2>. QED BY <1>1, <1>2, <2>1, OverwriteDataSound DEF Results
<1>5. CASE action = "remove"
  <2>1. \/ r = Raise(m, "abort")
        \/ r \in Then(IF opts.empty THEN {m} ELSE Supprime(m, p), LAMBDA s : {[s EXCEPT !.res = "removed"]})
    BY <1>5 DEF OverData, Confirm
  <2>2. ASSUME r \in Then(IF opts.empty THEN {m} ELSE Supprime(m, p), LAMBDA s : {[s EXCEPT !.res = "removed"]})
        PROVE  Sound(r)
    <3>1. PICK s \in (IF opts.empty THEN {m} ELSE Supprime(m, p)) : r = s \/ r = [s EXCEPT !.res = "removed"]
      BY <2>2 DEF Then
    <3>2. Sound(s)  BY <3>1, SupprimeSound
    <3>. QED BY <3>1, <3>2, ResultSound DEF Results
  <2>. QED BY <1>1, <2>1, <2>2
<1>6. CASE action \notin {"preserve", "preserve_mark_saved", "overwrite", "overwrite_mark_saved", "remove"}
  BY <1>1, <1>6 DEF OverData
<1>. QED BY <1>3, <1>4, <1>5, <1>6

\* What a policy does of a record of a removed file.
LEMMA OverRemoveSound ==
  ASSUME NEW p, NEW m, Sound(m), NEW action, NEW r \in OverRemove(m, p, action)
  PROVE  Sound(r)
<1>1. ASSUME NEW x PROVE Sound(Raise(m, x))  BY RaiseSound
<1>2. \/ r = m \/ r = Raise(m, "abort") \/ r = Raise(m, "range") \/ r = Raise(m, "bug")
      \/ r \in Supprime(m, p)
  BY DEF OverRemove, Confirm
<1>. QED BY <1>1, <1>2, SupprimeSound

\* What a policy does of the EA.
LEMMA OverEASound ==
  ASSUME NEW p, Writes(p), NEW m, Sound(m), NEW place \in Inodes,
         NEW action, NEW r \in OverEA(m, p, e, place, action)
  PROVE  Sound(r)
<1>. DEFINE todo == EAToDo(e, place, action)
            no == [m EXCEPT !.ea = FALSE]
            yes(x) == [x EXCEPT !.ea = TRUE]
<1>1. ASSUME NEW x PROVE Sound(Raise(m, x))  BY RaiseSound
<1>2. Sound(no) /\ \A x : Sound(x) => Sound(yes(x))  BY TellSound
<1>3. /\ Given(e) \in SUBSET {"archive", "own"}
      /\ Given(e) \cup place.eas \in SUBSET {"archive", "own"}
  BY GivenIs DEF Inodes
<1>4. CASE todo \in {"overwrite", "overwrite_mark_saved"}
  <2>. DEFINE set(g) == IF opts.empty THEN {yes(g)} ELSE RawSetEA(g, p, e, Given(e))
  <2>1. \/ r = no \/ r = Raise(m, "abort")
        \/ r \in Then(IF opts.empty THEN {m} ELSE RawClearEA(m, p, e),
                      LAMBDA s : Then(GetEA(s, e), LAMBDA g : set(g)))
    BY <1>4 DEF OverEA, Confirm
  <2>2. ASSUME r \in Then(IF opts.empty THEN {m} ELSE RawClearEA(m, p, e),
                          LAMBDA s : Then(GetEA(s, e), LAMBDA g : set(g)))
        PROVE  Sound(r)
    <3>. HIDE DEF set
    <3>1. PICK s \in (IF opts.empty THEN {m} ELSE RawClearEA(m, p, e)) :
             r = s \/ r \in Then(GetEA(s, e), LAMBDA g : set(g))
      BY <2>2 DEF Then
    <3>2. Sound(s)  BY <3>1, RawClearEASound
    <3>3. r = s \/ \E g \in GetEA(s, e) : r = g \/ r \in set(g)  BY <3>1 DEF Then
    <3>4. ASSUME NEW g, Sound(g), r \in set(g) PROVE Sound(r)
      BY <1>2, <1>3, <3>4, RawSetEASound DEF set
    <3>. QED BY <3>2, <3>3, <3>4, GetEASound
  <2>. QED BY <1>1, <1>2, <2>1, <2>2
<1>5. CASE todo = "clear"
  <2>1. \/ r = no \/ r = yes(m)
        \/ r \in Then(RawClearEA(m, p, e), LAMBDA s : {yes(s)})
    BY <1>5 DEF OverEA, Confirm
  <2>. HIDE DEF yes
  <2>2. r \in Then(RawClearEA(m, p, e), LAMBDA s : {yes(s)}) =>
          \E s \in RawClearEA(m, p, e) : r = s \/ r = yes(s)
    BY DEF Then
  <2>. QED BY <1>2, <2>1, <2>2, RawClearEASound
<1>6. CASE todo \in {"merge_preserve", "merge_overwrite"}
  <2>. DEFINE set(g) == IF opts.empty THEN {yes(g)} ELSE RawSetEA(g, p, e, Given(e) \cup place.eas)
  <2>1. r = no \/ r \in Then(GetEA(m, e), LAMBDA g : set(g))
    BY <1>6 DEF OverEA, Confirm
  <2>2. ASSUME NEW g, Sound(g), r \in set(g) PROVE Sound(r)
    BY <1>2, <1>3, <2>2, RawSetEASound
  <2>. HIDE DEF set
  <2>3. r = no \/ \E g \in GetEA(m, e) : r = g \/ r \in set(g)  BY <2>1 DEF Then
  <2>. QED BY <1>2, <2>2, <2>3, GetEASound
<1>7. CASE todo \notin {"overwrite", "overwrite_mark_saved", "clear", "merge_preserve", "merge_overwrite"}
  BY <1>1, <1>2, <1>7 DEF OverEA
<1>. QED BY <1>4, <1>5, <1>6, <1>7

\* What is written over what is in place.
LEMMA WriteOverSound ==
  ASSUME NEW p, Writes(p), TreeOK, p \in DOMAIN disk,
         NEW m, Sound(m), p \in DOMAIN m.disk, NEW r \in WriteOver(m, p, e)
  PROVE  Sound(r)
<1>. DEFINE place == ino[disk[p]]
            act == Decide(IF opts.restore = "only_deleted" THEN OfDetruits ELSE policy, place, e)
            data == IF act.data = "ask" THEN DataAnswers ELSE {act.data}
            ea == IF act.ea = "ask" THEN EAAnswers ELSE {act.ea}
            target == IF e.hard /\ e.etiq \notin DOMAIN m.corres
                      THEN [m EXCEPT !.corres = With(@, e.etiq, [path |-> p, ea |-> FALSE])] ELSE m
            date(x) == SetDate(x, p, IF x.res = "restored" THEN e.mtime ELSE place.mtime)
            removed(x) == MarkParent([x EXCEPT !.res = "removed", !.hard = FALSE])
            hard(x) == [x EXCEPT !.hard = @ /\ x.res = "restored"]
            eased(s) == IF act.data # "remove" /\ HasEASaved(e)
                        THEN UNION {Then(OverEA(s, p, e, place, x), LAMBDA y : {date(y)}) : x \in ea} ELSE {s}
            ended(t) == IF act.data = "remove" THEN MarkParent(t) ELSE t
            first(d) == IF HasData(e) THEN OverData(m, p, e, d) ELSE {target}
<1>1. place \in Inodes  BY DEF TreeOK
<1>2. e.mtime \in Int /\ place.mtime \in Int  BY <1>1, ListedIs DEF Writes, Inodes
<1>3. Sound(target)  BY CorresSound
<1>4. ASSUME NEW x, Sound(x) PROVE Sound(date(x)) /\ Sound(removed(x)) /\ Sound(hard(x)) /\ Sound(ended(x))
  <2>1. Sound(date(x))  BY <1>2, <1>4, SetDateSound
  <2>2. Sound([x EXCEPT !.res = "removed", !.hard = FALSE])
    <3>1. Sound([x EXCEPT !.res = "removed"])  BY <1>4, ResultSound DEF Results
    <3>2. [x EXCEPT !.res = "removed", !.hard = FALSE] = [[x EXCEPT !.res = "removed"] EXCEPT !.hard = FALSE]
      OBVIOUS
    <3>. QED BY <3>1, <3>2, HardSound
  <2>3. Sound(hard(x))  BY <1>4, HardSound
  <2>. QED BY <1>4, <2>1, <2>2, <2>3, MarkParentSound
<1>5. PICK d \in data :
        r \in IF IsDet(e)
              THEN Then(OverRemove(m, p, d), LAMBDA x : {removed(x)})
              ELSE Then(first(d), LAMBDA x : Then(eased(hard(x)), LAMBDA t : {ended(t)}))
  BY DEF WriteOver
<1>. HIDE DEF place, act, data, ea, target, date, removed, hard, ended
<1>6. CASE IsDet(e)
  <2>1. PICK x \in OverRemove(m, p, d) : r = x \/ r = removed(x)  BY <1>5, <1>6 DEF Then
  <2>. QED BY <1>4, <2>1, OverRemoveSound
<1>7. CASE ~ IsDet(e)
  <2>1. ASSUME NEW x \in first(d) PROVE Sound(x)  BY <1>3, <1>7, <2>1, OverDataSound
  <2>2. ASSUME NEW s, Sound(s), NEW t \in eased(s) PROVE Sound(t)
    <3>1. t = s \/ \E x \in ea : \E y \in OverEA(s, p, e, place, x) : t = y \/ t = date(y)
      BY <2>2 DEF Then
    <3>. QED BY <1>1, <1>4, <2>2, <3>1, OverEASound
  <2>. HIDE DEF first, eased
  <2>3. PICK x \in first(d) : r = x \/ r \in Then(eased(hard(x)), LAMBDA t : {ended(t)})
    BY <1>5, <1>7 DEF Then
  <2>4. r = x \/ \E t \in eased(hard(x)) : r = t \/ r = ended(t)  BY <2>3 DEF Then
  <2>. QED BY <1>4, <2>1, <2>2, <2>4
<1>. QED BY <1>6, <1>7

\* The state write() starts from.
LEMMA MemSound ==
  ASSUME Shaped, TreeOK, MarksOK(e, rd.marks) PROVE Sound(Mem)
BY DEF Shaped, ReaderOK, GhostOK, WalkOK, TreeOK, Mem, Sound, Fields, Results

\* Every outcome of write() is sound.
LEMMA OutcomesSound ==
  ASSUME Shaped, TreeOK, MarksOK(e, rd.marks), NEW p, Writes(p),
         NEW m, \/ m \in Then(Supprime(Mem, p), LAMBDA r : WriteNew(r, p, e))
                \/ m \in WriteNew(Mem, p, e)
                \/ p \in DOMAIN disk /\ m \in WriteOver(Mem, p, e)
  PROVE  Sound(m)
<1>1. Sound(Mem)  BY MemSound
<1>2. CASE m \in Then(Supprime(Mem, p), LAMBDA r : WriteNew(r, p, e))
  <2>1. PICK r \in Supprime(Mem, p) : m = r \/ m \in WriteNew(r, p, e)  BY <1>2 DEF Then
  <2>. QED BY <1>1, <2>1, SupprimeSound, WriteNewSound
<1>3. CASE m \in WriteNew(Mem, p, e)  BY <1>1, <1>3, WriteNewSound
<1>4. CASE p \in DOMAIN disk /\ m \in WriteOver(Mem, p, e)
  <2>1. Mem.disk = disk  BY DEF Mem
  <2>. QED BY <1>1, <1>4, <2>1, WriteOverSound
<1>. QED BY <1>2, <1>3, <1>4
-----------------------------------------------------------------------------
(* Paths and places. *)

\* The front and the last element of a sequence.
LEMMA FrontLast ==
  ASSUME NEW S, NEW s \in Seq(S), s # <<>>
  PROVE  /\ Front(s) \in Seq(S) /\ Len(Front(s)) = Len(s) - 1 /\ Len(s) \in Nat \ {0}
         /\ \A n \in 1..(Len(s) - 1) : Front(s)[n] = s[n]
         /\ Last(s) \in S /\ s = Append(Front(s), Last(s))
         /\ \A n \in 0..(Len(s) - 1) : SubSeq(Front(s), 1, n) = SubSeq(s, 1, n)
<1>1. Len(s) \in Nat /\ Len(s) # 0
  <2>1. Len(s) \in Nat
    BY LenProperties
  <2>2. Len(s) = 0 => s = <<>>
    BY EmptySeq
  <2> QED BY <2>1, <2>2
<1>2. \A i \in 1..Len(s) : s[i] \in S
  BY ElementOfSeq
<1>3. /\ Front(s) \in Seq(S) /\ Len(Front(s)) = Len(s) - 1
      /\ \A n \in 1..(Len(s) - 1) : Front(s)[n] = s[n]
  <2> DEFINE k == Len(s) - 1
  <2>1. k \in Nat /\ 1 \in 1..(Len(s) + 1) /\ k \in 0..Len(s) /\ k \in 1-1..Len(s)
    BY <1>1
  <2>2. \A i \in 1..k : i \in 1..Len(s) /\ s[i] \in S
    BY <1>1, <1>2
  <2>3. Front(s) = SubSeq(s, 1, k)
    BY DEF Front
  <2> HIDE DEF k
  <2>4. \A i \in 1..k : s[i] \in S
    BY <2>2
  <2>5. /\ SubSeq(s, 1, k) \in Seq(S) /\ Len(SubSeq(s, 1, k)) = k
        /\ \A i \in 1..k : SubSeq(s, 1, k)[i] = s[i]
    BY <2>1, <2>4, SubSeqProperties
  <2> QED BY <2>3, <2>5 DEF k
<1>4. Last(s) \in S
  BY <1>1, <1>2 DEF Last
<1>5. s = Append(Front(s), Last(s))
  <2> DEFINE f == Front(s)
             x == Last(s)
  <2>1. x = s[Len(s)]
    BY DEF Last
  <2>2. /\ Append(f, x) \in Seq(S) /\ Len(Append(f, x)) = Len(f) + 1
        /\ \A i \in 1..Len(f) : Append(f, x)[i] = f[i]
        /\ Append(f, x)[Len(f) + 1] = x
    BY <1>3, <1>4, AppendProperties
  <2> HIDE DEF f, x
  <2>3. Len(Append(f, x)) = Len(s) /\ \A i \in 1..Len(s) : Append(f, x)[i] = s[i]
    BY <1>1, <1>3, <2>1, <2>2 DEF f, x
  <2> QED BY <2>2, <2>3, SeqEqual DEF f, x
<1>6. ASSUME NEW n \in 0..(Len(s) - 1)
      PROVE  SubSeq(Front(s), 1, n) = SubSeq(s, 1, n)
  <2> DEFINE f == Front(s)
             a == SubSeq(f, 1, n)
             b == SubSeq(s, 1, n)
  <2>1. n \in Nat /\ \A i \in 1..n : i \in 1..Len(f) /\ i \in 1..Len(s) /\ f[i] = s[i] /\ s[i] \in S
    BY <1>1, <1>2, <1>3
  <2>2. a \in Seq(S) /\ Len(a) = n /\ \A i \in 1..n : a[i] = f[i]
    BY <1>3, <2>1, SubSeqProperties
  <2>3. b \in Seq(S) /\ Len(b) = n /\ \A i \in 1..n : b[i] = s[i]
    BY <1>1, <2>1, SubSeqProperties
  <2> HIDE DEF a, b
  <2>4. a = b
    BY <2>1, <2>2, <2>3, SeqEqual
  <2> QED BY <2>4 DEF a, b
<1> QED BY <1>1, <1>3, <1>4, <1>5, <1>6

\* The front and the last element of an extended sequence.
LEMMA FrontAppend ==
  ASSUME NEW S, NEW s \in Seq(S), NEW x \in S
  PROVE  /\ Append(s, x) \in Seq(S) /\ Len(Append(s, x)) = Len(s) + 1 /\ Len(s) \in Nat
         /\ Append(s, x) # <<>>
         /\ Front(Append(s, x)) = s /\ Last(Append(s, x)) = x
<1> DEFINE t == Append(s, x)
<1>1. /\ t \in Seq(S) /\ Len(t) = Len(s) + 1 /\ Len(s) \in Nat
      /\ \A i \in 1..Len(s) : t[i] = s[i]
      /\ t[Len(s) + 1] = x
  BY AppendProperties, LenProperties
<1> HIDE DEF t
<1>2. t # <<>>
  BY <1>1, EmptySeq
<1>3. Last(t) = x
  BY <1>1 DEF Last
<1>4. /\ Front(t) \in Seq(S) /\ Len(Front(t)) = Len(s)
      /\ \A n \in 1..Len(s) : Front(t)[n] = t[n]
  BY <1>1, <1>2, FrontLast
<1>5. Front(t) = s
  BY <1>1, <1>4, SeqEqual
<1> QED BY <1>1, <1>2, <1>3, <1>5 DEF t

\* The directory a path is in.
LEMMA FrontIs ==
  ASSUME NEW p \in Seq(Names)
  PROVE  Front(p) \in Seq(Names) /\ (p = <<>> => Front(p) = <<>>)
<1>1. CASE p = <<>>
  <2>1. Front(p) = <<>>  BY <1>1 DEF Front
  <2>. QED BY <1>1, <2>1
<1>2. CASE p # <<>>  BY <1>2, FrontLast
<1>. QED BY <1>1, <1>2

\* A catalogue gives its entries in the directory the one before leaves.
LEMMA OrderIs ==
  ASSUME NEW a \in Archives, NEW s \in {a.items, a.dets, a.all}
  PROVE  /\ Len(s) \in Nat /\ DOMAIN s = 1..Len(s)
         /\ \A n \in 0..Len(s) : Where(s, n) \in Seq(Names)
         /\ \A n \in 1..Len(s) :
              /\ s[n].path \in Seq(Names) /\ s[n].path # <<>>
              /\ s[n].type = "eod" => Where(s, n - 1) = s[n].path
              /\ s[n].type # "eod" => Where(s, n - 1) = Front(s[n].path) /\ s[n] \in Entries(a.all)
              /\ Where(s, n) = IF s[n].type = "dir" THEN s[n].path ELSE Front(s[n].path)
<1>1. IsSeq(s) /\ InOrder(s)  BY ArchivesAreTrees
<1>2. Len(s) \in Nat /\ DOMAIN s = 1..Len(s)  BY <1>1 DEF IsSeq
<1>3. \A n \in 1..Len(s) : /\ s[n].path \in Seq(Names) /\ s[n].path # <<>>
                           /\ Where(s, n) = IF s[n].type = "dir" THEN s[n].path ELSE Front(s[n].path)
                           /\ Where(s, n - 1) = IF s[n].type = "eod" THEN s[n].path ELSE Front(s[n].path)
  BY <1>1, <1>2 DEF InOrder, Where, After, IsDir
<1>4. \A n \in 0..Len(s) : Where(s, n) \in Seq(Names)
  <2>1. Where(s, 0) \in Seq(Names)  BY DEF Where
  <2>2. ASSUME NEW n \in 1..Len(s) PROVE Where(s, n) \in Seq(Names)
    <3>1. Front(s[n].path) \in Seq(Names)  BY <1>3, FrontIs
    <3>. QED BY <1>3, <3>1
  <2>. QED BY <1>2, <2>1, <2>2
<1>5. \A n \in 1..Len(s) : s[n].type # "eod" => s[n] \in Entries(a.all)
  <2>1. Entries(a.items) \subseteq Entries(a.all) /\ Entries(a.dets) \subseteq Entries(a.all)
    BY ArchivesAreTrees
  <2>2. \A n \in 1..Len(s) : s[n].type # "eod" => s[n] \in Entries(s)  BY <1>2 DEF Entries
  <2>. QED BY <2>1, <2>2
<1>. QED BY <1>2, <1>3, <1>4, <1>5

\* The same of what is being read.
LEMMA ReadIs ==
  ASSUME Shaped, NotEod
  PROVE  /\ Len(ReadFrom) \in Nat
         /\ \A n \in 0..Len(ReadFrom) : Where(ReadFrom, n) \in Seq(Names)
         /\ \A n \in 1..Len(ReadFrom) :
              /\ ReadFrom[n].path \in Seq(Names) /\ ReadFrom[n].path # <<>>
              /\ ReadFrom[n].type = "eod" => Where(ReadFrom, n - 1) = ReadFrom[n].path
              /\ ReadFrom[n].type # "eod" => Where(ReadFrom, n - 1) = Front(ReadFrom[n].path) /\ ReadFrom[n] \in Listed
              /\ Where(ReadFrom, n) = IF ReadFrom[n].type = "dir" THEN ReadFrom[n].path ELSE Front(ReadFrom[n].path)
<1>1. arch \in Archives  BY DEF Shaped, ReaderOK, GhostOK, WalkOK
<1>2. ReadFrom \in {arch.items, arch.dets, arch.all}  BY DEF Shaped, ReaderOK, GhostOK, WalkOK, NotEod, ReadFrom
<1>. QED BY <1>1, <1>2, OrderIs DEF Listed

\* The path told of an entry read where it is expected.
LEMMA EnfileIs ==
  ASSUME NEW x
  PROVE  /\ x.type = "eod" => Enfile(x) = [path |-> JuilletDir, init |-> FALSE]
         /\ (x.type # "eod" /\ x.path \in Seq(Names) /\ x.path # <<>> /\ JuilletDir = Front(x.path)) =>
               Enfile(x) = [path |-> x.path, init |-> IsDir(x)]
<1>1. x.type # "eod" /\ x.path \in Seq(Names) /\ x.path # <<>> /\ JuilletDir = Front(x.path) =>
        Append(JuilletDir, Name(x)) = x.path
  BY FrontLast DEF Name
<1>. QED BY <1>1 DEF Enfile, JuilletDir
-----------------------------------------------------------------------------
(* The steps of the walk. *)

\* The tree is as before, and no walk is back in step.
LEMMA TreeStays ==
  ASSUME TreeOK, Shaped, UNCHANGED <<source, tree, corres>>, Tame' => Tame
  PROVE  TreeOK'
BY DEF TreeOK, source, tree, Sited, Recorded, Listed

\* The next entry of the tree in memory is where the last one left.
LEMMA ReadDirectKeeps ==
  ASSUME IInv, ReadDirect PROVE IInv'
<1>. USE DEF ReadDirect, Return, source, tree, fs, ends
<1>1. Shaped'
  <2>1. ReaderOK'  BY DEF IInv, Shaped, ReaderOK
  <2>2. GhostOK' /\ WalkOK'  BY DEF IInv, Shaped, GhostOK, WalkOK
  <2>. QED BY <2>1, <2>2 DEF Shaped
<1>2. Placed'
  <2>1. JuilletDir' = JuilletDir  BY DEF JuilletDir
  <2>2. ReadFrom' = ReadFrom /\ ReadFrom = arch.all  BY DEF ReadFrom
  <2>3. Len(arch.all) \in Nat  BY ReadIs, <2>2 DEF IInv, NotEod
  <2>. QED BY <2>1, <2>2, <2>3 DEF IInv, Shaped, ReaderOK, GhostOK, WalkOK, Placed, NotEod, Busy, MarksOK
<1>3. CurrentDir'  BY DEF IInv, CurrentDir, JuilletDir
<1>4. TreeOK'  BY TreeStays DEF IInv, Tame
<1>5. Counted'  BY DEF IInv, Counted, Busy
<1>. QED BY <1>1, <1>2, <1>3, <1>4, <1>5 DEF IInv

\* The end of the catalogue.
LEMMA ReadEndKeeps ==
  ASSUME IInv, ReadEnd PROVE IInv'
<1>. USE DEF ReadEnd, Stop, source, tree, reader, fs
<1>1. Shaped'  BY DEF IInv, Shaped, ReaderOK, GhostOK, WalkOK
<1>2. Placed'  BY DEF IInv, Shaped, ReaderOK, GhostOK, WalkOK, Placed, NotEod, Busy, MarksOK, ReadFrom, JuilletDir, Listed
<1>3. CurrentDir'  BY DEF IInv, CurrentDir
<1>4. TreeOK'  BY TreeStays DEF IInv, Tame
<1>5. Counted'  BY DEF IInv, Shaped, ReaderOK, GhostOK, WalkOK, Counted, Busy
<1>. QED BY <1>1, <1>2, <1>3, <1>4, <1>5 DEF IInv

\* An end of directory in sequence leaves a skipped directory when it is the first
\* above it.
LEMMA ReadMarkKeeps ==
  ASSUME IInv, ReadMark PROVE IInv'
<1>. USE DEF source, tree, fs, ends
<1>. DEFINE it == arch.items[rd.pos + 1]
            depth == CASE IsDir(it) -> rd.depth + 1
                       [] it.type = "eod" -> rd.depth - 1
                       [] OTHER -> rd.depth
            next == [rd EXCEPT !.pos = @ + 1, !.depth = depth, !.marks = MarksOf(it)]
            here == Where(arch.items, rd.pos)
            there == Where(arch.items, rd.pos + 1)
<1>0. /\ pc = "reading" /\ rd.status = "marks" /\ rd.pos < Len(arch.items)
      /\ \/ rd.wait = 0 /\ rd' = next /\ Return(it)
         \/ rd.wait # 0 /\ rd' = [next EXCEPT !.wait = IF depth < @ THEN 0 ELSE @] /\ Again
  BY DEF ReadMark
<1>1. /\ UNCHANGED <<source, tree, fs, juillet, w, ends, faults, ghost>>
      /\ pc' \in {"reading", "filter"}
  BY <1>0 DEF Return, Again
<1>2. /\ rd.pos \in Nat /\ Len(arch.items) \in Nat /\ rd.pos + 1 \in 1..Len(arch.items)
      /\ here \in Seq(Names) /\ there \in Seq(Names)
      /\ it.path \in Seq(Names) /\ it.path # <<>>
      /\ it.type = "eod" => here = it.path
      /\ it.type # "eod" => here = Front(it.path)
      /\ there = IF it.type = "dir" THEN it.path ELSE Front(it.path)
  <2>1. rd.pos \in Nat /\ arch \in Archives  BY DEF IInv, Shaped, ReaderOK, GhostOK, WalkOK
  <2>2. Len(arch.items) \in Nat /\ rd.pos + 1 \in 1..Len(arch.items) /\ rd.pos \in 0..Len(arch.items)
        /\ rd.pos + 1 \in 0..Len(arch.items) /\ (rd.pos + 1) - 1 = rd.pos
    BY <1>0, <2>1, OrderIs
  <2>. QED BY <2>1, <2>2, OrderIs
<1>3. /\ rd.depth = Len(here) /\ rd.wait \in Nat /\ rd.depth \in Int
      /\ rd = [status |-> rd.status, pos |-> rd.pos, depth |-> rd.depth, wait |-> rd.wait,
               marks |-> rd.marks, eas |-> rd.eas]
  BY <1>0 DEF IInv, Placed, Shaped, ReaderOK, GhostOK, WalkOK
<1>4. depth = Len(there)
  <2>1. Len(Front(it.path)) = Len(it.path) - 1 /\ Len(it.path) \in Nat  BY <1>2, FrontLast
  <2>. QED BY <1>2, <1>3, <2>1 DEF IsDir
<1>5. /\ rd'.status = "marks" /\ rd'.pos = rd.pos + 1 /\ rd'.depth = depth
      /\ rd'.marks = MarksOf(it)
      /\ rd' = [status |-> rd'.status, pos |-> rd'.pos, depth |-> rd'.depth, wait |-> rd'.wait,
               marks |-> rd'.marks, eas |-> rd'.eas]
      /\ rd'.wait = IF rd.wait # 0 /\ depth < rd.wait THEN 0 ELSE rd.wait
  <2>. HIDE DEF depth
  <2>. QED BY <1>0, <1>3
<1>. HIDE DEF depth, next
<1>6. Shaped'
  <2>1. Len(there) \in Nat  BY <1>2
  <2>. QED BY <1>0, <1>1, <1>2, <1>3, <1>4, <1>5, <2>1 DEF IInv, Shaped, ReaderOK, GhostOK, WalkOK
<1>7. it.type # "file" => MarksOf(it) \in {<<>>, <<"ea">>}
  BY DEF MarksOf
<1>8. Placed'
  <2>1. /\ JuilletDir' = JuilletDir /\ ReadFrom' = arch.items /\ ReadFrom = arch.items
        /\ arch' = arch /\ NotEod
    BY <1>0, <1>1, <1>5 DEF JuilletDir, ReadFrom, NotEod
  <2>2. CASE rd.wait = 0
    <3>1. JuilletDir = here  BY <1>0, <2>1, <2>2 DEF IInv, Placed
    <3>2. e' = it /\ pc' = "filter"  BY <1>0, <2>2 DEF Return
    <3>. QED BY <1>2, <1>4, <1>5, <1>7, <2>1, <2>2, <3>1, <3>2
         DEF Placed, Busy, MarksOK
  <2>3. CASE rd.wait # 0
    <3>1. rd.depth >= rd.wait /\ SubSeq(here, 1, rd.wait - 1) = JuilletDir
      BY <1>0, <1>3, <2>3 DEF IInv, Placed
    <3>2. e' = e /\ pc' = "reading"  BY <1>0, <2>3 DEF Again
    <3>3. ASSUME depth < rd.wait PROVE there = JuilletDir
      <4>1. here # <<>> /\ Len(here) \in Nat  BY <1>2, <1>3, <2>3, <3>1
      <4>2. it.type = "eod" /\ rd.depth = rd.wait
        <5>1. Len(here) = IF it.type = "eod" THEN Len(it.path) ELSE Len(Front(it.path))  BY <1>2
        <5>2. Len(Front(it.path)) = Len(it.path) - 1 /\ Len(it.path) \in Nat  BY <1>2, FrontLast
        <5>. QED BY <1>2, <1>3, <1>4, <3>1, <3>3, <5>1, <5>2
      <4>3. there = Front(here)  BY <1>2, <4>2
      <4>. QED BY <1>3, <3>1, <4>2, <4>3 DEF Front
    <3>4. ASSUME ~ (depth < rd.wait) PROVE SubSeq(there, 1, rd.wait - 1) = JuilletDir
      <4>1. rd.wait - 1 \in Nat /\ rd.wait - 1 <= Len(here) - 1 /\ rd.wait - 1 <= Len(there) - 1
        BY <1>2, <1>3, <1>4, <2>3, <3>1, <3>4
      <4>2. here # <<>> /\ there # <<>>  BY <1>2, <4>1
      <4>3. there = here \/ there = Front(here) \/ here = Front(there)  BY <1>2
      <4>4. SubSeq(there, 1, rd.wait - 1) = SubSeq(here, 1, rd.wait - 1)
        <5>1. CASE there = Front(here)
          <6>1. rd.wait - 1 \in 0..(Len(here) - 1)  BY <1>2, <4>1
          <6>. QED BY <1>2, <4>2, <5>1, <6>1, FrontLast
        <5>2. CASE here = Front(there)
          <6>1. rd.wait - 1 \in 0..(Len(there) - 1)  BY <1>2, <4>1
          <6>. QED BY <1>2, <4>2, <5>2, <6>1, FrontLast
        <5>. QED BY <4>3, <5>1, <5>2
      <4>. QED BY <3>1, <4>4
    <3>. QED BY <1>2, <1>3, <1>4, <1>5, <2>1, <2>3, <3>2, <3>3, <3>4 DEF Placed, Busy, NotEod
  <2>. QED BY <2>2, <2>3
<1>9. CurrentDir'  BY <1>0, <1>1 DEF IInv, CurrentDir, JuilletDir
<1>10. TreeOK'  BY <1>1, TreeStays DEF IInv, Tame
<1>11. Counted'  BY <1>0, <1>1 DEF IInv, Counted, Busy
<1>. QED BY <1>6, <1>8, <1>9, <1>10, <1>11 DEF IInv

\* Past the last mark: ends of the directories still open, or the records of
\* removed files, which start from the root.
LEMMA ReadPastMarksKeeps ==
  ASSUME IInv, ReadPastMarks PROVE IInv'
<1>. USE DEF Again, Stop, source, tree, reader, fs, ends
<1>. DEFINE here == Where(arch.items, rd.pos)
<1>1. pc = "reading" /\ rd.status \in {"marks", "eod"} /\ rd.pos = Len(arch.items)
      /\ UNCHANGED <<source, tree, fs, juillet, w, stats, faults>> /\ NotEod = (rd.status = "marks")
  BY DEF ReadPastMarks, NotEod
<1>2. /\ rd.status = "marks" => rd.depth = Len(here) /\ here \in Seq(Names)
                                /\ (rd.wait = 0 => JuilletDir = here)
      /\ rd.wait \in Nat /\ rd.depth \in Int
  BY <1>1, ReadIs DEF IInv, Placed, Shaped, ReaderOK, GhostOK, WalkOK, ReadFrom
<1>3. rd.depth > 0 => ~ arch.complete
  <2>1. arch \in Archives /\ (rd.status = "eod" => ~ arch.complete)
    BY DEF IInv, Shaped, ReaderOK, WalkOK
  <2>2. arch.complete => Where(arch.items, Len(arch.items)) = <<>>
    BY <2>1, ArchivesAreTrees
  <2>. QED BY <1>1, <1>2, <2>1, <2>2
<1>4. JuilletDir' = JuilletDir /\ arch' = arch  BY <1>1 DEF JuilletDir
<1>5. CASE /\ rd.depth > 0
           /\ rd' = [rd EXCEPT !.status = "eod", !.depth = @ - 1, !.marks = <<>>]
           /\ e' = Eod /\ pc' = "filter"
           /\ ghost' = [ghost EXCEPT !.strayed = @ \/ rd.wait > 0]
           /\ verdict' = verdict
  <2>0. ghost'.strayed \in BOOLEAN /\ ghost' = [seen |-> ghost'.seen, strayed |-> ghost'.strayed]
        /\ ghost'.seen = ghost.seen
    <3>1. ghost = [seen |-> ghost.seen, strayed |-> ghost.strayed] /\ ghost.strayed \in BOOLEAN
      BY DEF IInv, Shaped, ReaderOK, GhostOK, WalkOK
    <3>2. ghost' = [seen |-> ghost.seen, strayed |-> ghost.strayed \/ rd.wait > 0]  BY <1>5, <3>1
    <3>. QED BY <3>2
  <2>1. Shaped'
    <3>1. /\ rd' = [rd EXCEPT !.status = "eod", !.depth = @ - 1, !.marks = <<>>]
          /\ pc' = "filter" /\ verdict' = verdict /\ ~ arch.complete
      BY <1>3, <1>5
    <3>2. rd' = [status |-> "eod", pos |-> rd.pos, depth |-> rd.depth - 1, wait |-> rd.wait,
                 marks |-> <<>>, eas |-> rd.eas]
      BY <3>1 DEF IInv, Shaped, ReaderOK, GhostOK, WalkOK
    <3>3. opts.mode # "direct" /\ verdict = "none"  BY <1>1 DEF IInv, Shaped, ReaderOK, GhostOK, WalkOK
    <3>4. UNCHANGED <<arch, opts, juillet, cur, stack, w>>  BY <1>1
    <3>5. ReaderOK'
      <4>1. rd' = [status |-> rd'.status, pos |-> rd'.pos, depth |-> rd'.depth, wait |-> rd'.wait,
                   marks |-> rd'.marks, eas |-> rd'.eas]
        BY <3>2
      <4>2. rd'.status = "eod" /\ rd'.pos = rd.pos /\ rd'.depth = rd.depth - 1 /\ rd'.wait = rd.wait
        BY <3>2
      <4>3. rd.pos \in Nat  BY DEF IInv, Shaped, ReaderOK
      <4>4. opts'.mode # "direct" /\ ~ arch'.complete  BY <3>1, <3>3, <3>4
      <4>. QED BY <1>2, <4>1, <4>2, <4>3, <4>4 DEF ReaderOK
    <3>6. GhostOK'  BY <2>0 DEF IInv, Shaped, GhostOK
    <3>7. WalkOK'  BY <3>1, <3>3, <3>4 DEF IInv, Shaped, WalkOK
    <3>. QED BY <3>5, <3>6, <3>7 DEF Shaped
  <2>2. rd'.status = "eod" /\ rd'.marks = <<>>  BY <1>5 DEF IInv, Shaped, ReaderOK, GhostOK, WalkOK
  <2>3. Placed'  BY <1>5, <2>2 DEF Placed, NotEod, Busy, MarksOK
  <2>4. ghost'.strayed = (ghost.strayed \/ rd.wait > 0) /\ ghost'.seen = ghost.seen
    BY <1>5 DEF IInv, Shaped, ReaderOK, GhostOK, WalkOK
  <2>5. CurrentDir'  BY <1>1, <1>4, <1>5, <2>4 DEF IInv, CurrentDir
  <2>6. TreeOK'  BY <1>1, <2>4, TreeStays DEF IInv, Tame
  <2>7. Counted'  BY <1>1, <1>5, <2>4 DEF IInv, Counted, Busy
  <2>. QED BY <2>1, <2>3, <2>5, <2>6, <2>7 DEF IInv
<1>6. CASE /\ rd.depth = 0 /\ arch.complete
           /\ rd' = [rd EXCEPT !.status = "detruits", !.pos = 0, !.marks = <<>>]
           /\ Again
  <2>0. rd.status = "marks"  BY <1>1, <1>6 DEF IInv, Shaped, ReaderOK, GhostOK, WalkOK
  <2>1. Shaped'  BY <1>1, <1>6, <2>0 DEF IInv, Shaped, ReaderOK, GhostOK, WalkOK
  <2>2. /\ rd'.status = "detruits" /\ rd'.pos = 0 /\ rd'.marks = <<>> /\ rd'.wait = rd.wait
    BY <1>6 DEF IInv, Shaped, ReaderOK, GhostOK, WalkOK
  <2>3. rd.wait = 0 /\ JuilletDir = <<>>
    <3>1. rd.wait > 0 => rd.depth >= rd.wait  BY <2>0 DEF IInv, Placed
    <3>2. rd.wait = 0  BY <1>2, <1>6, <3>1
    <3>. QED BY <1>2, <1>6, <2>0, <3>2
  <2>4. ReadFrom' = arch.dets /\ 0 \in 0..Len(arch.dets) /\ Where(arch.dets, 0) = <<>>
    BY <1>4, <2>2, OrderIs DEF ReadFrom, Where, IInv, Shaped, ReaderOK, GhostOK, WalkOK
  <2>5. Placed'  BY <1>1, <1>4, <1>6, <2>2, <2>3, <2>4 DEF Placed, Busy, MarksOK
  <2>6. CurrentDir'  BY <1>4, <1>6 DEF IInv, CurrentDir
  <2>7. TreeOK'  BY <1>6, TreeStays DEF IInv, Tame
  <2>8. Counted'  BY <1>6 DEF IInv, Counted, Busy
  <2>. QED BY <2>1, <2>5, <2>6, <2>7, <2>8 DEF IInv
<1>7. CASE /\ Stop("error") /\ UNCHANGED <<source, tree, reader, fs, w, stats, faults, ghost>>
  <2>1. Shaped'  BY <1>1, <1>7 DEF IInv, Shaped, ReaderOK, GhostOK, WalkOK
  <2>2. Placed'  BY <1>1, <1>7 DEF IInv, Shaped, ReaderOK, GhostOK, WalkOK, Placed, NotEod, Busy, MarksOK, ReadFrom, JuilletDir, Listed
  <2>3. CurrentDir'  BY <1>7 DEF IInv, CurrentDir
  <2>4. TreeOK'  BY <1>7, TreeStays DEF IInv, Tame
  <2>5. Counted'  BY <1>7 DEF IInv, Shaped, ReaderOK, GhostOK, WalkOK, Counted, Busy
  <2>. QED BY <2>1, <2>2, <2>3, <2>4, <2>5 DEF IInv
<1>. QED BY <1>1, <1>5, <1>6, <1>7 DEF ReadPastMarks

\* The next of the records of removed files.
LEMMA ReadDetruitsKeeps ==
  ASSUME IInv, ReadDetruits PROVE IInv'
<1>. USE DEF ReadDetruits, Return, source, tree, fs, ends
<1>1. Shaped'
  <2>1. ReaderOK'  BY DEF IInv, Shaped, ReaderOK
  <2>2. GhostOK' /\ WalkOK'  BY DEF IInv, Shaped, GhostOK, WalkOK
  <2>. QED BY <2>1, <2>2 DEF Shaped
<1>2. Placed'
  <2>1. JuilletDir' = JuilletDir  BY DEF JuilletDir
  <2>2. ReadFrom' = ReadFrom /\ ReadFrom = arch.dets  BY DEF ReadFrom
  <2>3. Len(arch.dets) \in Nat  BY ReadIs, <2>2 DEF IInv, NotEod
  <2>. QED BY <2>1, <2>2, <2>3 DEF IInv, Shaped, ReaderOK, GhostOK, WalkOK, Placed, NotEod, Busy, MarksOK
<1>3. CurrentDir'  BY DEF IInv, CurrentDir, JuilletDir
<1>4. TreeOK'  BY TreeStays DEF IInv, Tame
<1>5. Counted'  BY DEF IInv, Counted, Busy
<1>. QED BY <1>1, <1>2, <1>3, <1>4, <1>5 DEF IInv

\* A cancellation between two entries.
LEMMA CancelKeeps ==
  ASSUME IInv, Cancel PROVE IInv'
<1>. USE DEF Cancel, Stop, source, tree, reader, fs
<1>1. Shaped'  BY DEF IInv, Shaped, ReaderOK, GhostOK, WalkOK
<1>2. Placed'  BY DEF IInv, Shaped, ReaderOK, GhostOK, WalkOK, Placed, NotEod, Busy, MarksOK, ReadFrom, JuilletDir, Listed
<1>3. CurrentDir'  BY DEF IInv, CurrentDir
<1>4. TreeOK'  BY TreeStays DEF IInv, Tame
<1>5. Counted'  BY DEF IInv, Shaped, ReaderOK, GhostOK, WalkOK, Counted, Busy
<1>. QED BY <1>1, <1>2, <1>3, <1>4, <1>5 DEF IInv

\* The record of a removed file is passed over: it leaves no directory.
LEMMA SkipDetruitKeeps ==
  ASSUME IInv, SkipDetruit PROVE IInv'
<1>. USE DEF SkipDetruit, source, tree, reader, fs, ends
<1>1. Shaped'  BY DEF IInv, Shaped, ReaderOK, GhostOK, WalkOK
<1>2. Placed'
  <2>1. e.type = "detruit" /\ NotEod
    <3>1. e.type = "detruit"  BY DEF IsDet
    <3>. QED BY <3>1 DEF IInv, Placed, NotEod, Eod
  <2>2. Where(ReadFrom, rd.pos) = JuilletDir
    <3>1. rd.pos \in 1..Len(ReadFrom) /\ e = ReadFrom[rd.pos] /\ JuilletDir = Where(ReadFrom, rd.pos - 1)
      BY <2>1 DEF IInv, Shaped, ReaderOK, GhostOK, WalkOK, Placed
    <3>. QED BY <2>1, <3>1, ReadIs DEF IInv
  <2>3. JuilletDir' = JuilletDir /\ ReadFrom' = ReadFrom  BY DEF JuilletDir, ReadFrom
  <2>. QED BY <2>1, <2>2, <2>3 DEF IInv, Shaped, ReaderOK, GhostOK, WalkOK, Placed, NotEod, Busy, MarksOK
<1>3. CurrentDir'  BY DEF IInv, CurrentDir, JuilletDir
<1>4. TreeOK'  BY TreeStays DEF IInv, Tame
<1>5. Counted'  BY DEF IInv, Counted, Busy
<1>. QED BY <1>1, <1>2, <1>3, <1>4, <1>5 DEF IInv

\* The end of a directory: the path told is that directory, then the one above.
LEMMA LeaveDirectoryKeeps ==
  ASSUME IInv, LeaveDirectory PROVE IInv'
<1>. USE DEF LeaveDirectory, source, tree, fs, ends
<1>1. /\ juillet' = [path |-> JuilletDir, init |-> FALSE]
      /\ JuilletDir' = Front(JuilletDir) /\ juillet'.path = JuilletDir
  BY EnfileIs DEF JuilletDir
<1>2. JuilletDir \in Seq(Names)  BY FrontIs DEF IInv, Shaped, ReaderOK, GhostOK, WalkOK, JuilletDir
<1>3. Shaped'  BY <1>1, <1>2 DEF IInv, Shaped, ReaderOK, GhostOK, WalkOK
<1>4. Placed'
  <2>1. NotEod => Where(ReadFrom, rd.pos) = Front(JuilletDir)
    <3>1. HAVE NotEod
    <3>2. rd.pos \in 1..Len(ReadFrom) /\ e = ReadFrom[rd.pos] /\ JuilletDir = Where(ReadFrom, rd.pos - 1)
      BY <3>1 DEF IInv, Shaped, ReaderOK, GhostOK, WalkOK, Placed
    <3>. QED BY <3>1, <3>2, ReadIs DEF IInv
  <2>2. ReadFrom' = ReadFrom  BY DEF ReadFrom
  <2>. QED BY <1>1, <2>1, <2>2 DEF IInv, Shaped, ReaderOK, GhostOK, WalkOK, Placed, NotEod, Busy, MarksOK
<1>5. CurrentDir'  BY <1>1 DEF IInv, CurrentDir
<1>6. TreeOK'  BY TreeStays DEF IInv, Tame
<1>7. Counted'  BY DEF IInv, Counted, Busy
<1>. QED BY <1>3, <1>4, <1>5, <1>6, <1>7 DEF IInv

\* A directory left out or given up is skipped, or will be.
LEMMA SkipReadIs ==
  ASSUME Shaped, NotEod, ~ SkipFails, rd.pos \in 1..Len(ReadFrom), e = ReadFrom[rd.pos],
         IsDir(e), rd.wait = 0, rd.status = "marks" => rd.depth = Len(Where(arch.items, rd.pos)),
         SkipRead
  PROVE  /\ rd' = [status |-> rd'.status, pos |-> rd'.pos, depth |-> rd'.depth, wait |-> rd'.wait,
                   marks |-> rd'.marks, eas |-> rd'.eas]
         /\ rd'.status = rd.status /\ rd'.marks = rd.marks /\ rd'.depth = rd.depth
         /\ rd'.pos \in 0..Len(ReadFrom) /\ rd'.pos \in Nat /\ rd'.wait \in Nat
         /\ rd'.wait = 0 => Where(ReadFrom, rd'.pos) = Front(e.path)
         /\ rd.status = "completed" => rd'.wait = 0
         /\ rd.status = "marks" =>
              /\ rd'.pos = rd.pos
              /\ rd'.wait > 0 =>
                   /\ rd.depth >= rd'.wait
                   /\ SubSeq(Where(arch.items, rd.pos), 1, rd'.wait - 1) = Front(e.path)
<1>1. /\ e.path \in Seq(Names) /\ e.path # <<>> /\ Len(ReadFrom) \in Nat
      /\ Where(ReadFrom, rd.pos) = e.path
  BY ReadIs DEF IsDir
<1>2. Len(e.path) \in Nat /\ Len(e.path) # 0  BY <1>1, FrontLast
<1>3. CASE rd.status = "marks"
  <2>1. rd' = [rd EXCEPT !.wait = rd.depth]  BY <1>3 DEF SkipRead
  <2>2. rd.depth = Len(e.path) /\ Where(arch.items, rd.pos) = e.path  BY <1>1, <1>3 DEF ReadFrom
  <2>3. SubSeq(e.path, 1, Len(e.path) - 1) = Front(e.path)  BY DEF Front
  <2>4. rd' = [status |-> "marks", pos |-> rd.pos, depth |-> rd.depth, wait |-> rd.depth,
               marks |-> rd.marks, eas |-> rd.eas]
    BY <1>3, <2>1 DEF Shaped, ReaderOK
  <2>5. rd.pos \in Nat /\ rd.pos \in 0..Len(ReadFrom) /\ rd.depth > 0 /\ rd.depth \in Nat
    BY <1>1, <1>2, <2>2 DEF Shaped, ReaderOK
  <2>. QED BY <1>3, <2>2, <2>3, <2>4, <2>5
<1>4. CASE rd.status = "completed"
  <2>. DEFINE j == AfterDir(arch.all, rd.pos)
  <2>1. ReadFrom = arch.all /\ arch \in Archives  BY <1>4 DEF ReadFrom, Shaped, ReaderOK, GhostOK, WalkOK
  <2>2. j \in rd.pos..Len(arch.all) /\ arch.all[j].type = "eod" /\ arch.all[j].path = e.path
    <3>1. rd.pos \in DOMAIN arch.all  BY <2>1, OrderIs
    <3>2. \E k \in rd.pos..Len(arch.all) : arch.all[k].type = "eod" /\ arch.all[k].path = arch.all[rd.pos].path
      BY <2>1, <3>1, ArchivesAreTrees
    <3>. QED BY <2>1, <3>2 DEF AfterDir
  <2>3. j \in 1..Len(arch.all)  BY <1>1, <2>1, <2>2
  <2>4. Where(arch.all, j) = Front(e.path)  BY <2>1, <2>2, <2>3, OrderIs
  <2>5. rd' = [rd EXCEPT !.pos = j]  BY <1>4 DEF SkipRead
  <2>. HIDE DEF j
  <2>. QED BY <1>1, <1>4, <2>1, <2>3, <2>4, <2>5 DEF Shaped, ReaderOK, GhostOK, WalkOK
<1>. QED BY <1>3, <1>4 DEF Shaped, ReaderOK, GhostOK, WalkOK, SkipFails, NotEod

\* An entry is to be written, is left out, or is a directory left with all it holds.
LEMMA SelectKeeps ==
  ASSUME IInv, Select PROVE IInv'
<1>. USE DEF source, tree, fs, ends, Stop
<1>. DEFINE j == Enfile(e)
            CoveredHere == Covered(e, j.path)
<1>1. /\ pc = "filter" /\ e.type # "eod" /\ NotEod
      /\ UNCHANGED <<source, tree, e, fs, faults>>
      /\ ghost' = [ghost EXCEPT !.seen = @ + 1]
  BY DEF Select, IInv, Placed, NotEod, Eod
<1>2. /\ rd.pos \in 1..Len(ReadFrom) /\ e = ReadFrom[rd.pos] /\ rd.wait = 0
      /\ JuilletDir = Where(ReadFrom, rd.pos - 1)
  BY <1>1 DEF IInv, Shaped, ReaderOK, GhostOK, WalkOK, Placed
<1>3. /\ e.path \in Seq(Names) /\ e.path # <<>> /\ e \in Listed /\ JuilletDir = Front(e.path)
      /\ Where(ReadFrom, rd.pos) = IF IsDir(e) THEN e.path ELSE Front(e.path)
  BY <1>1, <1>2, ReadIs DEF IInv, IsDir
<1>4. j = [path |-> e.path, init |-> IsDir(e)] /\ IsDir(e) \in BOOLEAN
  BY <1>1, <1>3, EnfileIs DEF IsDir
<1>. HIDE DEF j
<1>5. /\ ghost' = [seen |-> ghost'.seen, strayed |-> ghost'.strayed]
      /\ ghost'.seen = ghost.seen + 1 /\ ghost'.seen \in Nat /\ ghost'.strayed = ghost.strayed
  BY <1>1 DEF IInv, Shaped, ReaderOK, GhostOK, WalkOK
<1>6. TreeOK'  BY <1>1, <1>5, TreeStays DEF IInv, Tame
<1>7. Front(e.path) \in Seq(Names)  BY <1>3, FrontIs
<1>8. CASE CoveredHere
  <2>1. /\ juillet' = j /\ UNCHANGED <<rd, ends>>
        /\ \/ pc' = "write" /\ w' = NothingDone
           \/ pc' = "wrote" /\ w' = [NothingDone EXCEPT !.exc = "abort"]
    BY <1>8 DEF Select, j
  <2>2. /\ {"res", "copy", "exc"} \subseteq DOMAIN w' /\ w'.res = "no_data" /\ w'.copy = 1 /\ (pc' = "wrote" => w'.exc = "abort")
    BY <2>1 DEF NothingDone
  <2>3. IsDir(e) => ~ opts.flat  BY <1>8 DEF Covered
  <2>4. Shaped'  BY <1>1, <1>3, <1>4, <1>5, <2>1, <2>2 DEF IInv, Shaped, ReaderOK, GhostOK, WalkOK, Results
  <2>5. Placed'
    <3>1. ReadFrom' = ReadFrom  BY <1>1, <2>1 DEF ReadFrom
    <3>. QED BY <1>1, <1>2, <1>3, <1>4, <2>1, <2>3, <3>1
         DEF IInv, Shaped, ReaderOK, GhostOK, WalkOK, Placed, NotEod, Busy, MarksOK, Listed
  <2>6. CurrentDir'  BY <1>1, <1>3, <1>4, <1>5, <2>1, <2>2 DEF IInv, CurrentDir
  <2>7. Counted'
    <3>1. pc' \in {"write", "wrote", "count"} /\ pc \notin {"write", "wrote", "count"}
          /\ UNCHANGED <<opts, stats, verdict>>
      BY <1>1, <2>1
    <3>. QED BY <1>5, <3>1 DEF IInv, Counted, Busy, Counters
  <2>. QED BY <1>6, <2>4, <2>5, <2>6, <2>7 DEF IInv
<1>9. CASE ~ CoveredHere
  <2>0. /\ IF IsDir(e) /\ ReadSecondTimeDir THEN UNCHANGED stats ELSE Incr("ignored")
        /\ UNCHANGED w
        /\ \/ IsDir(e) /\ SkipFails /\ Stop("bug") /\ juillet' = j /\ rd' = rd
           \/ /\ IsDir(e) /\ ~ SkipFails /\ SkipRead /\ pc' = "reading" /\ verdict' = verdict
              /\ juillet' = [j EXCEPT !.init = FALSE]
           \/ /\ IsDir(e) => ~ LeavesTree(e, j.path)
              /\ juillet' = j /\ pc' = "reading" /\ rd' = rd /\ verdict' = verdict
    BY <1>9 DEF Select, j
  <2>1. Counted'
    <3>1. stats \in [Counters -> Nat]  BY DEF IInv, Counted
    <3>2. opts.mode = "direct" => Incr("ignored")  BY <2>0 DEF IInv, Shaped, ReaderOK, GhostOK, WalkOK, ReadSecondTimeDir
    <3>3. stats' \in [Counters -> Nat] BY <2>0, <3>1 DEF Incr, Counters
    <3>4. pc' \notin {"write", "wrote", "count"} /\ verdict = "none"
      BY <1>1, <2>0 DEF IInv, Shaped, ReaderOK, GhostOK, WalkOK
    <3>. QED BY <1>1, <1>5, <3>1, <3>2, <3>3, <3>4 DEF IInv, Counted, Busy, Incr, Counters
  <2>2. CASE IsDir(e) /\ SkipFails /\ Stop("bug") /\ juillet' = j /\ rd' = rd
    <3>1. Shaped'  BY <1>1, <1>3, <1>4, <1>5, <2>0, <2>2 DEF IInv, Shaped, ReaderOK, GhostOK, WalkOK
    <3>2. Placed'
      <4>1. ReadFrom' = ReadFrom  BY <1>1, <2>2 DEF ReadFrom
      <4>. QED BY <1>1, <1>2, <2>2, <4>1 DEF IInv, Shaped, ReaderOK, GhostOK, WalkOK, Placed, NotEod, Busy, MarksOK
    <3>3. CurrentDir'  BY <2>2 DEF CurrentDir
    <3>. QED BY <1>6, <2>1, <3>1, <3>2, <3>3 DEF IInv
  <2>3. CASE /\ IsDir(e) /\ ~ SkipFails /\ SkipRead /\ pc' = "reading" /\ verdict' = verdict
             /\ juillet' = [j EXCEPT !.init = FALSE]
    <3>1. juillet' = [path |-> e.path, init |-> FALSE] /\ JuilletDir' = Front(e.path)
      BY <1>4, <2>3 DEF JuilletDir
    <3>2. rd.status = "marks" => rd.depth = Len(Where(arch.items, rd.pos))  BY DEF IInv, Placed
    <3>3. Shaped'
      <4>1. /\ rd' = [status |-> rd'.status, pos |-> rd'.pos, depth |-> rd'.depth, wait |-> rd'.wait,
                      marks |-> rd'.marks, eas |-> rd'.eas]
            /\ rd'.status = rd.status /\ rd'.depth = rd.depth /\ rd'.pos \in Nat /\ rd'.wait \in Nat
        BY <1>1, <1>2, <2>3, <3>2, SkipReadIs DEF IInv
      <4>2. ReaderOK'  BY <1>1, <4>1 DEF IInv, Shaped, ReaderOK
      <4>3. GhostOK'  BY <1>5 DEF IInv, Shaped, GhostOK
      <4>4. WalkOK'
        <5>1. juillet' = [path |-> juillet'.path, init |-> juillet'.init]
              /\ juillet'.path = e.path /\ juillet'.init = FALSE
          BY <3>1
        <5>2. pc' = "reading" /\ verdict' = verdict /\ UNCHANGED <<arch, opts, cur, stack, w>>
          BY <1>1, <2>0, <2>3
        <5>3. verdict = "none"  BY <1>1 DEF IInv, Shaped, WalkOK
        <5>. HIDE DEF Select, SkipRead
        <5>. QED BY <1>3, <5>1, <5>2, <5>3 DEF IInv, Shaped, WalkOK
      <4>. QED BY <4>2, <4>3, <4>4 DEF Shaped
    <3>4. Placed'
      <4>1. rd'.status = rd.status  BY <1>1, <1>2, <2>3, <3>2, SkipReadIs DEF IInv
      <4>2. ReadFrom' = ReadFrom  BY <1>1, <4>1 DEF ReadFrom
      <4>. QED BY <1>1, <1>2, <2>3, <3>1, <3>2, <4>2, SkipReadIs
           DEF IInv, Shaped, ReaderOK, GhostOK, WalkOK, Placed, NotEod, Busy, MarksOK, SkipFails
    <3>5. CurrentDir'  BY <1>1, <1>3, <1>5, <2>3, <3>1 DEF IInv, CurrentDir
    <3>. QED BY <1>6, <2>1, <3>3, <3>4, <3>5 DEF IInv
  <2>4. CASE /\ IsDir(e) => ~ LeavesTree(e, j.path)
             /\ juillet' = j /\ pc' = "reading" /\ rd' = rd /\ verdict' = verdict
    <3>1. JuilletDir' = IF IsDir(e) THEN e.path ELSE Front(e.path)  BY <1>4, <2>4 DEF JuilletDir
    <3>2. IsDir(e) => opts.flat
      BY <1>9, <2>4 DEF Covered, LeavesTree, IsDir
    <3>3. Shaped'  BY <1>1, <1>3, <1>4, <1>5, <2>0, <2>4 DEF IInv, Shaped, ReaderOK, GhostOK, WalkOK
    <3>4. Placed'
      <4>1. ReadFrom' = ReadFrom  BY <1>1, <2>4 DEF ReadFrom
      <4>. QED BY <1>1, <1>2, <1>3, <2>4, <3>1, <4>1 DEF IInv, Shaped, ReaderOK, GhostOK, WalkOK, Placed, NotEod, Busy, MarksOK
    <3>5. CurrentDir'  BY <1>1, <1>3, <1>5, <2>4, <3>1, <3>2 DEF IInv, CurrentDir
    <3>. QED BY <1>6, <2>1, <3>3, <3>4, <3>5 DEF IInv
  <2>. QED BY <2>0, <2>2, <2>3, <2>4
<1>. QED BY <1>8, <1>9

\* The entry being written is where the catalogue is.
LEMMA BusyIs ==
  ASSUME IInv, Busy
  PROVE  /\ NotEod /\ arch \in Archives /\ rd.wait = 0 /\ verdict = "none"
         /\ rd.pos \in 1..Len(ReadFrom) /\ e = ReadFrom[rd.pos]
         /\ e \in Listed /\ e.type \in {"dir", "file", "detruit"} /\ e.mtime \in Int
         /\ e.path \in Seq(Names) /\ e.path # <<>> /\ Name(e) \in Names
         /\ Front(e.path) \in Seq(Names) /\ Append(Front(e.path), Name(e)) = e.path
         /\ juillet = [path |-> e.path, init |-> IsDir(e)] /\ (IsDir(e) => ~ opts.flat)
         /\ JuilletDir = Where(ReadFrom, rd.pos)
         /\ JuilletDir = IF IsDir(e) THEN e.path ELSE Front(e.path)
<1>1. NotEod /\ arch \in Archives /\ rd.wait = 0 /\ verdict = "none"
  BY DEF IInv, Placed, Shaped, WalkOK, Busy, NotEod
<1>2. /\ rd.pos \in 1..Len(ReadFrom) /\ e = ReadFrom[rd.pos] /\ e \in Listed
      /\ juillet = [path |-> e.path, init |-> IsDir(e)] /\ (IsDir(e) => ~ opts.flat)
  <2>1. rd.pos \in 0..Len(ReadFrom) /\ rd.pos > 0 /\ Len(ReadFrom) \in Nat
    BY <1>1, ReadIs DEF IInv, Placed, Busy
  <2>. QED BY <1>1, <2>1 DEF IInv, Placed, Busy
<1>3. e.type \in {"dir", "file", "detruit"} /\ e.mtime \in Int  BY <1>1, <1>2, ListedIs
<1>4. /\ e.path \in Seq(Names) /\ e.path # <<>>
      /\ Where(ReadFrom, rd.pos) = IF IsDir(e) THEN e.path ELSE Front(e.path)
  BY <1>1, <1>2, ReadIs DEF IInv, IsDir
<1>5. Name(e) \in Names /\ Front(e.path) \in Seq(Names) /\ Append(Front(e.path), Name(e)) = e.path
  BY <1>4, FrontLast DEF Name
<1>6. JuilletDir = IF IsDir(e) THEN e.path ELSE Front(e.path)  BY <1>2 DEF JuilletDir
<1>. QED BY <1>1, <1>2, <1>3, <1>4, <1>5, <1>6

\* What a step of write() saves leaves the reader where it is.
LEMMA SaveIs ==
  ASSUME ReaderOK, NEW m, Save(m), UNCHANGED source
  PROVE  /\ ReaderOK' /\ ReadFrom' = ReadFrom /\ Listed' = Listed
         /\ rd'.status = rd.status /\ rd'.pos = rd.pos /\ rd'.depth = rd.depth
         /\ rd'.wait = rd.wait /\ rd'.marks = m.marks
         /\ w'.res = m.res /\ w'.copy = m.copy /\ w'.exc = m.exc
         /\ {"res", "copy", "exc"} \subseteq DOMAIN w'
         /\ disk' = m.disk /\ ino' = m.ino /\ corres' = m.corres
<1>1. rd' = [status |-> rd.status, pos |-> rd.pos, depth |-> rd.depth, wait |-> rd.wait,
             marks |-> m.marks, eas |-> m.eas]
  BY DEF ReaderOK, Save
<1>2. UNCHANGED <<arch, opts>>  BY DEF source
<1>3. /\ rd'.status = rd.status /\ rd'.pos = rd.pos /\ rd'.depth = rd.depth
      /\ rd'.wait = rd.wait /\ rd'.marks = m.marks
  BY <1>1
<1>4. rd' = [status |-> rd'.status, pos |-> rd'.pos, depth |-> rd'.depth, wait |-> rd'.wait,
             marks |-> rd'.marks, eas |-> rd'.eas]
  BY <1>1
<1>5. ReaderOK'  BY <1>2, <1>3, <1>4 DEF ReaderOK
<1>6. ReadFrom' = ReadFrom /\ Listed' = Listed  BY <1>2, <1>3 DEF ReadFrom, Listed
<1>. QED BY <1>3, <1>5, <1>6 DEF Save

\* An entry is written in the directory it is in, and a directory is entered when
\* it can be.
LEMMA WriteKeeps ==
  ASSUME IInv, Write PROVE IInv'
<1>. DEFINE p == Spot(e)
<1>1. pc = "write" /\ Busy /\ pc' = "wrote" /\ UNCHANGED <<source, e, juillet, ends>>
  BY DEF Write, Busy
<1>2. /\ NotEod /\ arch \in Archives /\ rd.wait = 0 /\ verdict = "none"
      /\ e \in Listed /\ e.mtime \in Int /\ Name(e) \in Names
      /\ Append(Front(e.path), Name(e)) = e.path
      /\ juillet = [path |-> e.path, init |-> IsDir(e)] /\ (IsDir(e) => ~ opts.flat)
  BY <1>1, BusyIs
<1>3. /\ Shaped /\ TreeOK /\ MarksOK(e, rd.marks) /\ ReaderOK /\ GhostOK /\ WalkOK
  BY <1>1 DEF IInv, Placed, Shaped
<1>4. ~ ghost.strayed => Len(stack) = Len(cur) /\ cur = IF opts.flat THEN <<>> ELSE Front(e.path)
  BY <1>1, <1>2 DEF IInv, CurrentDir
<1>5. Writes(p)
  BY <1>2, <1>4 DEF Writes, Spot, Tame
<1>6. PICK m :
        /\ \/ m \in Then(Supprime(Mem, p), LAMBDA r : WriteNew(r, p, e))
           \/ m \in WriteNew(Mem, p, e)
           \/ p \in DOMAIN disk /\ m \in WriteOver(Mem, p, e)
        /\ Save(m)
        /\ IF IsDir(e) /\ m.exc = "none" /\ Entered(m, p, e)
           THEN /\ cur' = p
                /\ stack' = Append(m.stack, [name |-> Name(e), date |-> e.mtime,
                                             restore |-> m.res = "restored"])
           ELSE cur' = cur /\ stack' = m.stack
        /\ ghost' = [ghost EXCEPT !.strayed = @ \/ (IsDir(e) /\ m.exc = "none" /\ ~ Entered(m, p, e))]
  BY DEF Write
<1>7. Sound(m)  BY <1>3, <1>5, <1>6, OutcomesSound
<1>8. /\ ReaderOK' /\ ReadFrom' = ReadFrom /\ Listed' = Listed
      /\ rd'.status = rd.status /\ rd'.pos = rd.pos /\ rd'.depth = rd.depth
      /\ rd'.wait = rd.wait /\ rd'.marks = m.marks
      /\ w'.res = m.res /\ w'.copy = m.copy /\ w'.exc = m.exc
      /\ {"res", "copy", "exc"} \subseteq DOMAIN w'
      /\ disk' = m.disk /\ ino' = m.ino /\ corres' = m.corres
  BY <1>1, <1>3, <1>6, SaveIs
<1>9. /\ ghost'.seen = ghost.seen
      /\ ghost'.strayed = (ghost.strayed \/ (IsDir(e) /\ m.exc = "none" /\ ~ Entered(m, p, e)))
      /\ GhostOK'
  <2>. DEFINE more == IsDir(e) /\ m.exc = "none" /\ ~ Entered(m, p, e)
  <2>1. more \in BOOLEAN  OBVIOUS
  <2>. HIDE DEF more
  <2>2. ghost' = [seen |-> ghost.seen, strayed |-> ghost.strayed \/ more]
    BY <1>3, <1>6 DEF GhostOK, more
  <2>. QED BY <1>3, <2>1, <2>2 DEF GhostOK, more
<1>. HIDE DEF p
<1>10. /\ m.stack \in Stacks /\ Len(m.stack) = Len(stack) /\ m.res \in Results /\ m.copy \in Nat
       /\ m.ino \in Seq(Inodes) /\ \A q \in DOMAIN m.disk : m.disk[q] \in DOMAIN m.ino
       /\ Tame => Sited(m.disk, m.ino) /\ Recorded(m.corres)
       /\ MarksOK(e, m.marks)
  BY <1>7 DEF Sound
<1>. HIDE DEF Save
<1>11. ASSUME IsDir(e), m.exc = "none", Entered(m, p, e)
       PROVE  /\ cur' \in Seq(Names) /\ stack' \in Stacks
              /\ ~ ghost'.strayed => Len(stack') = Len(cur') /\ cur' = e.path
  <2>. DEFINE frame == [name |-> Name(e), date |-> e.mtime, restore |-> m.res = "restored"]
  <2>1. cur' = p /\ stack' = Append(m.stack, frame)  BY <1>6, <1>11
  <2>2. frame \in Frames  BY <1>2 DEF Frames
  <2>. HIDE DEF frame
  <2>3. stack' \in Stacks /\ Len(stack') = Len(stack) + 1  BY <1>10, <2>1, <2>2 DEF Stacks
  <2>4. p \in Seq(Names) /\ Len(p) = Len(cur) + 1  BY <1>2, <1>3 DEF p, Spot, WalkOK
  <2>5. ~ ghost.strayed => p = e.path  BY <1>2, <1>5, <1>11 DEF Writes, Tame
  <2>. QED BY <1>4, <1>9, <2>1, <2>3, <2>4, <2>5
<1>12. ASSUME ~ (IsDir(e) /\ m.exc = "none" /\ Entered(m, p, e))
       PROVE  cur' = cur /\ stack' \in Stacks /\ Len(stack') = Len(stack) /\ cur' \in Seq(Names)
  BY <1>3, <1>6, <1>10, <1>12 DEF WalkOK
<1>0. pc' = "wrote" /\ UNCHANGED <<arch, opts, juillet, e, stats, verdict>>
  BY <1>1 DEF source, ends
<1>13. Shaped'
  <2>2. WalkOK'  BY <1>1, <1>2, <1>3, <1>8, <1>10, <1>11, <1>12, <1>0 DEF WalkOK
  <2>. QED BY <1>8, <1>9, <2>2 DEF Shaped
<1>14. Placed'
  <2>2. MarksOK(e, rd.marks)'  BY <1>8, <1>10, <1>0 DEF MarksOK
  <2>3. rd'.status # "marks" => rd'.marks = <<>>  BY <1>8, <1>10 DEF MarksOK
  <2>. QED BY <1>1, <1>2, <1>8, <1>0, <2>2, <2>3 DEF IInv, Placed, NotEod, Busy
<1>15. CurrentDir'
  <2>. SUFFICES ASSUME ~ ghost'.strayed PROVE CurrentDir'  BY DEF CurrentDir
  <2>1. UNCHANGED <<juillet, opts>> /\ pc' = "wrote" /\ JuilletDir' = IF IsDir(e) THEN e.path ELSE Front(e.path)
    BY <1>0, <1>2 DEF JuilletDir
  <2>2. juillet'.path = e.path /\ ~ ghost.strayed  BY <1>2, <1>9, <2>1
  <2>3. CASE IsDir(e) /\ m.exc = "none"
    <3>1. Entered(m, p, e) /\ ~ opts.flat  BY <1>2, <1>9, <2>3
    <3>. QED BY <1>8, <1>11, <2>1, <2>3, <3>1 DEF CurrentDir
  <2>4. CASE ~ (IsDir(e) /\ m.exc = "none")
    BY <1>4, <1>8, <1>12, <2>1, <2>2, <2>4 DEF CurrentDir
  <2>. QED BY <2>3, <2>4
<1>16. TreeOK'
  <2>1. Tame' => Tame  BY <1>0, <1>9 DEF Tame
  <2>2. Tame' => Sited(disk, ino)' /\ Recorded(corres)'
    BY <1>8, <1>10, <2>1 DEF Sited, Recorded
  <2>. QED BY <1>8, <1>10, <2>2 DEF TreeOK
<1>17. Counted'
  <2>1. Busy' = Busy  BY <1>0, <1>1 DEF Busy
  <2>. QED BY <1>0, <1>9, <2>1 DEF IInv, Counted
<1>. QED BY <1>13, <1>14, <1>15, <1>16, <1>17 DEF IInv

\* Only a file has copies: the one written again is in the directory of the first.
LEMMA NextCopyKeeps ==
  ASSUME IInv, NextCopy PROVE IInv'
<1>1. /\ pc = "wrote" /\ Busy /\ pc' = "write" /\ rd.marks # <<>> /\ Head(rd.marks) = "changed"
      /\ UNCHANGED <<arch, opts, disk, ino, e, juillet, cur, stack, stats, verdict, ghost>>
      /\ rd' = [rd EXCEPT !.marks = Tail(@)]
      /\ w' = [w EXCEPT !.copy = @ + 1, !.res = "no_data", !.ea = FALSE]
      /\ corres' = corres \/ corres' = Without(corres, {e.etiq})
  BY DEF NextCopy, NextMark, source, tree, ends, Busy
<1>2. /\ NotEod /\ arch \in Archives /\ rd.wait = 0 /\ verdict = "none"
      /\ e \in Listed /\ e.type \in {"dir", "file", "detruit"}
      /\ juillet = [path |-> e.path, init |-> IsDir(e)]
  BY <1>1, BusyIs
<1>3. rd.status = "marks" /\ e.type = "file" /\ ~ IsDir(e)
  <2>1. MarksOK(e, rd.marks)  BY <1>1 DEF IInv, Placed
  <2>2. Head(<<"ea">>) = "ea"  OBVIOUS
  <2>. QED BY <1>1, <2>1, <2>2 DEF MarksOK, IsDir
<1>4. /\ rd'.status = rd.status /\ rd'.pos = rd.pos /\ rd'.depth = rd.depth
      /\ rd'.wait = rd.wait
      /\ rd' = [status |-> rd'.status, pos |-> rd'.pos, depth |-> rd'.depth, wait |-> rd'.wait,
                marks |-> rd'.marks, eas |-> rd'.eas]
  <2>1. rd' = [status |-> rd.status, pos |-> rd.pos, depth |-> rd.depth, wait |-> rd.wait,
               marks |-> Tail(rd.marks), eas |-> rd.eas]
    BY <1>1 DEF IInv, Shaped, ReaderOK
  <2>. QED BY <2>1
<1>5. {"res", "copy", "exc"} \subseteq DOMAIN w' /\ w'.res = "no_data" /\ w'.copy \in Nat
  <2>1. {"res", "copy", "exc"} \subseteq DOMAIN w /\ w.copy \in Nat  BY DEF IInv, Shaped, WalkOK
  <2>. QED BY <1>1, <2>1
<1>6. Shaped'
  <2>1. ReaderOK'  BY <1>1, <1>4 DEF IInv, Shaped, ReaderOK
  <2>2. GhostOK'  BY <1>1 DEF IInv, Shaped, GhostOK
  <2>3. WalkOK'  BY <1>1, <1>2, <1>5 DEF IInv, Shaped, WalkOK, Results
  <2>. QED BY <2>1, <2>2, <2>3 DEF Shaped
<1>7. Placed'
  <2>1. ReadFrom' = ReadFrom /\ Listed' = Listed  BY <1>1, <1>4 DEF ReadFrom, Listed
  <2>. QED BY <1>1, <1>2, <1>3, <1>4, <2>1 DEF IInv, Placed, NotEod, Busy, MarksOK, IsDir
<1>8. CurrentDir'
  <2>1. JuilletDir = Front(juillet.path)  BY <1>2, <1>3 DEF JuilletDir
  <2>. QED BY <1>1, <2>1 DEF IInv, CurrentDir
<1>9. TreeOK'
  <2>1. Recorded(corres) => Recorded(corres)'  BY <1>1 DEF Recorded, Without, Listed
  <2>2. Sited(disk, ino)' = Sited(disk, ino)  BY <1>1 DEF Sited, Listed
  <2>. QED BY <1>1, <2>1, <2>2 DEF IInv, TreeOK, Tame
<1>10. Counted'
  <2>1. Busy' = Busy  BY <1>1 DEF Busy
  <2>. QED BY <1>1, <2>1 DEF IInv, Counted
<1>. QED BY <1>6, <1>7, <1>8, <1>9, <1>10 DEF IInv

\* Marks are read.
LEMMA MarksSound ==
  ASSUME NEW m, Sound(m), NEW s, MarksOK(e, s) PROVE Sound([m EXCEPT !.marks = s])
BY DEF Sound, Fields, Sited, Recorded

\* A file restored that proves dirty is removed, or is not: the walk goes on from
\* where it is.
LEMMA DirtyFileKeeps ==
  ASSUME IInv, DirtyFile PROVE IInv'
<1>. DEFINE start == [Mem EXCEPT !.marks = Tail(Reached)]
            told(x) == [x EXCEPT !.res = w.res, !.ea = w.ea, !.hard = w.hard]
<1>1. /\ pc = "wrote" /\ Busy /\ w.exc = "none" /\ Reached # <<>> /\ Head(Reached) = "dirty"
      /\ pc' \in {"count", "wrote"}
      /\ UNCHANGED source /\ UNCHANGED <<arch, opts, e, juillet, cur, stats, verdict, ghost>>
  BY DEF DirtyFile, source, ends, Busy
<1>2. /\ NotEod /\ arch \in Archives /\ rd.wait = 0 /\ verdict = "none"
      /\ e \in Listed /\ e.type \in {"dir", "file", "detruit"}
      /\ juillet = [path |-> e.path, init |-> IsDir(e)]
  BY <1>1, BusyIs
<1>3. /\ Shaped /\ TreeOK /\ MarksOK(e, rd.marks) /\ ReaderOK /\ GhostOK /\ WalkOK
  BY <1>1 DEF IInv, Placed, Shaped
<1>4. rd.status = "marks" /\ e.type = "file" /\ ~ IsDir(e)
  <2>1. Reached = rd.marks \/ (Reached = Tail(rd.marks) /\ rd.marks # <<>>)  BY DEF Reached, NextMark
  <2>2. Head(<<"ea">>) = "ea" /\ Tail(<<"ea">>) = <<>>  OBVIOUS
  <2>. QED BY <1>1, <1>3, <2>1, <2>2 DEF MarksOK, IsDir
<1>5. Sound(start)
  <2>1. MarksOK(e, Tail(Reached))  BY <1>4 DEF MarksOK
  <2>2. Sound(Mem)  BY <1>3, MemSound
  <2>. QED BY <2>1, <2>2, MarksSound
<1>6. ASSUME NEW x, Sound(x) PROVE Sound(told(x))
  <2>1. w.res \in Results  BY <1>3 DEF WalkOK
  <2>. QED BY <1>6, <2>1 DEF Sound, Fields, Sited, Recorded, MarksOK
<1>7. PICK n : /\ Sound(n) /\ Save(n) /\ stack' \in Stacks /\ Len(stack') = Len(stack)
  <2>1. CASE \E m \in Supprime(start, Spot(e)) :
               /\ Save(told(m))
               /\ stack' = IF m.exc = "none" THEN MarkParent(m).stack ELSE stack
    <3>1. PICK m \in Supprime(start, Spot(e)) :
            /\ Save(told(m))
            /\ stack' = IF m.exc = "none" THEN MarkParent(m).stack ELSE stack
      BY <2>1
    <3>. HIDE DEF start, told
    <3>2. Sound(m)  BY <1>5, SupprimeSound
    <3>3. Sound(MarkParent(m))  BY <3>2, MarkParentSound
    <3>4. stack' \in Stacks /\ Len(stack') = Len(stack)
      BY <1>3, <3>1, <3>3 DEF Sound, WalkOK
    <3>. QED BY <1>6, <3>1, <3>2, <3>4
  <2>2. CASE /\ Save([start EXCEPT !.res = w.res, !.ea = w.ea, !.hard = w.hard,
                                   !.exc = IF opts.dirty = "ok" THEN "none" ELSE "abort"])
             /\ UNCHANGED stack
    <3>. DEFINE x == IF opts.dirty = "ok" THEN "none" ELSE "abort"
                n == Raise(told(start), x)
    <3>1. Sound(n)  BY <1>5, <1>6, RaiseSound
    <3>2. n = [start EXCEPT !.res = w.res, !.ea = w.ea, !.hard = w.hard, !.exc = x]
      BY DEF Raise, Mem
    <3>3. Save(n)  BY <2>2, <3>2
    <3>4. stack' \in Stacks /\ Len(stack') = Len(stack)  BY <1>3, <2>2 DEF WalkOK
    <3>. QED BY <3>1, <3>3, <3>4
  <2>. QED BY <2>1, <2>2 DEF DirtyFile
<1>. HIDE DEF start, told
<1>8. /\ ReaderOK' /\ ReadFrom' = ReadFrom /\ Listed' = Listed
      /\ rd'.status = rd.status /\ rd'.pos = rd.pos /\ rd'.depth = rd.depth
      /\ rd'.wait = rd.wait /\ rd'.marks = n.marks
      /\ w'.res = n.res /\ w'.copy = n.copy /\ w'.exc = n.exc
      /\ {"res", "copy", "exc"} \subseteq DOMAIN w'
      /\ disk' = n.disk /\ ino' = n.ino /\ corres' = n.corres
  BY <1>1, <1>3, <1>7, SaveIs
<1>9. Shaped'
  <2>1. GhostOK'  BY <1>1, <1>3 DEF GhostOK
  <2>2. n.res \in Results /\ n.copy \in Nat  BY <1>7 DEF Sound
  <2>3. WalkOK'  BY <1>1, <1>2, <1>3, <1>7, <1>8, <2>2 DEF WalkOK
  <2>. QED BY <1>8, <2>1, <2>3 DEF Shaped
<1>10. Placed'
  BY <1>1, <1>2, <1>4, <1>8 DEF IInv, Placed, NotEod, Busy, MarksOK, IsDir
<1>11. CurrentDir'
  <2>1. JuilletDir = Front(juillet.path) /\ JuilletDir' = JuilletDir  BY <1>1, <1>2, <1>4 DEF JuilletDir
  <2>. QED BY <1>1, <1>7, <2>1 DEF IInv, CurrentDir
<1>12. TreeOK'
  <2>1. Tame' = Tame  BY <1>1 DEF Tame
  <2>. QED BY <1>7, <1>8, <2>1 DEF TreeOK, Sound, Sited, Recorded
<1>13. Counted'
  <2>1. Busy' = Busy  BY <1>1 DEF Busy
  <2>. QED BY <1>1, <2>1 DEF IInv, Counted
<1>. QED BY <1>9, <1>10, <1>11, <1>12, <1>13 DEF IInv

\* An entry written, with no copy left to read.
LEMMA SettledKeeps ==
  ASSUME IInv, Settled PROVE IInv'
<1>1. /\ pc = "wrote" /\ Busy /\ pc' = "count" /\ w.exc = "none"
      /\ UNCHANGED source /\ UNCHANGED tree /\ UNCHANGED corres
      /\ UNCHANGED <<arch, opts, e, juillet, cur, stack, w, stats, verdict, ghost>>
      /\ rd' = [rd EXCEPT !.marks = Reached]
  BY DEF Settled, source, ends, fs, Busy
<1>2. /\ NotEod /\ arch \in Archives /\ rd.wait = 0 /\ verdict = "none" /\ e \in Listed
      /\ juillet = [path |-> e.path, init |-> IsDir(e)]
  BY <1>1, BusyIs
<1>3. rd' = [status |-> rd.status, pos |-> rd.pos, depth |-> rd.depth, wait |-> rd.wait,
             marks |-> Reached, eas |-> rd.eas]
  BY <1>1 DEF IInv, Shaped, ReaderOK
<1>4. /\ rd'.status = rd.status /\ rd'.pos = rd.pos /\ rd'.depth = rd.depth
      /\ rd'.wait = rd.wait /\ rd'.marks = Reached
      /\ rd' = [status |-> rd'.status, pos |-> rd'.pos, depth |-> rd'.depth, wait |-> rd'.wait,
                marks |-> rd'.marks, eas |-> rd'.eas]
  BY <1>3
<1>5. Shaped'
  <2>1. ReaderOK'  BY <1>1, <1>4 DEF IInv, Shaped, ReaderOK
  <2>2. GhostOK' /\ WalkOK'  BY <1>1, <1>2 DEF IInv, Shaped, GhostOK, WalkOK
  <2>. QED BY <2>1, <2>2 DEF Shaped
<1>6. Placed'
  <2>1. ReadFrom' = ReadFrom /\ Listed' = Listed  BY <1>1, <1>4 DEF ReadFrom, Listed
  <2>2. rd.status # "marks" => rd.marks = <<>> /\ Reached = <<>>
    BY DEF IInv, Placed, Reached, NextMark
  <2>. QED BY <1>1, <1>2, <1>4, <2>1, <2>2 DEF IInv, Placed, NotEod, Busy
<1>7. CurrentDir'
  <2>1. JuilletDir' = JuilletDir  BY <1>1 DEF JuilletDir
  <2>. QED BY <1>1, <2>1 DEF IInv, CurrentDir
<1>8. TreeOK'  BY <1>1, TreeStays DEF IInv, Tame
<1>9. Counted'
  <2>1. Busy' = Busy  BY <1>1 DEF Busy
  <2>. QED BY <1>1, <2>1 DEF IInv, Counted
<1>. QED BY <1>5, <1>6, <1>7, <1>8, <1>9 DEF IInv

\* An entry written is counted once, under what became of it.
LEMMA CountKeeps ==
  ASSUME IInv, Count PROVE IInv'
<1>. DEFINE counter == CASE w.res = "restored" -> "treated"
                         [] w.res = "no_data" -> "skipped"
                         [] w.res = "policy" -> "tooold"
                         [] w.res = "removed" -> "deleted"
            again == IsDir(e) /\ ReadSecondTimeDir /\ w.res = "restored"
            added(c) == (IF c = counter /\ ~ again THEN 1 ELSE 0)
                        + (IF c = "hard_links" /\ w.hard THEN 1 ELSE 0)
                        + (IF c = "ea_treated" /\ w.ea THEN 1 ELSE 0)
<1>1. /\ pc = "count" /\ Busy /\ pc' = "reading"
      /\ UNCHANGED source /\ UNCHANGED tree /\ UNCHANGED corres
      /\ UNCHANGED <<arch, opts, rd, e, juillet, cur, stack, w, verdict, ghost>>
      /\ \A c \in DOMAIN stats : stats'[c] = stats[c] + added(c)
      /\ stats' = [c \in DOMAIN stats |-> stats'[c]]
  <2>1. stats' = [c \in DOMAIN stats |->
                    stats[c] + (IF c = counter /\ ~ again THEN 1 ELSE 0)
                             + (IF c = "hard_links" /\ w.hard THEN 1 ELSE 0)
                             + (IF c = "ea_treated" /\ w.ea THEN 1 ELSE 0)]
    BY DEF Count
  <2>2. \A c \in DOMAIN stats : stats[c] \in Nat  BY DEF IInv, Counted
  <2>. HIDE DEF counter, again
  <2>3. \A c \in DOMAIN stats : stats'[c] = stats[c] + added(c)  BY <2>1, <2>2
  <2>4. stats' = [c \in DOMAIN stats |-> stats'[c]]  BY <2>1
  <2>5. /\ pc = "count" /\ pc' = "reading"
        /\ UNCHANGED <<source, tree, reader, fs, w, verdict, faults, ghost>>
    BY DEF Count
  <2>. QED BY <2>3, <2>4, <2>5 DEF source, tree, reader, fs, Busy
<1>2. /\ NotEod /\ arch \in Archives /\ rd.wait = 0 /\ verdict = "none"
      /\ JuilletDir = Where(ReadFrom, rd.pos)
  BY <1>1, BusyIs
<1>3. JuilletDir' = JuilletDir /\ ReadFrom' = ReadFrom /\ Listed' = Listed
  BY <1>1 DEF JuilletDir, ReadFrom, Listed
<1>4. Shaped'  BY <1>1, <1>2 DEF IInv, Shaped, ReaderOK, GhostOK, WalkOK
<1>5. Placed'  BY <1>1, <1>2, <1>3 DEF IInv, Placed, NotEod, Busy
<1>6. CurrentDir'  BY <1>1, <1>3 DEF IInv, CurrentDir
<1>7. TreeOK'  BY <1>1, TreeStays DEF IInv, Tame
<1>8. Counted'
  <2>1. counter \in {"treated", "skipped", "tooold", "deleted"}  BY DEF IInv, Shaped, WalkOK, Results
  <2>2. opts.mode = "direct" => ~ again
    BY DEF IInv, Shaped, ReaderOK, ReadSecondTimeDir
  <2>. HIDE DEF counter, again
  <2>3. \A c : added(c) \in Nat  OBVIOUS
  <2>4. DOMAIN stats = Counters /\ \A c \in Counters : stats[c] \in Nat  BY DEF IInv, Counted
  <2>5. ~ again => stats'.treated + stats'.skipped + stats'.tooold + stats'.deleted
                      + stats'.ignored + stats'.errored
                   = stats.treated + stats.skipped + stats.tooold + stats.deleted
                      + stats.ignored + stats.errored + 1
    <3>1. HAVE ~ again
    <3>2. \A c \in Counters : stats'[c] = stats[c] + added(c)  BY <1>1, <2>4
    <3>3. /\ added("ignored") = 0 /\ added("errored") = 0
          /\ \A c \in {"treated", "skipped", "tooold", "deleted"} :
               added(c) = IF c = counter THEN 1 ELSE 0
      BY <2>1, <3>1
    <3>. HIDE DEF added
    <3>4. /\ stats'.ignored = stats.ignored + 0 /\ stats'.errored = stats.errored + 0
          /\ stats'.treated = stats.treated + IF "treated" = counter THEN 1 ELSE 0
          /\ stats'.skipped = stats.skipped + IF "skipped" = counter THEN 1 ELSE 0
          /\ stats'.tooold = stats.tooold + IF "tooold" = counter THEN 1 ELSE 0
          /\ stats'.deleted = stats.deleted + IF "deleted" = counter THEN 1 ELSE 0
      BY <3>2, <3>3 DEF Counters
    <3>5. /\ stats.treated \in Nat /\ stats.skipped \in Nat /\ stats.tooold \in Nat
          /\ stats.deleted \in Nat /\ stats.ignored \in Nat /\ stats.errored \in Nat
      BY <2>4 DEF Counters
    <3>. QED BY <2>1, <3>4, <3>5
  <2>. HIDE DEF added
  <2>6. stats' \in [Counters -> Nat]
    <3>1. \A c \in Counters : stats'[c] \in Nat  BY <1>1, <2>3, <2>4
    <3>. QED BY <1>1, <2>4, <3>1
  <2>7. Busy /\ ~ Busy'  BY <1>1 DEF Busy
  <2>8. ghost.seen \in Nat  BY DEF IInv, Shaped, GhostOK
  <2>. QED BY <1>1, <1>2, <2>2, <2>4, <2>5, <2>6, <2>7 DEF IInv, Counted, Counters
<1>. QED BY <1>4, <1>5, <1>6, <1>7, <1>8 DEF IInv

\* A cancellation, or an internal error, in the middle of write().
LEMMA InterruptedKeeps ==
  ASSUME IInv, Interrupted PROVE IInv'
<1>. USE DEF Interrupted, Stop, source, tree, reader, fs
<1>0. verdict = "none" /\ NotEod  BY BusyIs DEF Busy
<1>1. Shaped'  BY DEF IInv, Shaped, ReaderOK, GhostOK, WalkOK
<1>2. Placed'  BY <1>0 DEF IInv, Shaped, ReaderOK, GhostOK, WalkOK, Placed, NotEod, Busy, MarksOK, ReadFrom, JuilletDir, Listed
<1>3. CurrentDir'  BY DEF IInv, CurrentDir
<1>4. TreeOK'  BY TreeStays DEF IInv, Tame
<1>5. Counted'  BY <1>0 DEF IInv, Counted, Busy
<1>. QED BY <1>1, <1>2, <1>3, <1>4, <1>5 DEF IInv

\* A directory given up is left with all it holds.
LEMMA FailedKeeps ==
  ASSUME IInv, Failed PROVE IInv'
<1>. DEFINE counted == IF w.exc = "abort" THEN ~ (IsDir(e) /\ ReadSecondTimeDir)
                       ELSE opts.restore # "only_deleted" /\ ~ (IsDir(e) /\ ReadSecondTimeDir)
<1>1. /\ pc = "wrote" /\ Busy /\ w.exc # "none" /\ pc' \in {"reading", "end"}
      /\ UNCHANGED source /\ UNCHANGED tree /\ UNCHANGED corres
      /\ UNCHANGED <<arch, opts, e, cur, stack, w, ghost>>
      /\ IF counted THEN Incr(IF w.exc = "abort" THEN "ignored" ELSE "errored") ELSE UNCHANGED stats
      /\ \/ IsDir(e) /\ ~ opts.flat /\ SkipFails /\ Stop("bug") /\ UNCHANGED <<rd, juillet>>
         \/ /\ IsDir(e) /\ ~ opts.flat /\ ~ SkipFails /\ SkipRead /\ pc' = "reading"
            /\ juillet' = [juillet EXCEPT !.init = FALSE] /\ UNCHANGED verdict
         \/ ~ (IsDir(e) /\ ~ opts.flat) /\ pc' = "reading" /\ UNCHANGED <<rd, juillet, verdict>>
  <2>. HIDE DEF counted
  <2>1. /\ pc = "wrote" /\ (w.exc = "abort" \/ w.exc = "range")
        /\ GiveUp(counted) /\ UNCHANGED <<source, tree, e, fs, w, faults, ghost>>
    BY DEF Failed, counted
  <2>. QED BY <2>1 DEF GiveUp, Stop, source, tree, fs, Busy
<1>2. /\ NotEod /\ arch \in Archives /\ rd.wait = 0 /\ verdict = "none"
      /\ rd.pos \in 1..Len(ReadFrom) /\ e = ReadFrom[rd.pos] /\ e \in Listed
      /\ e.path \in Seq(Names) /\ Front(e.path) \in Seq(Names)
      /\ juillet = [path |-> e.path, init |-> IsDir(e)] /\ (IsDir(e) => ~ opts.flat)
      /\ JuilletDir = Where(ReadFrom, rd.pos)
      /\ JuilletDir = IF IsDir(e) THEN e.path ELSE Front(e.path)
  BY <1>1, BusyIs
<1>3. ~ ghost.strayed => Len(stack) = Len(cur) /\ cur = IF opts.flat THEN <<>> ELSE Front(e.path)
  BY <1>1, <1>2 DEF IInv, CurrentDir
<1>4. TreeOK'  BY <1>1, TreeStays DEF IInv, Tame
<1>5. Counted'
  <2>1. DOMAIN stats = Counters /\ \A c \in Counters : stats[c] \in Nat
        /\ stats \in [Counters -> Nat]
    BY DEF IInv, Counted
  <2>2. opts.mode = "direct" /\ opts.restore = "all" => counted
    BY DEF IInv, Shaped, ReaderOK, ReadSecondTimeDir
  <2>. HIDE DEF counted
  <2>3. stats' \in [Counters -> Nat]  BY <1>1, <2>1 DEF Incr, Counters
  <2>4. counted => \/ stats' = [stats EXCEPT !.ignored = @ + 1]
                   \/ stats' = [stats EXCEPT !.errored = @ + 1]
    BY <1>1 DEF Incr
  <2>5. counted => stats'.treated + stats'.skipped + stats'.tooold + stats'.deleted
                      + stats'.ignored + stats'.errored
                   = stats.treated + stats.skipped + stats.tooold + stats.deleted
                      + stats.ignored + stats.errored + 1
    BY <2>1, <2>4 DEF Counters
  <2>6. Busy /\ ~ Busy' /\ UNCHANGED <<opts, ghost>>  BY <1>1 DEF Busy
  <2>7. /\ stats.treated \in Nat /\ stats.skipped \in Nat /\ stats.tooold \in Nat
        /\ stats.deleted \in Nat /\ stats.ignored \in Nat /\ stats.errored \in Nat
    BY <2>1 DEF Counters
  <2>8. stats'.treated + stats'.skipped + stats'.tooold + stats'.deleted
          + stats'.ignored + stats'.errored \in Nat
    BY <2>3 DEF Counters
  <2>9. ASSUME opts.mode = "direct", opts.restore = "all"
        PROVE  ghost'.seen = stats'.treated + stats'.skipped + stats'.tooold + stats'.deleted
                             + stats'.ignored + stats'.errored
    <3>1. ghost.seen = stats.treated + stats.skipped + stats.tooold + stats.deleted
                       + stats.ignored + stats.errored + 1
      BY <1>2, <2>6, <2>9 DEF IInv, Counted
    <3>. QED BY <2>2, <2>5, <2>6, <2>9, <3>1
  <2>. QED BY <2>3, <2>6, <2>8, <2>9 DEF Counted
<1>6. CASE IsDir(e) /\ ~ opts.flat /\ SkipFails /\ Stop("bug") /\ UNCHANGED <<rd, juillet>>
  <2>1. pc' = "end" /\ verdict' = "bug"  BY <1>6 DEF Stop
  <2>2. Shaped'
    <3>1. ReaderOK'  BY <1>1, <1>6 DEF IInv, Shaped, ReaderOK
    <3>2. GhostOK' /\ WalkOK'  BY <1>1, <1>6, <2>1 DEF IInv, Shaped, GhostOK, WalkOK
    <3>. QED BY <3>1, <3>2 DEF Shaped
  <2>3. Placed'
    <3>1. ReadFrom' = ReadFrom  BY <1>1, <1>6 DEF ReadFrom
    <3>. QED BY <1>1, <1>2, <1>6, <2>1, <3>1 DEF IInv, Placed, NotEod, Busy
  <2>4. CurrentDir'  BY <2>1 DEF CurrentDir
  <2>. QED BY <1>4, <1>5, <2>2, <2>3, <2>4 DEF IInv
<1>7. CASE /\ IsDir(e) /\ ~ opts.flat /\ ~ SkipFails /\ SkipRead /\ pc' = "reading"
           /\ juillet' = [juillet EXCEPT !.init = FALSE] /\ UNCHANGED verdict
  <2>1. juillet' = [path |-> e.path, init |-> FALSE] /\ JuilletDir' = Front(e.path)
    BY <1>2, <1>7 DEF JuilletDir
  <2>2. rd.status = "marks" => rd.depth = Len(Where(arch.items, rd.pos))  BY DEF IInv, Placed
  <2>3. /\ rd' = [status |-> rd'.status, pos |-> rd'.pos, depth |-> rd'.depth, wait |-> rd'.wait,
                  marks |-> rd'.marks, eas |-> rd'.eas]
        /\ rd'.status = rd.status /\ rd'.marks = rd.marks /\ rd'.depth = rd.depth
        /\ rd'.pos \in 0..Len(ReadFrom) /\ rd'.pos \in Nat /\ rd'.wait \in Nat
        /\ rd'.wait = 0 => Where(ReadFrom, rd'.pos) = Front(e.path)
        /\ rd.status = "completed" => rd'.wait = 0
        /\ rd.status = "marks" =>
             /\ rd'.pos = rd.pos
             /\ rd'.wait > 0 =>
                  /\ rd.depth >= rd'.wait
                  /\ SubSeq(Where(arch.items, rd.pos), 1, rd'.wait - 1) = Front(e.path)
    BY <1>2, <1>7, <2>2, SkipReadIs DEF IInv
  <2>4. Shaped'
    <3>1. ReaderOK'  BY <1>1, <2>3 DEF IInv, Shaped, ReaderOK
    <3>2. GhostOK'  BY <1>1 DEF IInv, Shaped, GhostOK
    <3>3. juillet' = [path |-> juillet'.path, init |-> juillet'.init]
          /\ juillet'.path = e.path /\ juillet'.init = FALSE
      BY <2>1
    <3>4. pc' = "reading" /\ UNCHANGED <<arch, opts, cur, stack, w, verdict>>  BY <1>1, <1>7
    <3>5. WalkOK'  BY <1>2, <3>3, <3>4 DEF IInv, Shaped, WalkOK
    <3>. QED BY <3>1, <3>2, <3>5 DEF Shaped
  <2>5. Placed'
    <3>1. ReadFrom' = ReadFrom  BY <1>1, <2>3 DEF ReadFrom
    <3>2. rd.status # "detruits" /\ rd.status # "eod"  BY <1>7 DEF SkipFails
    <3>. QED BY <1>1, <1>7, <2>1, <2>2, <2>3, <3>1, <3>2 DEF IInv, Placed, NotEod, Busy
  <2>6. CurrentDir'  BY <1>1, <1>3, <1>7, <2>1 DEF CurrentDir
  <2>. QED BY <1>4, <1>5, <2>4, <2>5, <2>6 DEF IInv
<1>8. CASE ~ (IsDir(e) /\ ~ opts.flat) /\ pc' = "reading" /\ UNCHANGED <<rd, juillet, verdict>>
  <2>1. ~ IsDir(e) /\ JuilletDir = Front(e.path) /\ JuilletDir' = JuilletDir
    BY <1>2, <1>8 DEF JuilletDir
  <2>2. Shaped'
    <3>1. ReaderOK'  BY <1>1, <1>8 DEF IInv, Shaped, ReaderOK
    <3>2. GhostOK' /\ WalkOK'  BY <1>1, <1>2, <1>8 DEF IInv, Shaped, GhostOK, WalkOK
    <3>. QED BY <3>1, <3>2 DEF Shaped
  <2>3. Placed'
    <3>1. ReadFrom' = ReadFrom  BY <1>1, <1>8 DEF ReadFrom
    <3>. QED BY <1>1, <1>2, <1>8, <2>1, <3>1 DEF IInv, Placed, NotEod, Busy
  <2>4. CurrentDir'  BY <1>1, <1>3, <1>8, <2>1 DEF CurrentDir
  <2>. QED BY <1>4, <1>5, <2>2, <2>3, <2>4 DEF IInv
<1>. QED BY <1>1, <1>6, <1>7, <1>8

\* Dates change no place.
LEMMA DatesStay ==
  ASSUME TreeOK, SameIds(ino, ino'), UNCHANGED <<source, disk, corres>>, Tame' => Tame
  PROVE  TreeOK'
<1>1. ino' \in Seq(Inodes) /\ DOMAIN ino' = DOMAIN ino /\ \A n \in DOMAIN ino : ino'[n].id = ino[n].id
  BY DEF SameIds, TreeOK
<1>2. Listed' = Listed  BY DEF source, Listed
<1>. QED BY <1>1, <1>2 DEF TreeOK, Sited, Recorded

\* The end of a directory leaves it.
LEMMA WriteEodKeeps ==
  ASSUME IInv, WriteEod PROVE IInv'
<1>1. /\ pc = "eod"
      /\ UNCHANGED source /\ UNCHANGED corres
      /\ UNCHANGED <<arch, opts, disk, rd, e, juillet, w, stats, ghost>>
      /\ \/ stack = <<>> /\ Stop("bug") /\ UNCHANGED <<ino, cur, stack>>
         \/ /\ stack # <<>> /\ pc' = "reading" /\ UNCHANGED verdict
            /\ cur' = Front(cur) /\ stack' = Front(stack)
            /\ LET p == Append(Front(cur), Last(stack).name) IN
               ino' = IF ~ opts.empty /\ Last(stack).restore /\ p \in DOMAIN disk
                      THEN [ino EXCEPT ![disk[p]].mtime = Last(stack).date] ELSE ino
  BY DEF WriteEod, source, reader
<1>2. /\ cur \in Seq(Names) /\ stack \in Seq(Frames) /\ verdict = "none"
      /\ juillet = [path |-> juillet.path, init |-> FALSE]
      /\ ~ opts.flat /\ JuilletDir = Front(juillet.path)
  <2>1. juillet.init = FALSE /\ ~ opts.flat  BY <1>1 DEF IInv, Placed, Shaped, WalkOK
  <2>. QED BY <1>1, <2>1 DEF IInv, Shaped, WalkOK, Stacks, JuilletDir
<1>3. JuilletDir' = JuilletDir /\ ReadFrom' = ReadFrom
  BY <1>1 DEF JuilletDir, ReadFrom
<1>4. CASE stack = <<>> /\ Stop("bug") /\ UNCHANGED <<ino, cur, stack>>
  <2>0. pc' = "end" /\ verdict' = "bug"  BY <1>4 DEF Stop
  <2>1. Shaped'
    <3>1. ReaderOK'  BY <1>1 DEF IInv, Shaped, ReaderOK
    <3>2. GhostOK' /\ WalkOK'  BY <1>1, <1>4, <2>0 DEF IInv, Shaped, GhostOK, WalkOK
    <3>. QED BY <3>1, <3>2 DEF Shaped
  <2>2. Placed'  BY <1>1, <1>3, <2>0 DEF IInv, Placed, NotEod, Busy
  <2>3. CurrentDir'  BY <2>0 DEF CurrentDir
  <2>4. TreeOK'
    <3>1. UNCHANGED <<source, tree, corres>>  BY <1>1, <1>4 DEF tree
    <3>. QED BY <1>1, <3>1, TreeStays DEF IInv, Tame
  <2>5. Counted'  BY <1>1, <2>0 DEF IInv, Counted, Busy
  <2>. QED BY <2>1, <2>2, <2>3, <2>4, <2>5 DEF IInv
<1>5. CASE /\ stack # <<>> /\ pc' = "reading" /\ UNCHANGED verdict
           /\ cur' = Front(cur) /\ stack' = Front(stack)
           /\ LET p == Append(Front(cur), Last(stack).name) IN
              ino' = IF ~ opts.empty /\ Last(stack).restore /\ p \in DOMAIN disk
                     THEN [ino EXCEPT ![disk[p]].mtime = Last(stack).date] ELSE ino
  <2>1. cur' \in Seq(Names) /\ stack' \in Stacks /\ Len(stack') = Len(stack) - 1
        /\ Last(stack) \in Frames /\ Len(stack) \in Nat \ {0}
    BY <1>2, <1>5, FrontIs, FrontLast DEF Stacks
  <2>2. Shaped'
    <3>1. ReaderOK'  BY <1>1 DEF IInv, Shaped, ReaderOK
    <3>2. GhostOK' /\ WalkOK'  BY <1>1, <1>5, <2>1 DEF IInv, Shaped, GhostOK, WalkOK
    <3>. QED BY <3>1, <3>2 DEF Shaped
  <2>3. Placed'  BY <1>1, <1>3, <1>5 DEF IInv, Placed, NotEod, Busy
  <2>4. CurrentDir'
    <3>. SUFFICES ASSUME ~ ghost'.strayed PROVE CurrentDir'  BY DEF CurrentDir
    <3>1. Len(stack) = Len(cur) /\ cur = juillet.path  BY <1>1, <1>2 DEF IInv, CurrentDir
    <3>2. cur # <<>>  BY <1>2, <2>1, <3>1
    <3>3. Len(cur') = Len(stack') /\ cur' = JuilletDir'
      BY <1>2, <1>3, <1>5, <2>1, <3>1, <3>2, FrontLast
    <3>. QED BY <1>1, <1>2, <1>5, <3>3 DEF CurrentDir
  <2>5. TreeOK'
    <3>. DEFINE p == Append(Front(cur), Last(stack).name)
    <3>1. ino \in Seq(Inodes) /\ \A q \in DOMAIN disk : disk[q] \in DOMAIN ino
      BY DEF IInv, TreeOK
    <3>2. Last(stack).date \in Int  BY <2>1 DEF Frames
    <3>3. SameIds(ino, ino')
      <4>1. CASE p \in DOMAIN disk /\ ino' = [ino EXCEPT ![disk[p]].mtime = Last(stack).date]
        <5>. HIDE DEF p
        <5>1. disk[p] \in DOMAIN ino  BY <3>1, <4>1
        <5>. QED BY <3>1, <3>2, <4>1, <5>1, DateIsInode
      <4>2. CASE ino' = ino  BY <3>1, <4>2 DEF SameIds
      <4>. QED BY <1>5, <4>1, <4>2
    <3>. QED BY <1>1, <3>3, DatesStay DEF IInv, Tame
  <2>6. Counted'  BY <1>1, <1>5 DEF IInv, Counted, Busy
  <2>. QED BY <2>2, <2>3, <2>4, <2>5, <2>6 DEF IInv
<1>. QED BY <1>1, <1>4, <1>5

\* The destructor sets nothing but dates.
LEMMA DestroyKeeps ==
  ASSUME IInv, Destroy PROVE IInv'
<1>. DEFINE here(n) == {i \in 1..Len(stack) : i <= Len(cur) /\
                          LET p == Append(SubSeq(cur, 1, Len(cur) - (Len(stack) - i) - 1), stack[i].name)
                          IN p \in DOMAIN disk /\ disk[p] = n}
            dated(n) == IF opts.empty \/ here(n) = {} THEN ino[n]
                        ELSE [ino[n] EXCEPT !.mtime = stack[CHOOSE i \in here(n) : TRUE].date]
<1>1. /\ pc = "end" /\ pc' = "gone" /\ stack' = <<>> /\ cur' = <<>>
      /\ UNCHANGED source /\ UNCHANGED corres
      /\ UNCHANGED <<arch, opts, disk, rd, e, juillet, w, stats, verdict, ghost>>
      /\ ino' = [n \in DOMAIN ino |-> dated(n)]
  BY DEF Destroy, source, reader, ends
<1>2. /\ stack \in Seq(Frames) /\ ino \in Seq(Inodes)
      /\ \A n : here(n) \subseteq 1..Len(stack)
  BY DEF IInv, Shaped, WalkOK, Stacks, TreeOK
<1>. HIDE DEF here
<1>3. SameIds(ino, ino')
  <2>1. ASSUME NEW n \in DOMAIN ino PROVE dated(n) \in Inodes /\ dated(n).id = ino[n].id
    <3>1. ino[n] \in Inodes  BY <1>2
    <3>2. ASSUME here(n) # {} PROVE stack[CHOOSE i \in here(n) : TRUE].date \in Int
      <4>1. (CHOOSE i \in here(n) : TRUE) \in 1..Len(stack)  BY <1>2, <3>2
      <4>2. stack[CHOOSE i \in here(n) : TRUE] \in Frames  BY <1>2, <4>1, ElementOfSeq
      <4>. QED BY <4>2 DEF Frames
    <3>. QED BY <3>1, <3>2, Dated
  <2>. HIDE DEF dated
  <2>. QED BY <1>1, <1>2, <2>1 DEF SameIds
<1>4. Shaped'
  <2>1. ReaderOK'  BY <1>1 DEF IInv, Shaped, ReaderOK
  <2>2. GhostOK' /\ WalkOK'  BY <1>1 DEF IInv, Shaped, GhostOK, WalkOK, Stacks
  <2>. QED BY <2>1, <2>2 DEF Shaped
<1>5. Placed'
  <2>1. JuilletDir' = JuilletDir /\ ReadFrom' = ReadFrom  BY <1>1 DEF JuilletDir, ReadFrom
  <2>. QED BY <1>1, <2>1 DEF IInv, Placed, NotEod, Busy
<1>6. CurrentDir'  BY <1>1 DEF CurrentDir
<1>7. TreeOK'  BY <1>1, <1>3, DatesStay DEF IInv, Tame
<1>8. Counted'
  <2>1. Busy' = Busy  BY <1>1 DEF Busy
  <2>. QED BY <1>1, <2>1 DEF IInv, Counted
<1>. QED BY <1>4, <1>5, <1>6, <1>7, <1>8 DEF IInv
-----------------------------------------------------------------------------
(* The restoration. *)

\* The start of the restoration.
LEMMA InitKeeps == ASSUME Init PROVE IInv
<1>1. arch \in Archives /\ opts \in Options /\ opts.mode \in {"direct", "seq"}
  BY OptionsAreKnown DEF Init
<1>2. PICK d \in Disks : disk = d.disk /\ ino = d.ino  BY DEF Init
<1>3. /\ rd.status = IF opts.mode = "seq" THEN "marks" ELSE "completed"
      /\ rd.pos = 0 /\ rd.depth = 0 /\ rd.wait = 0 /\ rd.marks = <<>>
      /\ rd = [status |-> rd.status, pos |-> rd.pos, depth |-> rd.depth, wait |-> rd.wait,
               marks |-> rd.marks, eas |-> rd.eas]
  BY DEF Init, Begin
<1>4. /\ juillet = [path |-> <<>>, init |-> TRUE] /\ JuilletDir = <<>>
      /\ cur = <<>> /\ stack = <<>> /\ corres = <<>> /\ pc = "reading" /\ verdict = "none"
      /\ ghost = [seen |-> 0, strayed |-> FALSE]
      /\ {"res", "copy", "exc"} \subseteq DOMAIN w /\ w.res = "no_data" /\ w.copy = 1
  BY DEF Init, JuilletDir, NothingDone
<1>5. Shaped
  <2>1. ReaderOK  BY <1>1, <1>3 DEF ReaderOK
  <2>2. GhostOK  BY <1>4 DEF GhostOK
  <2>3. <<>> \in Seq(Names) /\ <<>> \in Stacks  BY DEF Stacks
  <2>4. WalkOK  BY <1>1, <1>4, <2>3 DEF WalkOK, Results
  <2>. QED BY <2>1, <2>2, <2>4 DEF Shaped
<1>6. Placed
  <2>1. NotEod /\ rd.pos \in 0..Len(ReadFrom)
    <3>1. NotEod  BY <1>1, <1>3 DEF NotEod
    <3>. QED BY <1>3, <1>5, <3>1, ReadIs
  <2>2. Where(ReadFrom, 0) = <<>> /\ Where(arch.items, 0) = <<>> /\ Len(<<>>) = 0  BY DEF Where
  <2>. QED BY <1>1, <1>3, <1>4, <2>1, <2>2 DEF Placed, Busy
<1>7. CurrentDir  BY <1>4 DEF CurrentDir
<1>8. TreeOK
  <2>1. /\ d.ino \in Seq(Inodes) /\ \A n \in DOMAIN d.ino : d.ino[n].id = "none"
        /\ \A p \in DOMAIN d.disk : d.disk[p] \in DOMAIN d.ino
    BY DisksAreTrees
  <2>2. Sited(disk, ino)  BY <1>2, <2>1 DEF Sited
  <2>3. Recorded(corres)  BY <1>4 DEF Recorded
  <2>. QED BY <1>2, <2>1, <2>2, <2>3 DEF TreeOK
<1>9. Counted
  <2>1. stats = NoStats /\ ~ Busy  BY <1>4 DEF Init, Busy
  <2>. QED BY <1>4, <2>1 DEF Counted, NoStats, Counters
<1>. QED BY <1>5, <1>6, <1>7, <1>8, <1>9 DEF IInv

\* Nothing happens.
LEMMA StutterKeeps == ASSUME IInv, UNCHANGED vars PROVE IInv'
<1>. USE DEF vars, source, tree, reader, fs, ends
<1>1. Shaped'  BY DEF IInv, Shaped, ReaderOK, GhostOK, WalkOK
<1>2. Placed'
  <2>1. JuilletDir' = JuilletDir /\ ReadFrom' = ReadFrom /\ Listed' = Listed  BY DEF JuilletDir, ReadFrom, Listed
  <2>. QED BY <2>1 DEF IInv, Placed, NotEod, Busy, MarksOK
<1>3. CurrentDir'
  <2>1. JuilletDir' = JuilletDir  BY DEF JuilletDir
  <2>. QED BY <2>1 DEF IInv, CurrentDir
<1>4. TreeOK'  BY TreeStays DEF IInv, Tame
<1>5. Counted'
  <2>1. Busy' = Busy  BY DEF Busy
  <2>. QED BY <2>1 DEF IInv, Counted
<1>. QED BY <1>1, <1>2, <1>3, <1>4, <1>5 DEF IInv

\* Every step keeps the invariant.
LEMMA NextKeeps == ASSUME IInv, [Next]_vars PROVE IInv'
BY ReadDirectKeeps, ReadEndKeeps, ReadMarkKeeps, ReadPastMarksKeeps, ReadDetruitsKeeps,
   CancelKeeps, SkipDetruitKeeps, LeaveDirectoryKeeps, SelectKeeps, WriteKeeps,
   NextCopyKeeps, DirtyFileKeeps, SettledKeeps, CountKeeps, FailedKeeps, InterruptedKeeps,
   WriteEodKeeps, DestroyKeeps, StutterKeeps DEF Next

\* The invariant implies the property.
LEMMA IInvGivesWalk == ASSUME IInv PROVE WalkIsInStep
<1>1. InStep  BY DEF IInv, CurrentDir, InStep
<1>2. AtItsPath  BY DEF IInv, TreeOK, Tame, Sited, AtItsPath, Restored
<1>3. EveryEntryCounted
  <2>. SUFFICES ASSUME verdict = "done", opts.mode = "direct", opts.restore = "all"
                PROVE  ghost.seen = stats.treated + stats.skipped + stats.tooold + stats.deleted
                                    + stats.ignored + stats.errored
    BY DEF EveryEntryCounted
  <2>1. ~ Busy  BY DEF IInv, Shaped, WalkOK, Busy
  <2>2. stats.treated + stats.skipped + stats.tooold + stats.deleted
          + stats.ignored + stats.errored \in Nat
    BY DEF IInv, Counted, Counters
  <2>. QED BY <2>1, <2>2 DEF IInv, Counted
<1>. QED BY <1>1, <1>2, <1>3 DEF WalkIsInStep

\* However an entry ends (written, left out, refused, failed, given up with all its
\* directory holds, written again when its copies differ), the catalogue, the path
\* told and the directory written in stay at one place; what is restored is at its
\* path of the archive; every entry is counted once (filtre_restore,
\* filesystem_restore::write).
THEOREM WalkTheorem == Spec => []WalkIsInStep
<1>1. Spec => []IInv  BY InitKeeps, NextKeeps, PTL DEF Spec
<1>2. IInv => WalkIsInStep  BY IInvGivesWalk
<1>. QED BY <1>1, <1>2, PTL
-----------------------------------------------------------------------------
(* What write() reaches of the tree. *)

\* What leads to an entry of a tree is a directory.
DirAt(d, i, q) == q \in DOMAIN d => i[d[q]].type = "dir"
Rooted(d, i) ==
  \A q \in DOMAIN d :
    /\ q \in Seq(Names)
    /\ \A k \in 0..(Len(q) - 1) : SubSeq(q, 1, k) \in DOMAIN d /\ i[d[SubSeq(q, 1, k)]].type = "dir"
Leads(s, d, i) == \A k \in 0..Len(s) : DirAt(d, i, SubSeq(s, 1, k))

\* The entry is written at p, below the current directory.
At(p) ==
  /\ Writes(p) /\ TreeOK
  /\ p \in Seq(Names) /\ p # <<>> /\ cur \in Seq(Names) /\ Front(p) = cur
  /\ Rooted(disk, ino) /\ Leads(cur, disk, ino)

\* The marks left of a file saved, from the ith.
Stored(it) == it.type = "file" /\ it.saved = "saved" /\ ~ (it.hard /\ ~ it.first)
From(it, i) == SubSeq(MarksOf(it), i, Len(MarksOf(it)))
NoData == {<<>>, <<"ea">>}
\* Before a copy, and after one.
Ready(marks, copy) ==
  marks \in NoData \/ (Stored(e) /\ copy \in 1..Len(e.copies) /\ marks = From(e, 2 * copy - 1))
Past(marks, copy) ==
  Stored(e) /\ \/ copy \in 1..(Len(e.copies) - 1) /\ marks = From(e, 2 * copy)
               \/ copy = Len(e.copies) /\ marks \in NoData \cup {<<"dirty">>, <<"dirty", "ea">>}

\* Whether the inode at p was made by this step, and is the last copy of its entry.
New(p, m) == p \in DOMAIN m.disk /\ m.disk[p] > Len(ino)
Fresh(i) == \E it \in Listed : it.id = i.id /\ i.copy = Len(it.copies)
HeadIs(marks, x) == marks # <<>> /\ Head(marks) = x

\* What a step of write() leaves of the tree it found: the inodes are the same ones; what
\* changes is the entry at p, what is below, the inode it was or is linked to, and
\* the dates of directories.
SameKinds(i, j) ==
  /\ Len(i) <= Len(j)
  /\ \A n \in DOMAIN i : j[n].type = i[n].type /\ j[n].id = i[n].id /\ j[n].copy = i[n].copy
Elsewhere(p, d) ==
  /\ \A q \in DOMAIN disk : q # p /\ ~ Below(p, q) => q \in DOMAIN d
  /\ \A q \in DOMAIN d : q = p \/ (q \in DOMAIN disk /\ d[q] = disk[q])
There(p, m) ==
  p \in DOMAIN m.disk => \/ New(p, m)
                         \/ p \in DOMAIN disk /\ m.disk[p] = disk[p]
                         \/ e.hard /\ LinkedTo(m.disk[p])
Untouched(p, i) ==
  \A n \in DOMAIN ino : (p \in DOMAIN disk => n # disk[p]) /\ ~ LinkedTo(n) => SameInode(ino[n], i[n])
Links(p, c) == \A x \in DOMAIN c : c[x].path = p \/ (x \in DOMAIN corres /\ c[x].path = corres[x].path)
Made(i) == \A n \in DOMAIN i \ DOMAIN ino : i[n].type = e.type /\ i[n].id = e.id
Framed(p, m) ==
  /\ SameKinds(ino, m.ino) /\ Untouched(p, m.ino) /\ Made(m.ino)
  /\ Elsewhere(p, m.disk) /\ There(p, m) /\ Rooted(m.disk, m.ino)
  /\ Links(p, m.corres)
  /\ m.res = "restored" /\ IsDir(e) => DirAt(m.disk, m.ino, p)
  /\ Len(m.stack) = Len(stack) /\ \A i \in 1..Len(stack) : m.stack[i].name = stack[i].name
  /\ Ready(m.marks, m.copy) \/ (Past(m.marks, m.copy) /\ ~ opts.empty /\ (p \in DOMAIN m.disk => New(p, m)))
  /\ New(p, m) => e.type = "file" \/ Fresh(m.ino[m.disk[p]])
  /\ m.exc \in {"none", "range", "abort", "bug", "cancel"}

\* What was made of a file is its last copy, unless the next one follows or the entry fails;
\* a cancellation leaves nothing made.
Told(p, m) ==
  /\ m.exc = "none" /\ New(p, m) => Fresh(m.ino[m.disk[p]]) \/ HeadIs(m.marks, "changed")
  /\ m.exc = "cancel" => ~ New(p, m)
\* And it is said to be restored.
Said(p, m) == m.exc = "none" /\ New(p, m) => m.res = "restored"

\* Dates.
LEMMA SameTwice ==
  ASSUME NEW i \in Inodes, NEW j, NEW k, SameInode(i, j), SameInode(j, k) PROVE SameInode(i, k)
<1>1. CASE j = i  BY <1>1
<1>2. CASE k = j  BY <1>2
<1>3. CASE i.type = "dir" /\ j = [i EXCEPT !.mtime = j.mtime] /\ k = [j EXCEPT !.mtime = k.mtime]
  <2>1. k = [i EXCEPT !.mtime = k.mtime]  BY <1>3 DEF Inodes
  <2>. QED BY <1>3, <2>1 DEF SameInode
<1>. QED BY <1>1, <1>2, <1>3 DEF SameInode

\* A directory with another date is the same.
LEMMA DatedSame ==
  ASSUME NEW i \in Inodes, i.type = "dir", NEW d PROVE SameInode(i, [i EXCEPT !.mtime = d])
BY DEF Inodes, SameInode

\* A tree is not changed by what keeps the types of inodes.
LEMMA RootedStays ==
  ASSUME NEW d, NEW i \in Seq(Inodes), NEW j, SameKinds(i, j), Rooted(d, i), \A q \in DOMAIN d : d[q] \in DOMAIN i
  PROVE  Rooted(d, j)
<1>. SUFFICES ASSUME NEW q \in DOMAIN d, NEW k \in 0..(Len(q) - 1)
              PROVE  SubSeq(q, 1, k) \in DOMAIN d /\ j[d[SubSeq(q, 1, k)]].type = "dir"
  BY DEF Rooted
<1>. DEFINE x == SubSeq(q, 1, k)
<1>1. x \in DOMAIN d /\ i[d[x]].type = "dir"  BY DEF Rooted
<1>. HIDE DEF x
<1>2. d[x] \in DOMAIN i /\ j[d[x]].type = i[d[x]].type  BY <1>1 DEF SameKinds
<1>. QED BY <1>1, <1>2 DEF x

\* A step that edits an inode, the one at p or a directory's date.
LEMMA EditFramed ==
  ASSUME NEW p, At(p), NEW m, Sound(m), Framed(p, m), NEW r, Sound(r),
         Len(r.ino) = Len(m.ino), SameKinds(m.ino, r.ino),
         NEW n \in DOMAIN m.ino, \A x \in DOMAIN m.ino : x # n => r.ino[x] = m.ino[x],
         (p \in DOMAIN m.disk /\ n = m.disk[p]) \/ SameInode(m.ino[n], r.ino[n]),
         r.disk = m.disk, r.corres = m.corres, r.marks = m.marks, r.stack = m.stack,
         r.res = m.res, r.copy = m.copy, r.exc = m.exc
  PROVE  Framed(p, r)
<1>. USE DEF Framed
<1>1. /\ m.ino \in Seq(Inodes) /\ r.ino \in Seq(Inodes) /\ ino \in Seq(Inodes)
      /\ DOMAIN r.ino = DOMAIN m.ino /\ DOMAIN ino \subseteq DOMAIN m.ino
      /\ \A q \in DOMAIN m.disk : m.disk[q] \in DOMAIN m.ino
  <2>1. m.ino \in Seq(Inodes) /\ r.ino \in Seq(Inodes) /\ ino \in Seq(Inodes)
    BY DEF Sound, At, TreeOK
  <2>. QED BY <2>1 DEF SameKinds, Sound
<1>2. SameKinds(ino, r.ino)  BY <1>1 DEF SameKinds
<1>3. Untouched(p, r.ino)
  <2>. SUFFICES ASSUME NEW x \in DOMAIN ino, p \in DOMAIN disk => x # disk[p], ~ LinkedTo(x)
                PROVE  SameInode(ino[x], r.ino[x])
    BY DEF Untouched
  <2>1. SameInode(ino[x], m.ino[x])  BY DEF Untouched
  <2>2. ino[x] \in Inodes /\ x \in DOMAIN m.ino  BY <1>1
  <2>3. CASE x # n  BY <2>1, <2>2, <2>3
  <2>4. CASE x = n /\ SameInode(m.ino[n], r.ino[n])  BY <2>1, <2>2, <2>4, SameTwice
  <2>5. CASE x = n /\ p \in DOMAIN m.disk /\ n = m.disk[p]
    BY <1>1, <2>5 DEF There, New
  <2>. QED BY <2>3, <2>4, <2>5
<1>4. Made(r.ino)  BY <1>1 DEF Made, SameKinds
<1>5. There(p, r) /\ (New(p, r) <=> New(p, m))  BY DEF There, New
<1>6. Rooted(r.disk, r.ino)  BY <1>1, RootedStays
<1>7. r.res = "restored" /\ IsDir(e) => DirAt(r.disk, r.ino, p)  BY <1>1 DEF DirAt, SameKinds
<1>8. New(p, r) => e.type = "file" \/ Fresh(r.ino[r.disk[p]])
  BY <1>1, <1>5 DEF New, Fresh, SameKinds
<1>. QED BY <1>2, <1>3, <1>4, <1>5, <1>6, <1>7, <1>8

\* A step that changes the tree in nothing.
LEMMA FieldFramed ==
  ASSUME NEW p, NEW m, Framed(p, m), NEW r,
         r.ino = m.ino, r.disk = m.disk, r.corres = m.corres, r.marks = m.marks, r.copy = m.copy,
         Len(r.stack) = Len(m.stack), \A i \in 1..Len(m.stack) : r.stack[i].name = m.stack[i].name,
         r.res = m.res \/ (r.res = "restored" /\ IsDir(e) => DirAt(m.disk, m.ino, p)),
         r.exc \in {"none", "range", "abort", "bug", "cancel"}
  PROVE  Framed(p, r)
BY DEF Framed, There, New

\* The directory written in is one.
LEMMA CurIsDir ==
  ASSUME NEW p, At(p), NEW m, Sound(m), Framed(p, m), cur \in DOMAIN m.disk
  PROVE  m.disk[cur] \in DOMAIN m.ino /\ m.ino[m.disk[cur]].type = "dir"
<1>1. cur # p
  <2>1. Len(Front(p)) = Len(p) - 1 /\ Len(p) \in Nat  BY FrontLast DEF At
  <2>. QED BY <2>1 DEF At
<1>2. cur \in DOMAIN disk /\ m.disk[cur] = disk[cur]  BY <1>1 DEF Framed, Elsewhere
<1>3. ino[disk[cur]].type = "dir"
  <2>1. Len(cur) \in Nat /\ SubSeq(cur, 1, Len(cur)) = cur  BY SubSeqFull DEF At
  <2>2. DirAt(disk, ino, SubSeq(cur, 1, Len(cur)))  BY <2>1 DEF At, Leads
  <2>. QED BY <1>2, <2>1, <2>2 DEF DirAt
<1>4. disk[cur] \in DOMAIN ino /\ ino \in Seq(Inodes)  BY <1>2 DEF At, TreeOK
<1>5. m.ino[disk[cur]].type = "dir"  BY <1>3, <1>4 DEF Framed, SameKinds
<1>. QED BY <1>2, <1>5 DEF Sound

\* An exception.
LEMMA RaiseFramed ==
  ASSUME NEW p, NEW m, Sound(m), Framed(p, m), NEW x \in {"range", "abort", "bug"}
  PROVE  Framed(p, Raise(m, x)) /\ Told(p, Raise(m, x)) /\ Said(p, Raise(m, x))
<1>. DEFINE r == Raise(m, x)
<1>1. /\ r.ino = m.ino /\ r.disk = m.disk /\ r.corres = m.corres /\ r.marks = m.marks
      /\ r.copy = m.copy /\ r.stack = m.stack /\ r.res = m.res /\ r.exc = x
  BY DEF Raise, Sound, Fields
<1>. HIDE DEF r
<1>2. Framed(p, r)  BY <1>1, FieldFramed
<1>. QED BY <1>1, <1>2 DEF Told, Said, r

\* A failure of the system.
LEMMA FailsFramed ==
  ASSUME NEW p, NEW m, Sound(m), Framed(p, m), NEW x \in {"range", "abort", "bug", "cancel"},
         x = "cancel" => ~ New(p, m), NEW r \in Fails(m, x)
  PROVE  Framed(p, r) /\ Told(p, r) /\ Said(p, r)
<1>1. r = [m EXCEPT !.faults = @ - 1, !.exc = x]  BY DEF Fails
<1>2. /\ r.ino = m.ino /\ r.disk = m.disk /\ r.corres = m.corres /\ r.marks = m.marks
      /\ r.copy = m.copy /\ r.stack = m.stack /\ r.res = m.res /\ r.exc = x
  BY <1>1 DEF Sound, Fields
<1>3. Framed(p, r)  BY <1>2, FieldFramed
<1>. QED BY <1>2, <1>3 DEF Told, Said, New

\* What is said of the inode at p stays true as long as it is the same copy.
LEMMA ToldStays ==
  ASSUME NEW p, NEW m, Sound(m), NEW r, SameKinds(m.ino, r.ino), r.disk = m.disk,
         r.marks = m.marks, r.exc = m.exc
  PROVE  /\ Told(p, m) => Told(p, r)
         /\ Said(p, m) /\ r.res = m.res => Said(p, r)
<1>1. New(p, r) <=> New(p, m)  BY DEF New
<1>2. ASSUME New(p, m), Fresh(m.ino[m.disk[p]]) PROVE Fresh(r.ino[r.disk[p]])
  BY <1>2 DEF New, Fresh, SameKinds, Sound
<1>. QED BY <1>1, <1>2 DEF Told, Said

\* What edits an inode of a tree: the properties of the step so far.
Stays(p, m, r) ==
  /\ Framed(p, m) => Framed(p, r)
  /\ Told(p, m) => Told(p, r)
  /\ Said(p, m) => Said(p, r)
  /\ r.exc = m.exc /\ r.disk = m.disk /\ r.res = m.res /\ r.marks = m.marks /\ r.corres = m.corres
  /\ Len(r.ino) = Len(m.ino) /\ SameKinds(m.ino, r.ino)

\* Setting the date of what is at p.
LEMMA SetDateFramed ==
  ASSUME NEW p, At(p), NEW m, Sound(m), Framed(p, m), NEW d \in Int
  PROVE  Stays(p, m, SetDate(m, p, d))
<1>. DEFINE r == SetDate(m, p, d)
<1>1. CASE p \in DOMAIN m.disk
  <2>. DEFINE n == m.disk[p]
              i == [m.ino EXCEPT ![n].mtime = d]
  <2>1. n \in DOMAIN m.ino /\ m.ino \in Seq(Inodes)  BY <1>1 DEF Sound
  <2>2. i \in Seq(Inodes) /\ Len(i) = Len(m.ino)  BY <2>1, DateIsInode DEF SameIds
  <2>3. \A x \in DOMAIN m.ino : x # n => i[x] = m.ino[x]  BY <2>1
  <2>4. SameKinds(m.ino, i)
    <3>1. m.ino[n] \in Inodes /\ i[n] = [m.ino[n] EXCEPT !.mtime = d]  BY <2>1
    <3>2. i[n].type = m.ino[n].type /\ i[n].id = m.ino[n].id /\ i[n].copy = m.ino[n].copy
      BY <3>1 DEF Inodes
    <3>. HIDE DEF i, n
    <3>. QED BY <2>1, <2>2, <2>3, <3>2 DEF SameKinds
  <2>5. r = [m EXCEPT !.ino = i]  BY <1>1 DEF SetDate, Sound, Fields
  <2>6. /\ r.ino = i /\ r.disk = m.disk /\ r.corres = m.corres /\ r.marks = m.marks
        /\ r.stack = m.stack /\ r.res = m.res /\ r.copy = m.copy /\ r.exc = m.exc
    BY <2>5 DEF Sound, Fields
  <2>7. Sound(r)  BY SetDateSound
  <2>. HIDE DEF i, r
  <2>8. Framed(p, r)  BY <1>1, <2>1, <2>2, <2>3, <2>4, <2>6, <2>7, EditFramed
  <2>. QED BY <2>2, <2>4, <2>6, <2>8, ToldStays DEF Stays, r
<1>2. CASE p \notin DOMAIN m.disk
  BY <1>2 DEF SetDate, Stays, SameKinds, Sound
<1>. QED BY <1>1, <1>2

\* The directory written in is modified.
LEMMA TouchFramed ==
  ASSUME NEW p, At(p), NEW m, Sound(m), Framed(p, m)
  PROVE  Stays(p, m, Touch(m, p))
<1>. DEFINE r == Touch(m, p)
<1>0. Front(p) = cur  BY DEF At
<1>1. CASE cur \in DOMAIN m.disk
  <2>. DEFINE n == m.disk[cur]
              i == [m.ino EXCEPT ![n].mtime = Now]
  <2>1. n \in DOMAIN m.ino /\ m.ino \in Seq(Inodes) /\ m.ino[n].type = "dir"
    BY <1>1, CurIsDir DEF Sound
  <2>2. i \in Seq(Inodes) /\ Len(i) = Len(m.ino)
    <3>1. Now \in Int  BY DEF Now
    <3>. QED BY <2>1, <3>1, DateIsInode DEF SameIds
  <2>3. \A x \in DOMAIN m.ino : x # n => i[x] = m.ino[x]  BY <2>1
  <2>4. SameKinds(m.ino, i) /\ SameInode(m.ino[n], i[n])
    <3>1. m.ino[n] \in Inodes /\ i[n] = [m.ino[n] EXCEPT !.mtime = Now]  BY <2>1
    <3>2. i[n].type = m.ino[n].type /\ i[n].id = m.ino[n].id /\ i[n].copy = m.ino[n].copy
      BY <3>1 DEF Inodes
    <3>3. SameInode(m.ino[n], i[n])  BY <2>1, <3>1, DatedSame
    <3>. HIDE DEF i, n
    <3>. QED BY <2>1, <2>2, <2>3, <3>2, <3>3 DEF SameKinds
  <2>5. r = [m EXCEPT !.ino = i]  BY <1>0, <1>1 DEF Touch, Sound, Fields
  <2>6. /\ r.ino = i /\ r.disk = m.disk /\ r.corres = m.corres /\ r.marks = m.marks
        /\ r.stack = m.stack /\ r.res = m.res /\ r.copy = m.copy /\ r.exc = m.exc
    BY <2>5 DEF Sound, Fields
  <2>7. Sound(r)  BY TouchSound
  <2>. HIDE DEF i, r, n
  <2>8. Framed(p, r)  BY <2>1, <2>2, <2>3, <2>4, <2>6, <2>7, EditFramed
  <2>. QED BY <2>2, <2>4, <2>6, <2>8, ToldStays DEF Stays, r
<1>2. CASE cur \notin DOMAIN m.disk
  BY <1>0, <1>2 DEF Touch, Stays, SameKinds, Sound
<1>. QED BY <1>1, <1>2

\* Setting the EA of what is at p.
LEMMA SetEAFramed ==
  ASSUME NEW p, At(p), NEW m, Sound(m), Framed(p, m), p \in DOMAIN m.disk,
         NEW eas \in SUBSET {"archive", "own"}
  PROVE  /\ Stays(p, m, SetEA(m, p, eas))
         /\ SetEA(m, p, eas).ino[m.disk[p]].eas = eas
<1>. DEFINE n == m.disk[p]
            s == IF eas = {} THEN "none" ELSE "full"
            i == [m.ino EXCEPT ![n].eas = eas, ![n].ea = s]
            r == SetEA(m, p, eas)
<1>1. n \in DOMAIN m.ino /\ m.ino \in Seq(Inodes)  BY DEF Sound
<1>2. i \in Seq(Inodes) /\ Len(i) = Len(m.ino)
  <2>1. s \in {"none", "full"}  OBVIOUS
  <2>. HIDE DEF s, n
  <2>2. SameIds(m.ino, i)  BY <1>1, <2>1, EAIsInode
  <2>. QED BY <2>2 DEF SameIds
<1>3. \A x \in DOMAIN m.ino : x # n => i[x] = m.ino[x]  BY <1>1
<1>4. SameKinds(m.ino, i) /\ i[n].eas = eas
  <2>1. m.ino[n] \in Inodes  BY <1>1
  <2>2. i[n] = [m.ino[n] EXCEPT !.eas = eas, !.ea = s]  BY <1>1, <2>1 DEF Inodes
  <2>. HIDE DEF i, n, s
  <2>3. i[n].type = m.ino[n].type /\ i[n].id = m.ino[n].id /\ i[n].copy = m.ino[n].copy /\ i[n].eas = eas
    BY <2>1, <2>2 DEF Inodes
  <2>. HIDE DEF i, n
  <2>. QED BY <1>1, <1>2, <1>3, <2>3 DEF SameKinds
<1>5. r = [m EXCEPT !.ino = i]  BY DEF SetEA, Sound, Fields
<1>6. /\ r.ino = i /\ r.disk = m.disk /\ r.corres = m.corres /\ r.marks = m.marks
      /\ r.stack = m.stack /\ r.res = m.res /\ r.copy = m.copy /\ r.exc = m.exc
  BY <1>5 DEF Sound, Fields
<1>7. Sound(r)  BY SetEASound
<1>. HIDE DEF i, r
<1>8. Framed(p, r)  BY <1>1, <1>2, <1>3, <1>4, <1>6, <1>7, EditFramed
<1>. QED BY <1>2, <1>4, <1>6, <1>8, ToldStays DEF Stays, r

\* The date of the parent directory is to be set back.
LEMMA MarkParentFramed ==
  ASSUME NEW p, NEW m, Sound(m), Framed(p, m)
  PROVE  Stays(p, m, MarkParent(m)) /\ MarkParent(m).ino = m.ino
<1>. DEFINE r == MarkParent(m)
<1>1. CASE m.stack = <<>>  BY <1>1 DEF MarkParent, Stays, SameKinds, Sound
<1>2. CASE m.stack # <<>>
  <2>. DEFINE t == [m.stack EXCEPT ![Len(m.stack)].restore = TRUE]
  <2>1. m.stack \in Stacks  BY DEF Sound
  <2>2. Len(t) = Len(m.stack) /\ \A i \in 1..Len(m.stack) : t[i].name = m.stack[i].name
    <3>1. \A i \in 1..Len(m.stack) : m.stack[i] \in Frames  BY <2>1 DEF Stacks
    <3>. QED BY <2>1, <3>1 DEF Stacks, Frames
  <2>3. r = [m EXCEPT !.stack = t]  BY <1>2 DEF MarkParent, Sound, Fields
  <2>4. /\ r.ino = m.ino /\ r.disk = m.disk /\ r.corres = m.corres /\ r.marks = m.marks
        /\ r.copy = m.copy /\ r.stack = t /\ r.res = m.res /\ r.exc = m.exc
    BY <2>3 DEF Sound, Fields
  <2>. HIDE DEF t, r
  <2>5. m.exc \in {"none", "range", "abort", "bug", "cancel"}  BY DEF Framed
  <2>6. Framed(p, r)  BY <2>2, <2>4, <2>5, FieldFramed
  <2>. QED BY <2>4, <2>6 DEF Stays, Told, Said, New, r, SameKinds, Sound
<1>. QED BY <1>1, <1>2

\* A prefix of a path, and its own prefixes.
LEMMA PrefixIs ==
  ASSUME NEW q \in Seq(Names), NEW k \in 0..Len(q)
  PROVE  /\ SubSeq(q, 1, k) \in Seq(Names) /\ Len(SubSeq(q, 1, k)) = k
         /\ \A j \in 0..k : SubSeq(SubSeq(q, 1, k), 1, j) = SubSeq(q, 1, j)
<1>0. Len(q) \in Nat /\ k \in Nat /\ \A i \in 1..Len(q) : q[i] \in Names  BY LenProperties, ElementOfSeq
<1>1. /\ SubSeq(q, 1, k) \in Seq(Names) /\ Len(SubSeq(q, 1, k)) = k
      /\ \A i \in 1..k : SubSeq(q, 1, k)[i] = q[i]
  BY <1>0, SubSeqProperties
<1>2. ASSUME NEW j \in 0..k PROVE SubSeq(SubSeq(q, 1, k), 1, j) = SubSeq(q, 1, j)
  <2>. DEFINE a == SubSeq(q, 1, k)
              b == SubSeq(a, 1, j)
              s == SubSeq(q, 1, j)
  <2>0. j \in Nat /\ j <= k /\ j <= Len(q)  BY <1>0
  <2>1. s \in Seq(Names) /\ Len(s) = j /\ \A i \in 1..j : s[i] = q[i]
    BY <1>0, <2>0, SubSeqProperties
  <2>2. b \in Seq(Names) /\ Len(b) = j /\ \A i \in 1..j : b[i] = a[i]
    <3>1. \A i \in 1..j : a[i] \in Names  BY <1>0, <1>1, <2>0
    <3>. HIDE DEF a
    <3>2. a \in Seq(Names) /\ Len(a) = k  BY <1>1 DEF a
    <3>. QED BY <1>0, <2>0, <3>1, <3>2, SubSeqProperties
  <2>3. \A i \in 1..j : a[i] = q[i]  BY <1>0, <1>1, <2>0
  <2>. HIDE DEF a, b, s
  <2>4. b = s  BY <2>0, <2>1, <2>2, <2>3, SeqEqual
  <2>. QED BY <2>4 DEF a, b, s
<1>. QED BY <1>1, <1>2

\* What is removed with an entry is all that is below it.
Under(p, d, S) == /\ \A q \in DOMAIN d : Below(p, q) => q \in S
                  /\ \A q \in S : q = p \/ Below(p, q)

\* A tree without what is below a path.
LEMMA RootedWithout ==
  ASSUME NEW d, NEW i, Rooted(d, i), NEW p \in Seq(Names), NEW S, Under(p, d, S)
  PROVE  Rooted(Without(d, S), i)
<1>. DEFINE u == Without(d, S)
<1>1. DOMAIN u = DOMAIN d \ S /\ \A q \in DOMAIN u : u[q] = d[q]  BY DEF Without
<1>. HIDE DEF u
<1>2. ASSUME NEW q \in DOMAIN u PROVE q \in Seq(Names)  BY <1>1 DEF Rooted
<1>3. ASSUME NEW q \in DOMAIN u, NEW k \in 0..(Len(q) - 1)
      PROVE  SubSeq(q, 1, k) \in DOMAIN u /\ i[u[SubSeq(q, 1, k)]].type = "dir"
  <2>. DEFINE x == SubSeq(q, 1, k)
  <2>0. q \in DOMAIN d /\ q \in Seq(Names) /\ Len(q) \in Nat /\ ~ Below(p, q) /\ k \in Nat
    BY <1>1, <1>2, LenProperties DEF Under
  <2>1. x \in DOMAIN d /\ i[d[x]].type = "dir"  BY <2>0 DEF Rooted
  <2>2. Len(x) = k /\ k < Len(q) /\ \A j \in 0..k : SubSeq(x, 1, j) = SubSeq(q, 1, j)
    BY <2>0, PrefixIs
  <2>3. Len(p) \in Nat  BY LenProperties
  <2>. HIDE DEF x
  <2>4. x \notin S
    <3>1. CASE x = p  BY <1>1, <2>0, <2>2, <2>3, <3>1 DEF Below, x
    <3>2. CASE Below(p, x)
      <4>1. Len(p) \in 0..k /\ SubSeq(q, 1, Len(p)) = p  BY <2>0, <2>2, <2>3, <3>2 DEF Below
      <4>2. Below(p, q)  BY <2>2, <2>3, <4>1, <2>0 DEF Below
      <4>. QED BY <2>0, <4>2 DEF Under
    <3>. QED BY <3>1, <3>2 DEF Under
  <2>. QED BY <1>1, <2>1, <2>4 DEF x
<1>. QED BY <1>2, <1>3 DEF Rooted, u

\* What is at p, or below, is removed.
LEMMA WithoutFramed ==
  ASSUME NEW p, At(p), NEW m, Sound(m), Framed(p, m), NEW S, Under(p, m.disk, S),
         NEW r, r.ino = m.ino, r.disk = Without(m.disk, S), r.corres = m.corres, r.marks = m.marks,
         r.copy = m.copy, r.stack = m.stack, r.res = m.res, r.exc = m.exc
  PROVE  /\ Framed(p, r) /\ DOMAIN r.disk = DOMAIN m.disk \ S
         /\ \A q \in DOMAIN r.disk : r.disk[q] = m.disk[q]
         /\ r.ino = m.ino /\ r.corres = m.corres /\ r.marks = m.marks /\ r.copy = m.copy
         /\ r.res = m.res /\ r.exc = m.exc
<1>. DEFINE d == Without(m.disk, S)
<1>1. /\ r.ino = m.ino /\ r.disk = d /\ r.corres = m.corres /\ r.marks = m.marks
      /\ r.copy = m.copy /\ r.stack = m.stack /\ r.res = m.res /\ r.exc = m.exc
  OBVIOUS
<1>2. DOMAIN d = DOMAIN m.disk \ S /\ \A q \in DOMAIN d : d[q] = m.disk[q]  BY DEF Without
<1>3. Rooted(d, m.ino)
  <2>1. Rooted(m.disk, m.ino) /\ p \in Seq(Names)  BY DEF Framed, At
  <2>. HIDE DEF d
  <2>2. Rooted(Without(m.disk, S), m.ino)  BY <2>1, RootedWithout
  <2>. QED BY <2>2 DEF d
<1>. HIDE DEF d
<1>4. Elsewhere(p, d)
  BY <1>2 DEF Framed, Elsewhere, Under
<1>5. There(p, r) /\ (New(p, r) => New(p, m) /\ r.disk[p] = m.disk[p])
      /\ (p \in DOMAIN r.disk => p \in DOMAIN m.disk /\ (New(p, m) => New(p, r)))
  BY <1>1, <1>2 DEF Framed, There, New
<1>6. r.res = "restored" /\ IsDir(e) => DirAt(r.disk, r.ino, p)
  BY <1>1, <1>2 DEF Framed, DirAt
<1>7. Framed(p, r)  BY <1>1, <1>3, <1>4, <1>5, <1>6 DEF Framed
<1>. QED BY <1>1, <1>2, <1>7

\* supprime(): all of it, or a part.
LEMMA SupprimeFramed ==
  ASSUME NEW p, At(p), NEW m, Sound(m), Framed(p, m), NEW r \in Supprime(m, p)
  PROVE  /\ Framed(p, r) /\ Told(p, r) /\ Said(p, r)
         /\ \/ r.exc = "range"
            \/ p \in DOMAIN m.disk /\ p \notin DOMAIN r.disk /\ r.exc = m.exc
         /\ DOMAIN r.disk \subseteq DOMAIN m.disk /\ \A q \in DOMAIN r.disk : r.disk[q] = m.disk[q]
         /\ Len(r.ino) = Len(m.ino) /\ r.corres = m.corres /\ r.marks = m.marks /\ r.copy = m.copy
         /\ r.res = m.res
<1>1. CASE p \notin DOMAIN m.disk
  <2>1. r = Raise(m, "range")  BY <1>1 DEF Supprime
  <2>. QED BY <2>1, RaiseFramed DEF Raise, Sound, Fields
<1>2. CASE p \in DOMAIN m.disk
  <2>. DEFINE below == {q \in DOMAIN m.disk : Below(p, q)}
              all == [m EXCEPT !.disk = Without(@, below \cup {p})]
              part == [m EXCEPT !.disk = Without(@, below)]
  <2>1. Sound(all) /\ Sound(part)  BY WithoutSound
  <2>2. /\ Framed(p, all) /\ DOMAIN all.disk \subseteq DOMAIN m.disk \ {p}
        /\ \A q \in DOMAIN all.disk : all.disk[q] = m.disk[q]
        /\ all.ino = m.ino /\ all.corres = m.corres /\ all.marks = m.marks /\ all.copy = m.copy
        /\ all.res = m.res /\ all.exc = m.exc
    <3>. DEFINE S == below \cup {p}
    <3>1. Under(p, m.disk, S) /\ p \in S  BY DEF Under
    <3>2. /\ all.ino = m.ino /\ all.disk = Without(m.disk, S) /\ all.corres = m.corres
          /\ all.marks = m.marks /\ all.copy = m.copy /\ all.stack = m.stack
          /\ all.res = m.res /\ all.exc = m.exc
      BY DEF Sound, Fields
    <3>. HIDE DEF all, part, below, S
    <3>. QED BY <3>1, <3>2, WithoutFramed
  <2>3. /\ Framed(p, part) /\ DOMAIN part.disk \subseteq DOMAIN m.disk
        /\ \A q \in DOMAIN part.disk : part.disk[q] = m.disk[q]
        /\ part.ino = m.ino /\ part.corres = m.corres /\ part.marks = m.marks /\ part.copy = m.copy
        /\ part.res = m.res /\ part.exc = m.exc
    <3>1. Under(p, m.disk, below)  BY DEF Under
    <3>2. /\ part.ino = m.ino /\ part.disk = Without(m.disk, below) /\ part.corres = m.corres
          /\ part.marks = m.marks /\ part.copy = m.copy /\ part.stack = m.stack
          /\ part.res = m.res /\ part.exc = m.exc
      BY DEF Sound, Fields
    <3>. HIDE DEF all, part, below
    <3>. QED BY <3>1, <3>2, WithoutFramed
  <2>4. r = Touch(all, p) \/ r \in Fails(part, "range")  BY <1>2 DEF Supprime
  <2>. HIDE DEF all, part, below
  <2>5. CASE r = Touch(all, p)
    <3>1. Stays(p, all, r) /\ Touch(all, p).copy = all.copy
      BY <2>1, <2>2, <2>5, TouchFramed DEF Touch, Sound, Fields
    <3>2. p \notin DOMAIN r.disk  BY <2>2, <3>1 DEF Stays
    <3>. QED BY <1>2, <2>2, <2>5, <3>1, <3>2 DEF Stays, Told, Said, New
  <2>6. CASE r \in Fails(part, "range")
    <3>1. Framed(p, r) /\ Told(p, r) /\ Said(p, r)  BY <2>1, <2>3, <2>6, FailsFramed
    <3>2. /\ r.exc = "range" /\ r.disk = part.disk /\ r.ino = part.ino /\ r.corres = part.corres
          /\ r.marks = part.marks /\ r.copy = part.copy /\ r.res = part.res
      BY <2>1, <2>6 DEF Fails, Sound, Fields
    <3>. QED BY <2>3, <3>1, <3>2
  <2>. QED BY <2>4, <2>5, <2>6
<1>. QED BY <1>1, <1>2

\* The first link is recorded, or forgotten.
LEMMA CorresFramed ==
  ASSUME NEW p, NEW m, Sound(m), Framed(p, m), NEW c, Links(p, c), NEW r, r = [m EXCEPT !.corres = c]
  PROVE  /\ Framed(p, r) /\ r.corres = c /\ r.disk = m.disk /\ r.ino = m.ino /\ r.marks = m.marks
         /\ r.copy = m.copy /\ r.res = m.res /\ r.exc = m.exc
         /\ (Told(p, m) => Told(p, r)) /\ (Said(p, m) => Said(p, r))
<1>1. /\ r.ino = m.ino /\ r.disk = m.disk /\ r.corres = c /\ r.marks = m.marks
      /\ r.copy = m.copy /\ r.stack = m.stack /\ r.res = m.res /\ r.exc = m.exc
  BY DEF Sound, Fields
<1>2. Framed(p, r)  BY <1>1 DEF Framed, There, New
<1>. QED BY <1>1, <1>2 DEF Told, Said, New

\* A link recorded at the path written leaves the others.
LEMMA LinksWith ==
  ASSUME NEW p, NEW c, Links(p, c), NEW x, NEW a, NEW q,
         q = p \/ (x \in DOMAIN c /\ q = c[x].path)
  PROVE  Links(p, With(c, x, [path |-> q, ea |-> a]))
BY DEF Links, With

\* And so does one forgotten.
LEMMA LinksWithout ==
  ASSUME NEW p, NEW c, Links(p, c), NEW S PROVE Links(p, Without(c, S))
BY DEF Links, Without
-----------------------------------------------------------------------------
(* The marks of a file. *)

\* What is left of a sequence.
LEMMA LeftOf ==
  ASSUME NEW S, NEW s \in Seq(S), NEW k \in 1..Len(s)
  PROVE  /\ SubSeq(s, k, Len(s)) # <<>> /\ Head(SubSeq(s, k, Len(s))) = s[k]
         /\ Tail(SubSeq(s, k, Len(s))) = SubSeq(s, k + 1, Len(s))
<1>. DEFINE n == Len(s)
            a == SubSeq(s, k, n)
            b == SubSeq(s, k + 1, n)
<1>0. n \in Nat /\ k \in Nat /\ k <= n /\ k >= 1 /\ \A i \in 1..n : s[i] \in S
  BY LenProperties, ElementOfSeq
<1>1. a \in Seq(S) /\ Len(a) = n - k + 1 /\ \A i \in 1..(n - k + 1) : a[i] = s[k + i - 1]
  <2>1. \A i \in k..n : s[i] \in S  BY <1>0
  <2>. QED BY <1>0, <2>1, SubSeqProperties
<1>2. b \in Seq(S) /\ Len(b) = n - k /\ \A i \in 1..(n - k) : b[i] = s[k + i]
  <2>1. \A i \in (k + 1)..n : s[i] \in S  BY <1>0
  <2>2. b \in Seq(S) /\ Len(b) = (IF k + 1 <= n THEN n - (k + 1) + 1 ELSE 0)
        /\ \A i \in 1..(n - (k + 1) + 1) : b[i] = s[k + 1 + i - 1]
    BY <1>0, <2>1, SubSeqProperties
  <2>. QED BY <1>0, <2>2
<1>. HIDE DEF a, b, n
<1>3. a # <<>> /\ Head(a) = a[1] /\ a[1] = s[k]
  <2>1. Len(a) > 0 /\ 1 \in 1..(n - k + 1)  BY <1>0, <1>1
  <2>2. a[1] = s[k]  BY <1>0, <1>1, <2>1
  <2>. QED BY <1>1, <2>1, <2>2
<1>4. Tail(a) \in Seq(S) /\ Len(Tail(a)) = n - k /\ \A i \in 1..(n - k) : Tail(a)[i] = a[i + 1]
  BY <1>0, <1>1, <1>3
<1>5. \A i \in 1..(n - k) : a[i + 1] = s[k + i]  BY <1>0, <1>1
<1>6. Tail(a) = b  BY <1>0, <1>2, <1>4, <1>5, SeqEqual
<1>. QED BY <1>3, <1>6 DEF a, b, n

\* Nothing but what is appended is left past the end of a sequence.
LEMMA LeftOfConcat ==
  ASSUME NEW S, NEW s \in Seq(S), NEW t \in Seq(S)
  PROVE  /\ SubSeq(s \o t, Len(s) + 1, Len(s \o t)) = t
         /\ s \o t \in Seq(S) /\ Len(s \o t) = Len(s) + Len(t)
         /\ \A i \in 1..Len(s) : (s \o t)[i] = s[i]
<1>. DEFINE u == s \o t
            a == SubSeq(u, Len(s) + 1, Len(u))
<1>1. /\ u \in Seq(S) /\ Len(u) = Len(s) + Len(t)
      /\ \A i \in 1..(Len(s) + Len(t)) : u[i] = IF i <= Len(s) THEN s[i] ELSE t[i - Len(s)]
  BY ConcatProperties
<1>2. Len(s) \in Nat /\ Len(t) \in Nat  BY LenProperties
<1>. HIDE DEF u
<1>3. a \in Seq(S) /\ Len(a) = Len(t) /\ \A i \in 1..Len(t) : a[i] = u[Len(s) + i]
  <2>1. \A i \in (Len(s) + 1)..Len(u) : u[i] \in S  BY <1>1, <1>2, ElementOfSeq
  <2>2. /\ a \in Seq(S)
        /\ Len(a) = (IF Len(s) + 1 <= Len(u) THEN Len(u) - (Len(s) + 1) + 1 ELSE 0)
        /\ \A i \in 1..(Len(u) - (Len(s) + 1) + 1) : a[i] = u[Len(s) + 1 + i - 1]
    BY <1>1, <1>2, <2>1, SubSeqProperties
  <2>3. Len(a) = Len(t)  BY <1>1, <1>2, <2>2
  <2>4. ASSUME NEW i \in 1..Len(t) PROVE a[i] = u[Len(s) + i]
    <3>1. i \in 1..(Len(u) - (Len(s) + 1) + 1) /\ Len(s) + 1 + i - 1 = Len(s) + i  BY <1>1, <1>2
    <3>. QED BY <2>2, <3>1
  <2>. QED BY <2>2, <2>3, <2>4
<1>4. \A i \in 1..Len(t) : u[Len(s) + i] = t[i]  BY <1>1, <1>2
<1>. HIDE DEF a
<1>5. a = t  BY <1>2, <1>3, <1>4, SeqEqual
<1>. QED BY <1>1, <1>2, <1>5 DEF a, u

\* The marks of a file saved: a CRC for each copy, "changed" between two, what is told of the last.
LEMMA MarksFrom ==
  ASSUME arch \in Archives, e \in Listed, Stored(e)
  PROVE  /\ Len(e.copies) \in Nat \ {0} /\ From(e, 1) = MarksOf(e)
         /\ \A c \in 1..Len(e.copies) :
              /\ HeadIs(From(e, 2 * c - 1), "crc") /\ Tail(From(e, 2 * c - 1)) = From(e, 2 * c)
              /\ c < Len(e.copies) => /\ HeadIs(From(e, 2 * c), "changed")
                                      /\ Tail(From(e, 2 * c)) = From(e, 2 * (c + 1) - 1)
         /\ From(e, 2 * Len(e.copies)) \in NoData \cup {<<"dirty">>, <<"dirty", "ea">>}
<1>. DEFINE n == Len(e.copies)
            S == {"crc", "changed", "dirty", "ea"}
            a == [i \in 1..(2 * n - 1) |-> IF i % 2 = 1 THEN "crc" ELSE "changed"]
            d == IF e.dirty THEN <<"dirty">> ELSE <<>>
            x == IF e.ea = "full" THEN <<"ea">> ELSE <<>>
            s == MarksOf(e)
<1>1. n \in Nat \ {0}
  <2>1. e \in Entries(arch.all)  BY DEF Listed
  <2>2. e.copies # <<>> /\ e.copies \in Seq({"good", "bad", "empty"})
    BY <2>1, ArchivesAreTrees DEF Stored
  <2>. QED BY <2>2
<1>2. s = a \o d \o x  BY DEF MarksOf, Stored
<1>. HIDE DEF n
<1>3. a \in Seq(S) /\ Len(a) = 2 * n - 1 /\ \A i \in 1..(2 * n - 1) : a[i] = IF i % 2 = 1 THEN "crc" ELSE "changed"
  <2>1. 2 * n - 1 \in Nat  BY <1>1
  <2>2. \A i \in 1..(2 * n - 1) : (IF i % 2 = 1 THEN "crc" ELSE "changed") \in S  OBVIOUS
  <2>. QED BY <2>1, <2>2
<1>4. d \o x \in {<<>>, <<"ea">>, <<"dirty">>, <<"dirty", "ea">>} /\ d \o x \in Seq(S)
      /\ d \in Seq(S) /\ x \in Seq(S)
  <2>1. d \in {<<>>, <<"dirty">>} /\ x \in {<<>>, <<"ea">>}  OBVIOUS
  <2>2. /\ <<>> \in Seq(S) /\ <<"ea">> \in Seq(S) /\ <<"dirty">> \in Seq(S) /\ <<"dirty", "ea">> \in Seq(S)
    OBVIOUS
  <2>3. /\ <<>> \o <<>> = <<>> /\ <<>> \o <<"ea">> = <<"ea">> /\ <<"dirty">> \o <<>> = <<"dirty">>
        /\ <<"dirty">> \o <<"ea">> = <<"dirty", "ea">>
    <3>2. \A q \in Seq(S) : q \o <<>> = q /\ <<>> \o q = q  BY ConcatEmptySeq
    <3>3. <<"dirty">> \o <<"ea">> = <<"dirty", "ea">>
      <4>. DEFINE q == <<"dirty">> \o <<"ea">>
      <4>1. q \in Seq(S) /\ Len(q) = 2 /\ q[1] = "dirty" /\ q[2] = "ea"
        BY <2>2, ConcatProperties
      <4>. HIDE DEF q
      <4>2. \A i \in 1..2 : q[i] = <<"dirty", "ea">>[i]  BY <4>1
      <4>3. Len(<<"dirty", "ea">>) = 2  OBVIOUS
      <4>4. q = <<"dirty", "ea">>  BY <2>2, <4>1, <4>2, <4>3, SeqEqual
      <4>. QED BY <4>4 DEF q
    <3>. QED BY <2>2, <3>2, <3>3
  <2>. HIDE DEF a, d, x, S
  <2>. QED BY <2>1, <2>2, <2>3
<1>. HIDE DEF a, d, x
<1>5. s = a \o (d \o x)  BY <1>2, <1>3, <1>4, ConcatAssociative
<1>. DEFINE t == d \o x
<1>. HIDE DEF t, s, S
<1>6. /\ SubSeq(s, 2 * n, Len(s)) = t /\ s \in Seq(S) /\ Len(s) = 2 * n - 1 + Len(t) /\ Len(t) \in Nat
      /\ \A i \in 1..(2 * n - 1) : s[i] = IF i % 2 = 1 THEN "crc" ELSE "changed"
  <2>1. t \in Seq(S) /\ s = a \o t  BY <1>4, <1>5 DEF t
  <2>2. /\ SubSeq(s, Len(a) + 1, Len(s)) = t /\ s \in Seq(S) /\ Len(s) = Len(a) + Len(t)
        /\ \A i \in 1..Len(a) : s[i] = a[i]
    BY <1>3, <2>1, LeftOfConcat
  <2>3. Len(a) + 1 = 2 * n  BY <1>1, <1>3
  <2>. QED BY <1>1, <1>3, <2>1, <2>2, <2>3, LenProperties
<1>7. ASSUME NEW c \in 1..n
      PROVE  /\ HeadIs(From(e, 2 * c - 1), "crc") /\ Tail(From(e, 2 * c - 1)) = From(e, 2 * c)
             /\ c < n => /\ HeadIs(From(e, 2 * c), "changed")
                         /\ Tail(From(e, 2 * c)) = From(e, 2 * (c + 1) - 1)
  <2>1. /\ 2 * c - 1 \in 1..Len(s) /\ 2 * c - 1 \in 1..(2 * n - 1) /\ (2 * c - 1) % 2 = 1 /\ 2 * c - 1 + 1 = 2 * c
    BY <1>1, <1>6
  <2>2. c < n => /\ 2 * c \in 1..Len(s) /\ 2 * c \in 1..(2 * n - 1) /\ (2 * c) % 2 # 1 /\ 2 * c + 1 = 2 * (c + 1) - 1
    BY <1>1, <1>6
  <2>3. s[2 * c - 1] = "crc" /\ (c < n => s[2 * c] = "changed")  BY <1>6, <2>1, <2>2
  <2>4. /\ SubSeq(s, 2 * c - 1, Len(s)) # <<>> /\ Head(SubSeq(s, 2 * c - 1, Len(s))) = s[2 * c - 1]
        /\ Tail(SubSeq(s, 2 * c - 1, Len(s))) = SubSeq(s, 2 * c - 1 + 1, Len(s))
    BY <1>6, <2>1, LeftOf
  <2>5. c < n => /\ SubSeq(s, 2 * c, Len(s)) # <<>> /\ Head(SubSeq(s, 2 * c, Len(s))) = s[2 * c]
                 /\ Tail(SubSeq(s, 2 * c, Len(s))) = SubSeq(s, 2 * c + 1, Len(s))
    BY <1>6, <2>2, LeftOf
  <2>6. \A k : From(e, k) = SubSeq(s, k, Len(s))  BY DEF From, s
  <2>7. HeadIs(From(e, 2 * c - 1), "crc") /\ Tail(From(e, 2 * c - 1)) = From(e, 2 * c)
    BY <2>1, <2>3, <2>4, <2>6 DEF HeadIs
  <2>8. c < n => HeadIs(From(e, 2 * c), "changed") /\ Tail(From(e, 2 * c)) = From(e, 2 * (c + 1) - 1)
    BY <2>2, <2>3, <2>5, <2>6 DEF HeadIs
  <2>. QED BY <2>7, <2>8
<1>8. From(e, 1) = s
  <2>1. SubSeq(s, 1, Len(s)) = s  BY <1>6, SubSeqFull
  <2>. QED BY <2>1 DEF From, s
<1>9. From(e, 2 * n) \in NoData \cup {<<"dirty">>, <<"dirty", "ea">>}
  <2>1. From(e, 2 * n) = t  BY <1>6 DEF From, s
  <2>. QED BY <1>4, <2>1 DEF t, NoData
<1>. QED BY <1>1, <1>7, <1>8, <1>9 DEF n, s

\* Before a copy the next mark is its CRC, or there are no data.
LEMMA ReadyIs ==
  ASSUME arch \in Archives, e \in Listed, NEW marks, NEW c, Ready(marks, c)
  PROVE  /\ HeadIs(marks, "crc") => Past(Tail(marks), c)
         /\ HeadIs(marks, "ea") => Ready(Tail(marks), c)
         /\ ~ HeadIs(marks, "changed") /\ ~ HeadIs(marks, "dirty")
<1>1. CASE marks \in NoData
  <2>1. Tail(<<"ea">>) = <<>> /\ Head(<<"ea">>) = "ea"  OBVIOUS
  <2>. QED BY <1>1, <2>1 DEF NoData, HeadIs, Ready
<1>2. CASE Stored(e) /\ c \in 1..Len(e.copies) /\ marks = From(e, 2 * c - 1)
  <2>1. HeadIs(marks, "crc") /\ Tail(marks) = From(e, 2 * c) /\ Len(e.copies) \in Nat
    BY <1>2, MarksFrom
  <2>2. CASE c = Len(e.copies)
    <3>1. From(e, 2 * c) \in NoData \cup {<<"dirty">>, <<"dirty", "ea">>}  BY <1>2, <2>2, MarksFrom
    <3>2. Past(Tail(marks), c)  BY <1>2, <2>1, <2>2, <3>1 DEF Past
    <3>. QED BY <2>1, <3>2 DEF HeadIs
  <2>3. CASE c # Len(e.copies)
    <3>1. c \in 1..(Len(e.copies) - 1)  BY <1>2, <2>1, <2>3
    <3>. QED BY <1>2, <2>1, <3>1 DEF Past, HeadIs
  <2>. QED BY <2>2, <2>3
<1>. QED BY <1>1, <1>2 DEF Ready

\* After a copy the next one follows, or it was the last.
LEMMA PastIs ==
  ASSUME arch \in Archives, e \in Listed, NEW marks, NEW c, Past(marks, c)
  PROVE  /\ c = Len(e.copies) \/ HeadIs(marks, "changed")
         /\ HeadIs(marks, "changed") => Ready(Tail(marks), c + 1)
         /\ HeadIs(marks, "dirty") => Tail(marks) \in NoData
         /\ HeadIs(marks, "ea") => Past(Tail(marks), c)
<1>0. /\ <<"dirty">> # <<>> /\ Head(<<"dirty">>) = "dirty" /\ Tail(<<"dirty">>) = <<>>
      /\ <<"dirty", "ea">> # <<>> /\ Head(<<"dirty", "ea">>) = "dirty" /\ Tail(<<"dirty", "ea">>) = <<"ea">>
      /\ <<"ea">> # <<>> /\ Head(<<"ea">>) = "ea" /\ Tail(<<"ea">>) = <<>>
  OBVIOUS
<1>1. CASE c \in 1..(Len(e.copies) - 1) /\ marks = From(e, 2 * c)
  <2>1. Stored(e) /\ Len(e.copies) \in Nat  BY MarksFrom DEF Past
  <2>2. c \in 1..Len(e.copies) /\ c < Len(e.copies) /\ c + 1 \in 1..Len(e.copies)  BY <1>1, <2>1
  <2>3. HeadIs(marks, "changed") /\ Tail(marks) = From(e, 2 * (c + 1) - 1)  BY <1>1, <2>1, <2>2, MarksFrom
  <2>. QED BY <2>1, <2>2, <2>3 DEF Ready, HeadIs
<1>2. CASE c = Len(e.copies) /\ marks \in NoData \cup {<<"dirty">>, <<"dirty", "ea">>}
  <2>1. ~ HeadIs(marks, "changed")  BY <1>0, <1>2 DEF HeadIs, NoData
  <2>2. HeadIs(marks, "dirty") => Tail(marks) \in NoData  BY <1>0, <1>2 DEF HeadIs, NoData
  <2>3. HeadIs(marks, "ea") => Tail(marks) = <<>>  BY <1>0, <1>2 DEF HeadIs, NoData
  <2>. QED BY <1>2, <2>1, <2>2, <2>3 DEF Past, NoData
<1>. QED BY <1>1, <1>2 DEF Past
-----------------------------------------------------------------------------
(* make_file. *)

\* A name is made in the directory written in.
LEMMA RootedWith ==
  ASSUME NEW p, At(p), NEW m, Sound(m), Framed(p, m), p \notin DOMAIN m.disk, cur \in DOMAIN m.disk,
         NEW d, DOMAIN d = DOMAIN m.disk \cup {p}, \A q \in DOMAIN m.disk : d[q] = m.disk[q],
         NEW i, SameKinds(m.ino, i)
  PROVE  Rooted(d, i)
<1>. SUFFICES ASSUME NEW q \in DOMAIN d
              PROVE  /\ q \in Seq(Names)
                     /\ \A k \in 0..(Len(q) - 1) : SubSeq(q, 1, k) \in DOMAIN d /\ i[d[SubSeq(q, 1, k)]].type = "dir"
  BY DEF Rooted
<1>1. q \in Seq(Names)  BY DEF At, Framed, Rooted
<1>2. ASSUME NEW x \in DOMAIN m.disk, m.ino[m.disk[x]].type = "dir"
      PROVE  x \in DOMAIN d /\ i[d[x]].type = "dir"
  <2>1. m.disk[x] \in DOMAIN m.ino  BY DEF Sound
  <2>2. i[m.disk[x]].type = m.ino[m.disk[x]].type  BY <2>1 DEF SameKinds
  <2>. QED BY <1>2, <2>2
<1>3. ASSUME NEW k \in 0..(Len(q) - 1), q # p
      PROVE  SubSeq(q, 1, k) \in DOMAIN m.disk /\ m.ino[m.disk[SubSeq(q, 1, k)]].type = "dir"
  BY <1>3 DEF Framed, Rooted
<1>4. ASSUME NEW k \in 0..(Len(q) - 1), q = p
      PROVE  SubSeq(q, 1, k) \in DOMAIN m.disk /\ m.ino[m.disk[SubSeq(q, 1, k)]].type = "dir"
  <2>1. /\ Len(cur) = Len(p) - 1 /\ Len(p) \in Nat /\ Front(p) = cur /\ cur \in Seq(Names)
        /\ SubSeq(cur, 1, k) = SubSeq(p, 1, k)
    BY <1>4, FrontLast DEF At
  <2>2. CASE k = Len(cur)
    <3>1. SubSeq(cur, 1, k) = cur  BY <2>1, <2>2, SubSeqFull
    <3>. QED BY <1>4, <2>1, <3>1, CurIsDir
  <2>3. CASE k # Len(cur)
    <3>1. k \in 0..(Len(cur) - 1)  BY <1>4, <2>1, <2>3
    <3>2. SubSeq(cur, 1, k) \in DOMAIN m.disk /\ m.ino[m.disk[SubSeq(cur, 1, k)]].type = "dir"
      BY <3>1 DEF Framed, Rooted
    <3>. QED BY <1>4, <2>1, <3>2
  <2>. QED BY <2>2, <2>3
<1>. QED BY <1>1, <1>2, <1>3, <1>4

\* An inode is made where nothing is in place.
LEMMA AddedFramed ==
  ASSUME NEW p, At(p), NEW m, Sound(m), Framed(p, m), p \notin DOMAIN m.disk, cur \in DOMAIN m.disk,
         NEW n \in Inodes, n.type = e.type, n.id = e.id, e.type = "file" \/ Fresh(n)
  PROVE  /\ Framed(p, Added(m, p, n)) /\ New(p, Added(m, p, n))
         /\ Added(m, p, n).disk[p] = Len(m.ino) + 1 /\ Len(Added(m, p, n).ino) = Len(m.ino) + 1
         /\ Added(m, p, n).exc = m.exc /\ Added(m, p, n).marks = m.marks
         /\ Added(m, p, n).copy = m.copy /\ Added(m, p, n).corres = m.corres
         /\ Added(m, p, n).res = m.res
         /\ Fresh(n) => Fresh(Added(m, p, n).ino[Len(m.ino) + 1])
<1>. DEFINE i == Append(m.ino, n)
            l == Len(m.ino) + 1
            d == With(m.disk, p, l)
            a == [m EXCEPT !.ino = i, !.disk = d]
<1>1. /\ m.ino \in Seq(Inodes) /\ ino \in Seq(Inodes) /\ Len(ino) \in Nat /\ Len(m.ino) \in Nat
      /\ Len(ino) <= Len(m.ino) /\ l > Len(ino)
  <2>1. m.ino \in Seq(Inodes) /\ ino \in Seq(Inodes)  BY DEF Sound, At, TreeOK
  <2>. QED BY <2>1, LenProperties DEF Framed, SameKinds
<1>2. i \in Seq(Inodes) /\ Len(i) = l /\ i[l] = n /\ \A x \in DOMAIN m.ino : i[x] = m.ino[x] /\ x # l
  BY <1>1
<1>3. /\ DOMAIN d = DOMAIN m.disk \cup {p} /\ d[p] = l /\ \A q \in DOMAIN m.disk : d[q] = m.disk[q]
  BY DEF With
<1>4. /\ a.ino = i /\ a.disk = d /\ a.corres = m.corres /\ a.marks = m.marks /\ a.stack = m.stack
      /\ a.res = m.res /\ a.copy = m.copy /\ a.exc = m.exc
  BY DEF Sound, Fields
<1>5. Sound(a)
  <2>1. \A q \in DOMAIN d : d[q] \in DOMAIN i
    <3>1. DOMAIN i = 1..l /\ DOMAIN m.ino = 1..(l - 1)  BY <1>1, <1>2
    <3>. QED BY <1>1, <1>3, <3>1 DEF Sound
  <2>2. ASSUME Tame PROVE Sited(d, i)
    <3>1. p = e.path /\ e \in Listed  BY <2>2 DEF At, Writes
    <3>2. Sited(m.disk, m.ino)  BY <2>2 DEF Sound
    <3>3. \A q \in DOMAIN m.disk : m.disk[q] \in DOMAIN m.ino  BY DEF Sound
    <3>. HIDE DEF i, d, l
    <3>. QED BY <1>2, <1>3, <3>1, <3>2, <3>3 DEF Sited
  <2>3. Fields \subseteq DOMAIN a  BY DEF Sound, Fields
  <2>. HIDE DEF a, i, d, l
  <2>. QED BY <1>2, <1>4, <2>1, <2>2, <2>3 DEF Sound
<1>. HIDE DEF a, i, d, l
<1>6. SameKinds(m.ino, i) /\ SameKinds(ino, i)
  <2>1. Len(m.ino) <= Len(i) /\ Len(ino) <= Len(i)  BY <1>1, <1>2 DEF l
  <2>2. DOMAIN ino \subseteq DOMAIN m.ino  BY <1>1
  <2>. QED BY <1>2, <2>1, <2>2 DEF SameKinds, Framed
<1>7. Untouched(p, i)
  <2>1. DOMAIN ino \subseteq DOMAIN m.ino  BY <1>1
  <2>. QED BY <1>2, <2>1 DEF Untouched, Framed
<1>8. Made(i)
  <2>1. DOMAIN i = DOMAIN m.ino \cup {l}
    <3>1. DOMAIN i = 1..l /\ DOMAIN m.ino = 1..Len(m.ino)  BY <1>1, <1>2 DEF l
    <3>. QED BY <1>1, <3>1 DEF l
  <2>. QED BY <1>2, <2>1 DEF Made, Framed
<1>9. Elsewhere(p, d)  BY <1>3 DEF Elsewhere, Framed
<1>10. New(p, a)  BY <1>1, <1>3, <1>4 DEF New
<1>11. Rooted(d, i)  BY <1>3, <1>6, RootedWith
<1>12. a.res = "restored" /\ IsDir(e) => DirAt(d, i, p)  BY <1>2, <1>3 DEF DirAt, IsDir
<1>13. e.type = "file" \/ Fresh(i[d[p]])  BY <1>2, <1>3
<1>14. Framed(p, a)
  BY <1>4, <1>6, <1>7, <1>8, <1>9, <1>10, <1>11, <1>12, <1>13 DEF Framed, There
<1>15. Added(m, p, n) = Touch(a, p)  BY DEF Added, Sound, Fields, a, i, d, l
<1>16. Stays(p, a, Touch(a, p)) /\ Framed(p, Touch(a, p)) /\ Touch(a, p).copy = a.copy
  <2>1. Touch(a, p).copy = a.copy  BY <1>5 DEF Touch, Sound, Fields
  <2>. QED BY <1>5, <1>14, <2>1, TouchFramed DEF Stays
<1>17. Fresh(n) => Fresh(Touch(a, p).ino[l])
  <2>1. SameKinds(i, Touch(a, p).ino)  BY <1>4, <1>16 DEF Stays
  <2>2. l \in DOMAIN i  BY <1>1, <1>2 DEF l
  <2>. QED BY <1>2, <2>1, <2>2 DEF SameKinds, Fresh
<1>18. New(p, Touch(a, p))  BY <1>10, <1>16 DEF New, Stays
<1>. QED BY <1>2, <1>3, <1>4, <1>15, <1>16, <1>17, <1>18 DEF Stays, l

\* A step that only passes a mark.
LEMMA MarkFramed ==
  ASSUME NEW p, NEW m, Framed(p, m), NEW r,
         r.ino = m.ino, r.disk = m.disk, r.corres = m.corres, r.copy = m.copy, r.stack = m.stack,
         r.res = m.res, r.exc \in {"none", "range", "abort", "bug", "cancel"},
         \/ Ready(r.marks, r.copy)
         \/ Past(r.marks, r.copy) /\ ~ opts.empty /\ (p \in DOMAIN m.disk => New(p, m))
  PROVE  Framed(p, r)
BY DEF Framed, There, New

\* The CRC of a copy is read when its data were written.
LEMMA ReadCRCFramed ==
  ASSUME NEW p, At(p), NEW m, Sound(m), Framed(p, m), New(p, m), ~ opts.empty, m.exc = "none",
         Ready(m.marks, m.copy), NEW r \in ReadCRC(m, e)
  PROVE  /\ Framed(p, r)
         /\ r.ino = m.ino /\ r.disk = m.disk /\ r.corres = m.corres /\ r.copy = m.copy /\ r.res = m.res
         /\ r.exc \in {"none", "range", "bug"}
         /\ r.exc = "none" => opts.mode = "direct" \/ Past(r.marks, r.copy)
<1>1. CASE opts.mode = "direct" \/ m.marks = <<>> \/ Head(m.marks) # "crc"
  <2>1. r = m \/ r = Raise(m, "range")  BY <1>1 DEF ReadCRC
  <2>2. r = m => opts.mode = "direct" \/ r.exc # "none"  BY <1>1 DEF ReadCRC, Raise, Sound, Fields
  <2>3. Framed(p, r)  BY <2>1, RaiseFramed
  <2>. QED BY <2>1, <2>2, <2>3 DEF Raise, Sound, Fields
<1>2. CASE ~ (opts.mode = "direct" \/ m.marks = <<>> \/ Head(m.marks) # "crc")
  <2>1. Past(Tail(m.marks), m.copy)  BY <1>2, ReadyIs DEF HeadIs, At, Writes
  <2>2. \/ m.sized /\ r = [[m EXCEPT !.marks = Tail(@)] EXCEPT !.exc = "bug"]
        \/ ~ m.sized /\ r = [m EXCEPT !.marks = Tail(@), !.sized = e.copies[m.copy] # "empty"]
    BY <1>2 DEF ReadCRC, Raise
  <2>3. /\ r.ino = m.ino /\ r.disk = m.disk /\ r.corres = m.corres /\ r.copy = m.copy
        /\ r.stack = m.stack /\ r.res = m.res /\ r.marks = Tail(m.marks) /\ r.exc \in {"none", "bug"}
    BY <2>2 DEF Sound, Fields
  <2>4. Framed(p, r)  BY <2>1, <2>3, MarkFramed
  <2>. QED BY <2>1, <2>3, <2>4
<1>. QED BY <1>1, <1>2

\* j is i but for what is last.
ButLast(i, j) == /\ DOMAIN j = DOMAIN i /\ Len(j) = Len(i)
                 /\ \A x \in DOMAIN i : x # Len(i) => j[x] = i[x]

\* The data of the file made are written.
LEMMA WrittenFramed ==
  ASSUME NEW p, At(p), NEW m, Sound(m), Framed(p, m), New(p, m), m.disk[p] = Len(m.ino), e.type = "file",
         NEW n \in Inodes, n.type = e.type, n.id = e.id,
         NEW r, ButLast(m.ino, r.ino), r.ino[Len(m.ino)] = n, r.disk = m.disk, r.corres = m.corres,
         r.marks = m.marks, r.stack = m.stack, r.res = m.res, r.copy = m.copy, r.exc = m.exc
  PROVE  /\ Framed(p, r) /\ New(p, r) /\ r.disk = m.disk /\ r.corres = m.corres /\ r.res = m.res
         /\ r.marks = m.marks /\ r.copy = m.copy /\ r.exc = m.exc /\ r.ino[r.disk[p]] = n
<1>. DEFINE l == Len(m.ino)
            i == r.ino
<1>1. /\ r.ino = i /\ r.disk = m.disk /\ r.corres = m.corres /\ r.marks = m.marks /\ r.stack = m.stack
      /\ r.res = m.res /\ r.copy = m.copy /\ r.exc = m.exc
  OBVIOUS
<1>2. /\ m.ino \in Seq(Inodes) /\ ino \in Seq(Inodes) /\ Len(ino) \in Nat /\ l \in Nat /\ l > Len(ino)
  <2>1. m.ino \in Seq(Inodes) /\ ino \in Seq(Inodes)  BY DEF Sound, At, TreeOK
  <2>2. Len(ino) \in Nat /\ l \in Nat  BY <2>1, LenProperties
  <2>. QED BY <2>1, <2>2 DEF New
<1>3. l \in DOMAIN m.ino /\ DOMAIN i = DOMAIN m.ino /\ Len(i) = Len(m.ino)
      /\ i[l] = n /\ \A x \in DOMAIN m.ino : x # l => i[x] = m.ino[x]
  BY <1>2 DEF ButLast
<1>4. DOMAIN ino \subseteq DOMAIN m.ino /\ l \notin DOMAIN ino  BY <1>2
<1>5. m.ino[l].type = n.type
  BY <1>3, <1>4 DEF Framed, Made
<1>. HIDE DEF i, l
<1>6. SameKinds(ino, i)  BY <1>3, <1>4 DEF Framed, SameKinds
<1>7. Untouched(p, i)  BY <1>3, <1>4 DEF Framed, Untouched
<1>8. Made(i)  BY <1>3, <1>4 DEF Framed, Made
<1>9. \A q \in DOMAIN m.disk : m.disk[q] \in DOMAIN m.ino /\ i[m.disk[q]].type = m.ino[m.disk[q]].type
  BY <1>3, <1>5 DEF Sound
<1>10. Rooted(m.disk, i)  BY <1>9 DEF Framed, Rooted
<1>11. r.res = "restored" /\ IsDir(e) => DirAt(m.disk, i, p)  BY DEF IsDir
<1>12. Framed(p, r)
  BY <1>1, <1>6, <1>7, <1>8, <1>10, <1>11 DEF Framed, There, New
<1>. QED BY <1>1, <1>3, <1>12 DEF New, l

\* The data of a file: all of them, a part, or nothing when that is cancelled.
LEMMA WriteDataFramed ==
  ASSUME NEW p, At(p), NEW m, Sound(m), Framed(p, m), p \notin DOMAIN m.disk, cur \in DOMAIN m.disk,
         e.type = "file", ~ opts.empty, m.exc = "none", Ready(m.marks, m.copy),
         NEW r \in WriteData(m, p, e)
  PROVE  /\ Framed(p, r) /\ Told(p, r) /\ r.corres = m.corres /\ r.res = m.res
         /\ p \in DOMAIN r.disk => New(p, r)
<1>. DEFINE k == IF opts.mode = "direct" THEN Len(e.copies) ELSE m.copy
            n == [Entry(e, 0) EXCEPT !.mtime = Now]
            partial == Added(m, p, n)
            written(x) == [x EXCEPT !.ino[Len(x.ino)] = Entry(e, k)]
<1>0. k \in Nat  BY ListedIs DEF At, Writes, Sound
<1>1. /\ Entry(e, 0) \in Inodes /\ Entry(e, 0).id = e.id /\ Entry(e, 0).type = e.type
      /\ Entry(e, k) \in Inodes /\ Entry(e, k).id = e.id /\ Entry(e, k).type = e.type /\ Entry(e, k).copy = k
  <2>1. \A j \in Nat : Entry(e, j).type = e.type /\ Entry(e, j).copy = j  BY DEF Entry
  <2>. QED BY <1>0, <2>1, EntryIsInode DEF IsDet, At
<1>2. n \in Inodes /\ n.id = e.id /\ n.type = e.type
  <2>1. Now \in Int  BY DEF Now
  <2>. QED BY <1>1, <2>1, Dated DEF Inodes
<1>. HIDE DEF n
<1>3. /\ Sound(partial) /\ Framed(p, partial) /\ New(p, partial) /\ partial.disk[p] = Len(partial.ino)
      /\ partial.exc = "none" /\ partial.marks = m.marks /\ partial.copy = m.copy
      /\ partial.corres = m.corres /\ partial.res = m.res
  BY <1>2, AddedSound, AddedFramed DEF At
<1>. HIDE DEF partial
<1>4. CASE r = Raise(partial, "range")
  <2>1. r.corres = partial.corres /\ r.res = partial.res /\ r.disk = partial.disk /\ r.ino = partial.ino
    BY <1>3, <1>4 DEF Raise, Sound, Fields
  <2>. QED BY <1>3, <1>4, <2>1, RaiseFramed DEF New
<1>5. CASE r \in Fails(Touch(m, p), "cancel")
  <2>. DEFINE t == Touch(m, p)
  <2>1. Sound(t) /\ Stays(p, m, t)  BY TouchSound, TouchFramed
  <2>. HIDE DEF t
  <2>2. ~ New(p, t)  BY <2>1 DEF Stays, New
  <2>3. r.corres = t.corres /\ r.res = t.res /\ r.disk = t.disk
    BY <1>5, <2>1 DEF Fails, Sound, Fields, t
  <2>. QED BY <1>5, <2>1, <2>2, <2>3, FailsFramed DEF Stays, t
<1>6. CASE r \in Then(ReadCRC(partial, e),
                      LAMBDA x : IF e.copies[k] = "bad" THEN {Raise(x, "range")} ELSE {written(x)})
  <2>. HIDE DEF k, written
  <2>1. PICK x \in ReadCRC(partial, e) :
          \/ x.exc # "none" /\ r = x
          \/ x.exc = "none" /\ (r = Raise(x, "range") \/ r = written(x))
    BY <1>6 DEF Then
  <2>2. /\ Sound(x) /\ Framed(p, x) /\ x.ino = partial.ino /\ x.disk = partial.disk
        /\ x.corres = m.corres /\ x.res = m.res /\ x.copy = m.copy /\ x.exc \in {"none", "range", "bug"}
        /\ x.exc = "none" => opts.mode = "direct" \/ Past(x.marks, x.copy)
    BY <1>3, ReadCRCSound, ReadCRCFramed
  <2>3. New(p, x) /\ x.disk[p] = Len(x.ino)  BY <1>3, <2>2 DEF New
  <2>4. CASE x.exc # "none" /\ r = x  BY <2>2, <2>3, <2>4 DEF Told
  <2>5. CASE x.exc = "none" /\ r = Raise(x, "range")
    <3>1. r.corres = x.corres /\ r.res = x.res /\ r.disk = x.disk
      BY <2>2, <2>5 DEF Raise, Sound, Fields
    <3>. QED BY <2>2, <2>3, <2>5, <3>1, RaiseFramed DEF New
  <2>6. CASE x.exc = "none" /\ r = written(x)
    <3>1. /\ Framed(p, r) /\ New(p, r) /\ r.disk = x.disk /\ r.corres = x.corres /\ r.res = x.res
          /\ r.marks = x.marks /\ r.copy = x.copy /\ r.exc = x.exc /\ r.ino[r.disk[p]] = Entry(e, k)
      <4>1. /\ r.ino = [x.ino EXCEPT ![Len(x.ino)] = Entry(e, k)] /\ r.disk = x.disk /\ r.corres = x.corres
            /\ r.marks = x.marks /\ r.stack = x.stack /\ r.res = x.res /\ r.copy = x.copy /\ r.exc = x.exc
        BY <2>2, <2>6 DEF written, Sound, Fields
      <4>2. x.ino \in Seq(Inodes)  BY <2>2 DEF Sound
      <4>3. ButLast(x.ino, r.ino)  BY <4>1, <4>2 DEF ButLast
      <4>4. r.ino[Len(x.ino)] = Entry(e, k)
        <5>1. Len(x.ino) \in DOMAIN x.ino  BY <2>2, <2>3, <4>2 DEF New, Sound
        <5>. QED BY <4>1, <5>1
      <4>5. /\ Sound(x) /\ Framed(p, x) /\ New(p, x) /\ x.disk[p] = Len(x.ino)
            /\ ButLast(x.ino, r.ino) /\ r.ino[Len(x.ino)] = Entry(e, k)
        BY <1>1, <2>2, <2>3, <4>1, <4>3, <4>4
      <4>6. Entry(e, k) \in Inodes /\ Entry(e, k).id = e.id /\ Entry(e, k).type = e.type
        BY <1>1
      <4>7. /\ r.disk = x.disk /\ r.corres = x.corres
            /\ r.marks = x.marks /\ r.stack = x.stack /\ r.res = x.res /\ r.copy = x.copy /\ r.exc = x.exc
        BY <4>1
      <4>. QED BY <4>5, <4>6, <4>7, WrittenFramed
    <3>2. k = Len(e.copies) => Fresh(Entry(e, k))  BY <1>1 DEF Fresh, At, Writes
    <3>3. k = Len(e.copies) \/ HeadIs(r.marks, "changed")
      BY <2>2, <2>6, <3>1, PastIs DEF k, At, Writes
    <3>. QED BY <2>2, <2>6, <3>1, <3>2, <3>3 DEF Told
  <2>. QED BY <2>1, <2>4, <2>5, <2>6
<1>. QED BY <1>4, <1>5, <1>6 DEF WriteData, n, partial

\* Where nothing was in place, there is a new inode, or a link to what is elsewhere.
Gone(p, m) == p \in DOMAIN m.disk => \/ New(p, m)
                                     \/ \E t \in DOMAIN disk : t # p /\ m.disk[p] = disk[t]
\* The EA of an inode made are not restored yet.
Owed(p, m) == m.exc = "none" /\ New(p, m) => ~ EADone(m, e)

\* An inode is made.
LEMMA CreateFramed ==
  ASSUME NEW p, At(p), NEW m, Sound(m), Framed(p, m), p \notin DOMAIN m.disk, ~ IsDet(e),
         ~ opts.empty, m.exc = "none", Ready(m.marks, m.copy), ~ e.hard \/ e.etiq \notin DOMAIN m.corres,
         NEW r \in Create(m, p, e)
  PROVE  /\ Framed(p, r) /\ Told(p, r) /\ Owed(p, r) /\ r.res = m.res
         /\ p \in DOMAIN r.disk => New(p, r)
<1>. DEFINE made == IF e.type = "file" THEN WriteData(m, p, e) ELSE {Added(m, p, Entry(e, 1))}
            kept(x) == IF e.hard /\ e.etiq \notin DOMAIN m.corres
                       THEN [x EXCEPT !.corres = With(@, e.etiq, [path |-> p, ea |-> FALSE])] ELSE x
<1>0. Front(p) = cur /\ ~ New(p, m)  BY DEF At, New
<1>1. CASE cur \notin DOMAIN m.disk
  <2>1. r = Raise(m, "range")  BY <1>0, <1>1 DEF Create
  <2>2. r.disk = m.disk /\ r.res = m.res /\ r.ino = m.ino  BY <2>1 DEF Raise, Sound, Fields
  <2>. QED BY <2>1, <2>2, RaiseFramed, <1>0 DEF Owed, New
<1>2. CASE r \in Fails(m, "range") \/ r \in Fails(m, "abort")
  <2>1. Framed(p, r) /\ Told(p, r)  BY <1>0, <1>2, FailsFramed
  <2>2. r.disk = m.disk /\ r.res = m.res /\ r.ino = m.ino  BY <1>2 DEF Fails, Sound, Fields
  <2>. QED BY <1>0, <2>1, <2>2 DEF Owed, New
<1>3. CASE cur \in DOMAIN m.disk /\ r \in Then(made, LAMBDA x : {kept(x)})
  <2>1. ASSUME NEW x \in made
        PROVE  /\ Sound(x) /\ Framed(p, x) /\ Told(p, x) /\ x.res = m.res /\ x.corres = m.corres
               /\ p \in DOMAIN x.disk => New(p, x)
    <3>1. CASE e.type = "file"  BY <1>3, <2>1, <3>1, WriteDataSound, WriteDataFramed DEF At
    <3>2. CASE e.type # "file"
      <4>1. x = Added(m, p, Entry(e, 1))  BY <2>1, <3>2
      <4>2. Entry(e, 1) \in Inodes /\ Entry(e, 1).id = e.id /\ Entry(e, 1).type = e.type
        BY EntryIsInode DEF Entry, At
      <4>3. Fresh(Entry(e, 1))
        <5>1. e \in Entries(arch.all) /\ arch \in Archives  BY DEF At, Writes, Listed
        <5>2. e.type \in {"dir", "file", "detruit"} /\ (e.type = "dir" => Len(e.copies) = 1)
          BY <5>1, ArchivesAreTrees
        <5>3. Len(e.copies) = 1  BY <3>2, <5>2 DEF IsDet
        <5>4. Entry(e, 1).copy = 1 /\ Entry(e, 1).id = e.id  BY DEF Entry
        <5>. QED BY <5>3, <5>4 DEF Fresh, At, Writes
      <4>4. Sound(x)  BY <4>1, <4>2, AddedSound DEF At
      <4>5. /\ Framed(p, x) /\ New(p, x) /\ x.disk[p] = Len(m.ino) + 1 /\ x.res = m.res
            /\ x.corres = m.corres /\ x.exc = m.exc
            /\ Fresh(Entry(e, 1)) => Fresh(x.ino[Len(m.ino) + 1])
        <5>. HIDE DEF made, kept
        <5>1. cur \in DOMAIN m.disk  BY <1>3
        <5>. QED BY <4>1, <4>2, <4>3, <5>1, AddedFramed
      <4>. QED BY <4>3, <4>4, <4>5 DEF Told
    <3>. QED BY <3>1, <3>2
  <2>. HIDE DEF made, kept
  <2>2. PICK x \in made : \/ x.exc # "none" /\ r = x
                          \/ x.exc = "none" /\ r = kept(x)
    BY <1>3 DEF Then
  <2>3. CASE x.exc # "none" /\ r = x  BY <2>1, <2>3 DEF Owed
  <2>4. CASE x.exc = "none" /\ r = kept(x) /\ ~ e.hard
    BY <2>1, <2>4 DEF Owed, EADone, kept
  <2>5. CASE x.exc = "none" /\ r = kept(x) /\ e.hard
    <3>. DEFINE c == With(x.corres, e.etiq, [path |-> p, ea |-> FALSE])
    <3>1. r = [x EXCEPT !.corres = c]  BY <2>5 DEF kept
    <3>2. c[e.etiq].ea = FALSE  BY DEF With
    <3>3. Links(p, c)  BY <2>1, LinksWith DEF Framed
    <3>. HIDE DEF c
    <3>4. /\ Framed(p, r) /\ r.corres = c /\ r.disk = x.disk /\ r.res = x.res /\ r.ino = x.ino
          /\ (Told(p, x) => Told(p, r))
      BY <2>1, <3>1, <3>3, CorresFramed
    <3>. QED BY <2>1, <3>2, <3>4 DEF Owed, EADone, New
  <2>. QED BY <2>2, <2>3, <2>4, <2>5
<1>. QED BY <1>0, <1>1, <1>2, <1>3 DEF Create

\* A name is linked to the first link.
LEMMA LinkFramed ==
  ASSUME NEW p, At(p), NEW m, Sound(m), Framed(p, m), p \notin DOMAIN m.disk, cur \in DOMAIN m.disk,
         e.hard, e.etiq \in DOMAIN m.corres, Len(m.ino) = Len(ino), Ready(m.marks, m.copy),
         NEW t, t = m.corres[e.etiq].path, t \in DOMAIN m.disk,
         NEW r, r = Touch([m EXCEPT !.disk = With(@, p, m.disk[t])], p)
  PROVE  Framed(p, r) /\ ~ New(p, r) /\ Gone(p, r) /\ r.res = m.res
<1>. DEFINE d == With(m.disk, p, m.disk[t])
            l == [m EXCEPT !.disk = d]
<1>1. /\ l.ino = m.ino /\ l.disk = d /\ l.corres = m.corres /\ l.marks = m.marks /\ l.stack = m.stack
      /\ l.res = m.res /\ l.copy = m.copy /\ l.exc = m.exc
  BY DEF Sound, Fields
<1>2. /\ DOMAIN d = DOMAIN m.disk \cup {p} /\ d[p] = m.disk[t] /\ \A q \in DOMAIN m.disk : d[q] = m.disk[q]
  BY DEF With
<1>3. Sound(l)  BY LinkSound DEF At
<1>4. t # p /\ t \in DOMAIN disk /\ m.disk[t] = disk[t] /\ e.etiq \in DOMAIN corres /\ corres[e.etiq].path = t
  BY DEF Framed, Links, Elsewhere
<1>5. LinkedTo(d[p])  BY <1>2, <1>4 DEF LinkedTo
<1>6. ~ IsDir(e)
  <2>1. e \in Entries(arch.all) /\ arch \in Archives  BY DEF At, Writes, Listed
  <2>2. e.type = "file"  BY <2>1, ArchivesAreTrees
  <2>. QED BY <2>2 DEF IsDir
<1>7. m.disk[t] \in DOMAIN m.ino /\ ~ (m.disk[t] > Len(ino))
  <2>1. m.disk[t] \in DOMAIN m.ino /\ m.ino \in Seq(Inodes)  BY DEF Sound
  <2>2. m.disk[t] \in 1..Len(ino) /\ Len(m.ino) \in Nat  BY <2>1, LenProperties
  <2>. QED BY <2>1, <2>2
<1>. HIDE DEF l, d
<1>8. SameKinds(m.ino, m.ino)  BY DEF SameKinds, Sound
<1>9. Rooted(d, m.ino)  BY <1>2, <1>8, RootedWith
<1>10. Elsewhere(p, d)  BY <1>2 DEF Framed, Elsewhere
<1>11. There(p, l) /\ ~ New(p, l)  BY <1>1, <1>2, <1>5, <1>7 DEF There, New
<1>12. Ready(l.marks, l.copy)  BY <1>1
<1>13. Framed(p, l)
  BY <1>1, <1>6, <1>9, <1>10, <1>11, <1>12 DEF Framed
<1>14. Stays(p, l, r)  BY <1>3, <1>13, TouchFramed DEF l, d
<1>. QED BY <1>1, <1>2, <1>4, <1>11, <1>13, <1>14 DEF Stays, Gone, New

\* make_file: linked to the first link, or made.
LEMMA MakeFileFramed ==
  ASSUME NEW p, At(p), NEW m, Sound(m), Framed(p, m), p \notin DOMAIN m.disk, ~ IsDet(e),
         ~ opts.empty, m.exc = "none", Ready(m.marks, m.copy), Len(m.ino) = Len(ino),
         NEW r \in MakeFile(m, p, e)
  PROVE  Framed(p, r) /\ Told(p, r) /\ Owed(p, r) /\ Gone(p, r) /\ r.res = m.res
<1>. DEFINE t == m.corres[e.etiq].path
            c == Without(m.corres, {e.etiq})
            forget == [m EXCEPT !.corres = c]
            failed(x) == [x EXCEPT !.faults = @ - 1]
            linked == Touch([m EXCEPT !.disk = With(@, p, m.disk[t])], p)
<1>1. \/ r \in Create(m, p, e) /\ (~ e.hard \/ e.etiq \notin DOMAIN m.corres)
      \/ r = m \/ r = failed(m)
      \/ r \in Create(forget, p, e) \/ r \in Create(failed(forget), p, e)
      \/ /\ r = linked /\ e.hard /\ e.etiq \in DOMAIN m.corres
         /\ t \in DOMAIN m.disk /\ Front(p) \in DOMAIN m.disk
  <2>1. CASE ~ e.hard \/ e.etiq \notin DOMAIN m.corres  BY <2>1 DEF MakeFile
  <2>2. CASE e.hard /\ e.etiq \in DOMAIN m.corres /\ (t \notin DOMAIN m.disk \/ Front(p) \notin DOMAIN m.disk)
    BY <2>2 DEF MakeFile
  <2>3. CASE /\ e.hard /\ e.etiq \in DOMAIN m.corres
             /\ t \in DOMAIN m.disk /\ Front(p) \in DOMAIN m.disk /\ m.ino[m.disk[t]].type = "dir"
    BY <2>3 DEF MakeFile
  <2>4. CASE /\ e.hard /\ e.etiq \in DOMAIN m.corres
             /\ t \in DOMAIN m.disk /\ Front(p) \in DOMAIN m.disk /\ m.ino[m.disk[t]].type # "dir"
    BY <2>4 DEF MakeFile
  <2>. QED BY <2>1, <2>2, <2>3, <2>4
<1>2. ~ New(p, m) /\ Front(p) = cur  BY DEF New, At
<1>3. /\ Framed(p, failed(m)) /\ failed(m).disk = m.disk /\ failed(m).ino = m.ino
      /\ failed(m).res = m.res /\ failed(m).exc = "none"
  <2>1. /\ failed(m).disk = m.disk /\ failed(m).ino = m.ino /\ failed(m).corres = m.corres
        /\ failed(m).marks = m.marks /\ failed(m).copy = m.copy /\ failed(m).stack = m.stack
        /\ failed(m).res = m.res /\ failed(m).exc = m.exc
    BY DEF Sound, Fields
  <2>. HIDE DEF failed
  <2>. QED BY <2>1, FieldFramed
<1>4. ASSUME NEW f, f = forget \/ f = failed(forget)
      PROVE  /\ Sound(f) /\ Framed(p, f) /\ f.disk = m.disk /\ f.res = m.res /\ f.exc = "none"
             /\ Ready(f.marks, f.copy) /\ e.etiq \notin DOMAIN f.corres
  <2>1. /\ f.disk = m.disk /\ f.ino = m.ino /\ f.corres = c
        /\ f.marks = m.marks /\ f.copy = m.copy /\ f.stack = m.stack
        /\ f.res = m.res /\ f.exc = m.exc
    BY <1>4 DEF Sound, Fields
  <2>2. Links(p, c) /\ e.etiq \notin DOMAIN c  BY LinksWithout DEF Framed, Without
  <2>3. Sound(f)
    <3>1. Sound(forget)  BY ForgetSound
    <3>. HIDE DEF forget
    <3>. QED BY <1>4, <3>1, FaultsSound
  <2>. HIDE DEF c, forget, failed
  <2>4. Framed(p, f)  BY <2>1, <2>2 DEF Framed, There, New
  <2>. QED BY <2>1, <2>2, <2>3, <2>4
<1>. HIDE DEF forget, failed, linked, t
<1>5. CASE r = m \/ r = failed(m)
  BY <1>2, <1>3, <1>5 DEF Told, Owed, Gone, New
<1>6. CASE r \in Create(forget, p, e) \/ r \in Create(failed(forget), p, e)
  <2>1. PICK f : (f = forget \/ f = failed(forget)) /\ r \in Create(f, p, e)  BY <1>6
  <2>. QED BY <1>4, <2>1, CreateFramed DEF Gone
<1>7. CASE r \in Create(m, p, e) /\ (~ e.hard \/ e.etiq \notin DOMAIN m.corres)
  BY <1>7, CreateFramed DEF Gone
<1>8. CASE /\ r = linked /\ e.hard /\ e.etiq \in DOMAIN m.corres
           /\ t \in DOMAIN m.disk /\ Front(p) \in DOMAIN m.disk
  <2>1. Framed(p, r) /\ ~ New(p, r) /\ Gone(p, r) /\ r.res = m.res
    BY <1>2, <1>8, LinkFramed DEF linked, t
  <2>2. r.exc = "none"  BY <1>8 DEF linked, Touch, Sound, Fields
  <2>. QED BY <2>1, <2>2 DEF Told, Owed
<1>. QED BY <1>1, <1>5, <1>6, <1>7, <1>8

\* A directory that is there once it was made is one.
LEMMA DirMade ==
  ASSUME NEW p, At(p), NEW m, Sound(m), Framed(p, m), p \notin DOMAIN m.disk, IsDir(e),
         ~ opts.empty, m.exc = "none", Ready(m.marks, m.copy), NEW r \in MakeFile(m, p, e)
  PROVE  DirAt(r.disk, r.ino, p)
<1>1. ~ e.hard /\ ~ IsDet(e)
  <2>1. e \in Entries(arch.all) /\ arch \in Archives  BY DEF At, Writes, Listed
  <2>2. e.hard => e.type = "file"  BY <2>1, ArchivesAreTrees
  <2>. QED BY <2>2 DEF IsDir, IsDet
<1>2. r \in Create(m, p, e)  BY <1>1 DEF MakeFile
<1>3. Sound(r) /\ Framed(p, r) /\ (p \in DOMAIN r.disk => New(p, r))
  BY <1>1, <1>2, CreateSound, CreateFramed DEF At
<1>. SUFFICES ASSUME p \in DOMAIN r.disk PROVE r.ino[r.disk[p]].type = "dir"
  BY DEF DirAt
<1>4. r.disk[p] \in DOMAIN r.ino /\ r.disk[p] \notin DOMAIN ino
  <2>1. r.disk[p] > Len(ino) /\ r.disk[p] \in DOMAIN r.ino /\ ino \in Seq(Inodes)
    BY <1>3 DEF New, Sound, At, TreeOK
  <2>. QED BY <2>1
<1>. QED BY <1>3, <1>4 DEF Framed, Made, IsDir
-----------------------------------------------------------------------------
(* EA. *)

\* What is left of the tree by a step that does not end in an error, or does.
EAStep(p, m, r) ==
  /\ Framed(p, r) /\ Told(p, r) /\ Said(p, r)
  /\ r.disk = m.disk /\ Len(r.ino) = Len(m.ino) /\ r.res = m.res

\* The EA of the entry are read.
LEMMA GetEAFramed ==
  ASSUME NEW p, At(p), NEW m, Sound(m), Framed(p, m), Told(p, m), Said(p, m), m.exc = "none",
         NEW r \in GetEA(m, e)
  PROVE  EAStep(p, m, r) /\ r.ino = m.ino /\ r.corres = m.corres
<1>1. CASE r = m  BY <1>1 DEF EAStep
<1>2. CASE r = Raise(m, "range")
  BY <1>2, RaiseFramed DEF EAStep, Raise, Sound, Fields
<1>3. CASE HeadIs(m.marks, "ea") /\ r = [m EXCEPT !.marks = Tail(@), !.eas = @ \cup {e.id}]
  <2>1. /\ r.disk = m.disk /\ r.ino = m.ino /\ r.corres = m.corres /\ r.marks = Tail(m.marks)
        /\ r.copy = m.copy /\ r.stack = m.stack /\ r.res = m.res /\ r.exc = m.exc
    BY <1>3 DEF Sound, Fields
  <2>2. \/ Ready(r.marks, r.copy)
        \/ Past(r.marks, r.copy) /\ ~ opts.empty /\ (p \in DOMAIN m.disk => New(p, m))
    <3>1. CASE Ready(m.marks, m.copy)  BY <1>3, <2>1, <3>1, ReadyIs DEF At, Writes
    <3>2. CASE Past(m.marks, m.copy) /\ ~ opts.empty /\ (p \in DOMAIN m.disk => New(p, m))
      BY <1>3, <2>1, <3>2, PastIs DEF At, Writes
    <3>. QED BY <3>1, <3>2 DEF Framed
  <2>3. Framed(p, r)
    <3>1. r.exc \in {"none", "range", "abort", "bug", "cancel"}  BY <2>1
    <3>. QED BY <2>1, <2>2, <3>1, MarkFramed
  <2>4. ~ HeadIs(m.marks, "changed")  BY <1>3 DEF HeadIs
  <2>5. Told(p, r) /\ Said(p, r)  BY <2>1, <2>4 DEF Told, Said, New
  <2>. QED BY <2>1, <2>3, <2>5 DEF EAStep
<1>. QED BY <1>1, <1>2, <1>3 DEF GetEA, HeadIs

\* That EA are done is recorded.
LEMMA RecordFramed ==
  ASSUME NEW p, At(p), NEW m, Sound(m), Framed(p, m), Told(p, m), Said(p, m), NEW done
  PROVE  /\ EAStep(p, m, Record(m, p, e, done)) /\ Record(m, p, e, done).exc = m.exc
         /\ Record(m, p, e, done).ino = m.ino
<1>1. CASE ~ e.hard  BY <1>1 DEF Record, EAStep
<1>2. CASE e.hard
  <2>. DEFINE q == IF e.etiq \in DOMAIN m.corres THEN m.corres[e.etiq].path ELSE p
              c == With(m.corres, e.etiq, [path |-> q, ea |-> done])
  <2>1. q = p \/ (e.etiq \in DOMAIN m.corres /\ q = m.corres[e.etiq].path)  OBVIOUS
  <2>2. Record(m, p, e, done) = [m EXCEPT !.corres = c]
    BY <1>2 DEF Record, Sound, Fields
  <2>. HIDE DEF q
  <2>3. Links(p, c)  BY <2>1, LinksWith DEF Framed
  <2>. HIDE DEF c
  <2>. QED BY <2>2, <2>3, CorresFramed DEF EAStep
<1>. QED BY <1>1, <1>2

\* raw_set_ea: what is given is set, unless that was done for another link.
LEMMA RawSetEAFramed ==
  ASSUME NEW p, At(p), NEW m, Sound(m), Framed(p, m), Told(p, m), Said(p, m), m.exc = "none",
         NEW given \in SUBSET {"archive", "own"}, NEW r \in RawSetEA(m, p, e, given)
  PROVE  /\ EAStep(p, m, r)
         /\ r.exc = "none" /\ ~ EADone(m, e) => given \subseteq r.ino[r.disk[p]].eas
<1>. DEFINE s == Record(m, p, e, TRUE)
            eas == s.ino[s.disk[p]].eas \cup given
            t == SetEA(s, p, eas)
<1>1. Sound(s) /\ EAStep(p, m, s) /\ s.exc = "none"
  <2>1. Sound(s)  BY RecordSound DEF At
  <2>. HIDE DEF eas, t
  <2>2. EAStep(p, m, s) /\ s.exc = m.exc  BY RecordFramed
  <2>. QED BY <2>1, <2>2
<1>2. \/ EADone(m, e) /\ r = m
      \/ /\ ~ EADone(m, e)
         /\ \/ r = Raise(s, "range")
            \/ r \in Fails(s, "range")
            \/ p \in DOMAIN s.disk /\ r = [t EXCEPT !.ea = TRUE]
  <2>1. s.disk = m.disk  BY <1>1 DEF EAStep
  <2>2. CASE EADone(m, e)  BY <2>2 DEF RawSetEA
  <2>3. CASE ~ EADone(m, e) /\ p \notin DOMAIN m.disk  BY <2>3 DEF RawSetEA
  <2>4. CASE ~ EADone(m, e) /\ p \in DOMAIN m.disk  BY <2>1, <2>4 DEF RawSetEA
  <2>. QED BY <2>2, <2>3, <2>4
<1>. HIDE DEF s
<1>3. CASE EADone(m, e) /\ r = m  BY <1>3 DEF EAStep
<1>4. CASE r = Raise(s, "range")
  <2>1. r.disk = s.disk /\ r.ino = s.ino /\ r.res = s.res /\ r.exc = "range"
    BY <1>1, <1>4 DEF Raise, Sound, Fields
  <2>. QED BY <1>1, <1>4, <2>1, RaiseFramed DEF EAStep
<1>5. CASE r \in Fails(s, "range")
  <2>1. r.disk = s.disk /\ r.ino = s.ino /\ r.res = s.res /\ r.exc = "range"
    BY <1>1, <1>5 DEF Fails, Sound, Fields
  <2>2. Framed(p, r) /\ Told(p, r) /\ Said(p, r)  BY <1>1, <1>5, FailsFramed DEF EAStep
  <2>. QED BY <1>1, <2>1, <2>2 DEF EAStep
<1>6. CASE p \in DOMAIN s.disk /\ r = [t EXCEPT !.ea = TRUE]
  <2>1. p \in DOMAIN s.disk  BY <1>6
  <2>2. eas \in SUBSET {"archive", "own"}
    <3>1. s.ino[s.disk[p]] \in Inodes  BY <1>1, <2>1 DEF Sound
    <3>. QED BY <3>1 DEF Inodes
  <2>. HIDE DEF eas
  <2>3. Sound(t) /\ Stays(p, s, t) /\ t.ino[s.disk[p]].eas = eas
    BY <1>1, <2>1, <2>2, SetEASound, SetEAFramed DEF EAStep
  <2>. HIDE DEF t
  <2>4. /\ r.disk = t.disk /\ r.ino = t.ino /\ r.corres = t.corres /\ r.marks = t.marks
        /\ r.copy = t.copy /\ r.stack = t.stack /\ r.res = t.res /\ r.exc = t.exc
    BY <1>6, <2>3 DEF Sound, Fields
  <2>5. Framed(p, t) /\ Told(p, t) /\ Said(p, t)  BY <1>1, <2>3 DEF Stays, EAStep
  <2>6. Framed(p, r)
    <3>1. r.exc \in {"none", "range", "abort", "bug", "cancel"}  BY <2>4, <2>5 DEF Framed
    <3>. QED BY <2>4, <2>5, <3>1, FieldFramed
  <2>7. Told(p, r) /\ Said(p, r)  BY <2>4, <2>5 DEF Told, Said, New
  <2>8. given \subseteq eas  BY DEF eas
  <2>. QED BY <1>1, <2>3, <2>4, <2>6, <2>7, <2>8 DEF Stays, EAStep
<1>. QED BY <1>2, <1>3, <1>4, <1>5, <1>6

\* raw_clear_ea_set.
LEMMA RawClearEAFramed ==
  ASSUME NEW p, At(p), NEW m, Sound(m), Framed(p, m), Told(p, m), Said(p, m), m.exc = "none",
         NEW r \in RawClearEA(m, p, e)
  PROVE  EAStep(p, m, r)
<1>. DEFINE s == Record(m, p, e, FALSE)
<1>1. Sound(s) /\ EAStep(p, m, s) /\ s.exc = "none"  BY RecordSound, RecordFramed DEF At
<1>2. r = Raise(s, "range") \/ (p \in DOMAIN m.disk /\ r = SetEA(s, p, {}))
  BY DEF RawClearEA
<1>. HIDE DEF s
<1>3. CASE r = Raise(s, "range")
  <2>1. r.disk = s.disk /\ r.ino = s.ino /\ r.res = s.res  BY <1>1, <1>3 DEF Raise, Sound, Fields
  <2>. QED BY <1>1, <1>3, <2>1, RaiseFramed DEF EAStep
<1>4. CASE p \in DOMAIN m.disk /\ r = SetEA(s, p, {})
  <2>1. p \in DOMAIN s.disk  BY <1>1, <1>4 DEF EAStep
  <2>2. Stays(p, s, r)  BY <1>1, <1>4, <2>1, SetEAFramed DEF EAStep
  <2>. QED BY <1>1, <2>2 DEF Stays, EAStep
<1>. QED BY <1>2, <1>3, <1>4
-----------------------------------------------------------------------------
(* The cases of write(), framed. *)

\* The EA of the entry are those of the inode made.
Given2(p, m) == m.exc = "none" /\ New(p, m) /\ e.ea = "full" => "archive" \in m.ino[m.disk[p]].eas

\* What is left of m when one thing told to write() is set.
WithRes(m, x) == [m EXCEPT !.res = x]
WithEA(m, x) == [m EXCEPT !.ea = x]
WithHard(m, x) == [m EXCEPT !.hard = x]
SameBut(m, r) ==
  /\ r.exc = m.exc /\ r.disk = m.disk /\ r.ino = m.ino /\ r.corres = m.corres /\ r.marks = m.marks

\* The result of write().
LEMMA ResultFramed ==
  ASSUME NEW p, NEW m, Sound(m), Framed(p, m), NEW x \in Results,
         x = "restored" /\ IsDir(e) => DirAt(m.disk, m.ino, p)
  PROVE  /\ Framed(p, WithRes(m, x)) /\ Sound(WithRes(m, x))
         /\ Told(p, m) => Told(p, WithRes(m, x))
         /\ x = "restored" \/ ~ New(p, m) => Said(p, WithRes(m, x))
         /\ WithRes(m, x).res = x /\ SameBut(m, WithRes(m, x))
<1>. DEFINE r == WithRes(m, x)
<1>1. /\ r.ino = m.ino /\ r.disk = m.disk /\ r.corres = m.corres /\ r.marks = m.marks
      /\ r.copy = m.copy /\ r.stack = m.stack /\ r.res = x /\ r.exc = m.exc
  BY DEF Sound, Fields, WithRes
<1>2. Sound(r)  BY ResultSound DEF WithRes
<1>3. m.exc \in {"none", "range", "abort", "bug", "cancel"}  BY DEF Framed
<1>. HIDE DEF r
<1>4. Framed(p, r)  BY <1>1, <1>3, FieldFramed
<1>5. /\ Told(p, m) => Told(p, r)
      /\ x = "restored" \/ ~ New(p, m) => Said(p, r)
  BY <1>1 DEF Told, Said, New
<1>. QED BY <1>1, <1>2, <1>4, <1>5 DEF r, SameBut

\* What only tells write() that EA were restored, or that a link was.
LEMMA TellFramed ==
  ASSUME NEW p, NEW m, Sound(m), Framed(p, m), NEW r, Sound(r), SameBut(m, r),
         r.copy = m.copy, r.stack = m.stack, r.res = m.res
  PROVE  Framed(p, r) /\ (Told(p, m) => Told(p, r)) /\ (Said(p, m) => Said(p, r))
<1>1. m.exc \in {"none", "range", "abort", "bug", "cancel"}  BY DEF Framed
<1>2. Framed(p, r)  BY <1>1, FieldFramed DEF SameBut
<1>. QED BY <1>2 DEF Told, Said, New, SameBut

\* Whether EA were restored is told, and changes no tree.
LEMMA EAFramed ==
  ASSUME NEW p, NEW m, Sound(m), Framed(p, m), NEW x
  PROVE  /\ Sound(WithEA(m, x)) /\ Framed(p, WithEA(m, x)) /\ WithEA(m, x).res = m.res /\ SameBut(m, WithEA(m, x))
         /\ (Told(p, m) => Told(p, WithEA(m, x))) /\ (Said(p, m) => Said(p, WithEA(m, x)))
<1>. DEFINE r == WithEA(m, x)
<1>1. SameBut(m, r) /\ r.copy = m.copy /\ r.stack = m.stack /\ r.res = m.res
  BY DEF Sound, Fields, WithEA, SameBut
<1>2. Sound(r)  BY TellSound DEF WithEA
<1>. HIDE DEF r
<1>. QED BY <1>1, <1>2, TellFramed DEF r

\* And so is whether it is a hard link.
LEMMA HardFramed ==
  ASSUME NEW p, NEW m, Sound(m), Framed(p, m), NEW x
  PROVE  /\ Sound(WithHard(m, x)) /\ Framed(p, WithHard(m, x)) /\ WithHard(m, x).res = m.res /\ SameBut(m, WithHard(m, x))
         /\ (Told(p, m) => Told(p, WithHard(m, x))) /\ (Said(p, m) => Said(p, WithHard(m, x)))
<1>. DEFINE r == WithHard(m, x)
<1>1. SameBut(m, r) /\ r.copy = m.copy /\ r.stack = m.stack /\ r.res = m.res
  BY DEF Sound, Fields, WithHard, SameBut
<1>2. Sound(r)  BY HardSound DEF WithHard
<1>. HIDE DEF r
<1>. QED BY <1>1, <1>2, TellFramed DEF r

\* A date set leaves EA as they are.
LEMMA SetDateLeaves ==
  ASSUME NEW p, NEW m, Sound(m), p \in DOMAIN m.disk, NEW d
  PROVE  SetDate(m, p, d).ino[m.disk[p]].eas = m.ino[m.disk[p]].eas
<1>1. SetDate(m, p, d).ino = [m.ino EXCEPT ![m.disk[p]].mtime = d]  BY DEF SetDate, Sound, Fields
<1>2. m.disk[p] \in DOMAIN m.ino /\ m.ino[m.disk[p]] \in Inodes  BY DEF Sound
<1>3. SetDate(m, p, d).ino[m.disk[p]] = [m.ino[m.disk[p]] EXCEPT !.mtime = d]  BY <1>1, <1>2
<1>. QED BY <1>2, <1>3 DEF Inodes

\* The EA of an entry made, and its date.
Give(p, m) == Then(Then(GetEA(m, e), LAMBDA g : RawSetEA(g, p, e, Given(e))),
                   LAMBDA s : {SetDate(s, p, e.mtime)})

\* The EA given to what was made.
LEMMA GiveFramed ==
  ASSUME NEW p, At(p), NEW m, Sound(m), Framed(p, m), Told(p, m), Said(p, m), Owed(p, m), m.exc = "none",
         NEW r \in Give(p, m)
  PROVE  Framed(p, r) /\ Told(p, r) /\ Said(p, r) /\ Given2(p, r) /\ r.disk = m.disk
<1>1. PICK s \in Then(GetEA(m, e), LAMBDA g : RawSetEA(g, p, e, Given(e))) :
         \/ s.exc # "none" /\ r = s
         \/ s.exc = "none" /\ r = SetDate(s, p, e.mtime)
  BY DEF Then, Give
<1>2. PICK g \in GetEA(m, e) : \/ g.exc # "none" /\ s = g
                               \/ g.exc = "none" /\ s \in RawSetEA(g, p, e, Given(e))
  BY <1>1 DEF Then
<1>3. Sound(g) /\ EAStep(p, m, g) /\ g.ino = m.ino /\ g.corres = m.corres
  <2>1. Sound(g)  BY <1>2, GetEASound
  <2>2. EAStep(p, m, g) /\ g.ino = m.ino /\ g.corres = m.corres  BY <1>2, GetEAFramed
  <2>. QED BY <2>1, <2>2
<1>4. CASE g.exc # "none" /\ s = g
  <2>1. r = g  BY <1>1, <1>4
  <2>. QED BY <1>3, <1>4, <2>1 DEF EAStep, Given2
<1>5. CASE g.exc = "none" /\ s \in RawSetEA(g, p, e, Given(e))
  <2>1. Writes(p)  BY DEF At
  <2>2. Framed(p, g) /\ Told(p, g) /\ Said(p, g)  BY <1>3 DEF EAStep
  <2>3. Sound(s)  BY <1>3, <1>5, <2>1, RawSetEASound, GivenIs
  <2>4. /\ EAStep(p, g, s)
        /\ s.exc = "none" /\ ~ EADone(g, e) => Given(e) \subseteq s.ino[s.disk[p]].eas
    BY <1>3, <1>5, <2>2, GivenIs, RawSetEAFramed
  <2>5. s.disk = m.disk /\ Framed(p, s) /\ Told(p, s) /\ Said(p, s)  BY <1>3, <2>4 DEF EAStep
  <2>6. ~ EADone(g, e) <=> ~ EADone(m, e)  BY <1>3 DEF EADone
  <2>7. s.exc = "none" /\ New(p, s) /\ e.ea = "full" => "archive" \in s.ino[s.disk[p]].eas
    BY <2>4, <2>5, <2>6 DEF Owed, New, Given
  <2>8. CASE s.exc # "none" /\ r = s  BY <2>5, <2>8 DEF Given2
  <2>9. CASE s.exc = "none" /\ r = SetDate(s, p, e.mtime)
    <3>1. e.mtime \in Int  BY ListedIs DEF At, Writes
    <3>2. Stays(p, s, SetDate(s, p, e.mtime))  BY <2>3, <2>5, <3>1, SetDateFramed
    <3>3. Framed(p, r) /\ Told(p, r) /\ Said(p, r) /\ r.disk = m.disk /\ r.exc = s.exc /\ r.disk = s.disk
      BY <2>5, <2>9, <3>2 DEF Stays
    <3>4. New(p, r) => New(p, s) /\ r.ino[r.disk[p]].eas = s.ino[s.disk[p]].eas
      BY <2>3, <2>9, <3>3, SetDateLeaves DEF New
    <3>. QED BY <2>7, <3>3, <3>4 DEF Given2
  <2>. QED BY <1>1, <2>8, <2>9
<1>. QED BY <1>2, <1>4, <1>5

\* What is written where nothing is in place.
LEMMA WriteNewFramed ==
  ASSUME NEW p, At(p), NEW m, Sound(m), Framed(p, m), p \notin DOMAIN m.disk, m.exc = "none",
         Ready(m.marks, m.copy), Len(m.ino) = Len(ino), NEW r \in WriteNew(m, p, e)
  PROVE  Framed(p, r) /\ Told(p, r) /\ Said(p, r) /\ Gone(p, r) /\ Given2(p, r)
<1>0. ~ New(p, m) /\ Told(p, m) /\ Said(p, m) /\ Gone(p, m) /\ Owed(p, m)  BY DEF New, Told, Said, Gone, Owed
<1>1. CASE IsDet(e)
  <2>1. r = Raise(m, "range")  BY <1>1 DEF WriteNew
  <2>2. r.disk = m.disk  BY <2>1 DEF Raise, Sound, Fields
  <2>. QED BY <2>1, <2>2, RaiseFramed DEF Gone, Given2, New
<1>2. CASE ~ IsDet(e) /\ r = [m EXCEPT !.hard = FALSE]
  <2>0. r = WithHard(m, FALSE)  BY <1>2 DEF WithHard
  <2>1. /\ Framed(p, r) /\ (Told(p, m) => Told(p, r)) /\ (Said(p, m) => Said(p, r)) /\ r.disk = m.disk
    BY <2>0, HardFramed DEF SameBut
  <2>. QED BY <1>0, <2>1 DEF Gone, Given2, New
<1>3. CASE ~ IsDet(e) /\ r # [m EXCEPT !.hard = FALSE]
  <2>. DEFINE made == IF opts.empty THEN {m} ELSE MakeFile(m, p, e)
              done(x) == MarkParent(WithRes(x, "restored"))
  <2>1. ASSUME NEW x \in made
        PROVE  /\ Sound(x) /\ Framed(p, x) /\ Told(p, x) /\ Owed(p, x) /\ Gone(p, x)
               /\ IsDir(e) => DirAt(x.disk, x.ino, p)
    <3>1. CASE opts.empty /\ x = m  BY <1>0, <3>1 DEF DirAt
    <3>2. CASE ~ opts.empty /\ x \in MakeFile(m, p, e)
      <4>1. Sound(x)  BY <1>3, <3>2, MakeFileSound DEF At
      <4>2. Framed(p, x) /\ Told(p, x) /\ Owed(p, x) /\ Gone(p, x)  BY <1>3, <3>2, MakeFileFramed
      <4>3. IsDir(e) => DirAt(x.disk, x.ino, p)  BY <3>2, DirMade
      <4>. QED BY <4>1, <4>2, <4>3
    <3>. QED BY <2>1, <3>1, <3>2
  <2>2. ASSUME NEW x \in made
        PROVE  /\ Sound(done(x)) /\ Framed(p, done(x)) /\ Told(p, done(x)) /\ Said(p, done(x))
               /\ Owed(p, done(x)) /\ Gone(p, done(x)) /\ done(x).disk = x.disk /\ done(x).ino = x.ino
               /\ done(x).exc = x.exc
    <3>. DEFINE y == WithRes(x, "restored")
    <3>. HIDE DEF made
    <3>0. Sound(x) /\ Framed(p, x) /\ Told(p, x) /\ Owed(p, x) /\ Gone(p, x) /\ (IsDir(e) => DirAt(x.disk, x.ino, p))
      BY <2>1, <2>2
    <3>5. "restored" \in Results  BY DEF Results
    <3>1. /\ Framed(p, y) /\ Sound(y) /\ Told(p, y) /\ Said(p, y) /\ y.exc = x.exc
          /\ y.disk = x.disk /\ y.ino = x.ino /\ y.corres = x.corres
      BY <3>0, <3>5, ResultFramed DEF SameBut
    <3>. HIDE DEF y
    <3>2. Stays(p, y, MarkParent(y)) /\ MarkParent(y).ino = y.ino /\ Sound(MarkParent(y))
      BY <3>1, MarkParentFramed, MarkParentSound
    <3>. DEFINE z == MarkParent(y)
    <3>3. /\ Sound(z) /\ Framed(p, z) /\ Told(p, z) /\ Said(p, z) /\ z.disk = x.disk /\ z.ino = x.ino
          /\ z.corres = x.corres /\ z.exc = x.exc
      BY <3>1, <3>2 DEF Stays
    <3>. HIDE DEF z
    <3>4. Owed(p, z) /\ Gone(p, z)  BY <3>0, <3>3 DEF Owed, Gone, New, EADone
    <3>. QED BY <3>3, <3>4 DEF z, y
  <2>3. PICK x \in made :
          \/ x.exc # "none" /\ r = x
          \/ /\ x.exc = "none"
             /\ \/ ~ HasEASaved(e) /\ r = done(x)
                \/ opts.empty /\ r = WithEA(done(x), TRUE)
                \/ ~ opts.empty /\ r \in Give(p, done(x))
    <3>. DEFINE body(y) == IF ~ HasEASaved(e) THEN {done(y)}
                           ELSE IF opts.empty THEN {WithEA(done(y), TRUE)} ELSE Give(p, done(y))
    <3>1. r \in Then(made, LAMBDA y : body(y))
      BY <1>3 DEF WriteNew, Give, WithRes, WithEA
    <3>. HIDE DEF made, done, body
    <3>2. PICK x \in made : (x.exc # "none" /\ r = x) \/ (x.exc = "none" /\ r \in body(x))
      BY <3>1 DEF Then
    <3>3. r \in body(x) => \/ ~ HasEASaved(e) /\ r = done(x)
                           \/ opts.empty /\ r = WithEA(done(x), TRUE)
                           \/ ~ opts.empty /\ r \in Give(p, done(x))
      BY DEF body
    <3>. QED BY <3>2, <3>3
  <2>4. opts.empty => p \notin DOMAIN x.disk  BY <2>3
  <2>. DEFINE z == done(x)
  <2>5. /\ Sound(x) /\ Framed(p, x) /\ Told(p, x) /\ Owed(p, x) /\ Gone(p, x)
        /\ Sound(z) /\ Framed(p, z) /\ Told(p, z) /\ Said(p, z) /\ Owed(p, z) /\ Gone(p, z)
        /\ z.disk = x.disk /\ z.exc = x.exc
    BY <2>1, <2>2, <2>3
  <2>. HIDE DEF made, z
  <2>6. CASE x.exc # "none" /\ r = x  BY <2>5, <2>6 DEF Given2, Said
  <2>7. CASE ~ HasEASaved(e) /\ r = z
    <3>1. e.ea # "full"  BY <1>3, <2>7 DEF HasEASaved, IsDet
    <3>. QED BY <2>5, <2>7, <3>1 DEF Given2
  <2>8. CASE opts.empty /\ r = WithEA(z, TRUE)
    <3>1. Framed(p, r) /\ Told(p, r) /\ Said(p, r) /\ r.disk = z.disk
      BY <2>5, <2>8, EAFramed DEF SameBut
    <3>. QED BY <2>4, <2>5, <2>8, <3>1 DEF Given2, New, Gone
  <2>9. CASE x.exc = "none" /\ ~ opts.empty /\ r \in Give(p, z)
    <3>0. z.exc = "none"  BY <2>5, <2>9
    <3>1. Framed(p, r) /\ Told(p, r) /\ Said(p, r) /\ Given2(p, r) /\ r.disk = z.disk
      BY <2>5, <2>9, <3>0, GiveFramed
    <3>. QED BY <2>5, <3>1 DEF Gone, New
  <2>. QED BY <2>3, <2>6, <2>7, <2>8, <2>9 DEF z
<1>. QED BY <1>1, <1>2, <1>3

\* What is in place, and was not made by this step.
Place(p, m) == p \in DOMAIN m.disk /\ ~ New(p, m) /\ m.exc = "none" /\ Ready(m.marks, m.copy) /\ Len(m.ino) = Len(ino)

\* What is in place is replaced.
LEMMA OverwriteDataFramed ==
  ASSUME NEW p, At(p), p \in DOMAIN disk, ~ IsDet(e), NEW m, Sound(m), Framed(p, m), Place(p, m),
         m.disk[p] = disk[p], NEW r \in OverwriteData(m, p, e)
  PROVE  Framed(p, r) /\ Told(p, r) /\ Said(p, r)
<1>. DEFINE kept == m.ino[m.disk[p]].eas
            done(x) == WithRes(x, "restored")
<1>0. Told(p, m) /\ Said(p, m) /\ p \in DOMAIN m.disk /\ m.exc = "none" /\ Ready(m.marks, m.copy) /\ Len(m.ino) = Len(ino)
  BY DEF Told, Said, Place
<1>1. kept \in SUBSET {"archive", "own"}
  <2>1. m.ino[m.disk[p]] \in Inodes  BY <1>0 DEF Sound
  <2>. QED BY <2>1 DEF Inodes
<1>2. e.mtime \in Int  BY ListedIs DEF At, Writes
<1>3. ASSUME NEW x, Sound(x), Framed(p, x), Told(p, x), IsDir(e) => DirAt(x.disk, x.ino, p)
      PROVE  Framed(p, done(x)) /\ Told(p, done(x)) /\ Said(p, done(x))
  <2>1. "restored" \in Results  BY DEF Results
  <2>. QED BY <1>3, <2>1, ResultFramed
<1>4. CASE BothDirs(m, p, e)
  <2>1. IsDir(e) => DirAt(m.disk, m.ino, p)
    <3>1. ino[disk[p]].type = "dir" /\ disk[p] \in DOMAIN ino  BY <1>4 DEF BothDirs, At, TreeOK
    <3>2. m.ino[disk[p]].type = "dir"  BY <3>1 DEF Framed, SameKinds
    <3>. QED BY <3>2 DEF DirAt
  <2>2. Stays(p, m, SetDate(m, p, e.mtime)) /\ Sound(SetDate(m, p, e.mtime))
    BY <1>2, SetDateSound, SetDateFramed
  <2>3. r = done(m) \/ r = done(SetDate(m, p, e.mtime))  BY <1>4 DEF OverwriteData, WithRes
  <2>. DEFINE d == SetDate(m, p, e.mtime)
  <2>4. Sound(d) /\ Framed(p, d) /\ Told(p, d) /\ (IsDir(e) => DirAt(d.disk, d.ino, p))
    <3>1. Sound(d) /\ Framed(p, d) /\ Told(p, d) /\ d.disk = m.disk /\ SameKinds(m.ino, d.ino)
      BY <1>0, <2>2 DEF Stays
    <3>. HIDE DEF d
    <3>2. m.disk[p] \in DOMAIN m.ino  BY <1>0 DEF Sound
    <3>. QED BY <2>1, <3>1, <3>2 DEF DirAt, SameKinds
  <2>. HIDE DEF done, d
  <2>. QED BY <1>0, <1>3, <2>1, <2>3, <2>4 DEF d
<1>5. CASE ~ BothDirs(m, p, e) /\ opts.empty
  BY <1>0, <1>5 DEF OverwriteData
<1>6. CASE ~ BothDirs(m, p, e) /\ ~ opts.empty
  <2>. DEFINE eased(s) == IF kept # {} /\ p \in DOMAIN s.disk
                          THEN SetEA(s, p, s.ino[s.disk[p]].eas \cup kept) ELSE s
  <2>1. r \in Then(Supprime(m, p), LAMBDA x : Then(MakeFile(x, p, e), LAMBDA s : {done(eased(s))}))
    BY <1>6 DEF OverwriteData, WithRes
  <2>. HIDE DEF done, eased, kept
  <2>2. PICK x \in Supprime(m, p) :
          \/ x.exc # "none" /\ r = x
          \/ x.exc = "none" /\ r \in Then(MakeFile(x, p, e), LAMBDA s : {done(eased(s))})
    BY <2>1 DEF Then
  <2>3. /\ Sound(x) /\ Framed(p, x) /\ Told(p, x) /\ Said(p, x)
        /\ x.exc = "none" => p \notin DOMAIN x.disk /\ Ready(x.marks, x.copy) /\ Len(x.ino) = Len(ino)
    <3>1. Sound(x)  BY <2>2, SupprimeSound
    <3>2. /\ Framed(p, x) /\ Told(p, x) /\ Said(p, x)
          /\ \/ x.exc = "range"
             \/ p \in DOMAIN m.disk /\ p \notin DOMAIN x.disk /\ x.exc = m.exc
          /\ Len(x.ino) = Len(m.ino) /\ x.marks = m.marks /\ x.copy = m.copy
      BY <2>2, SupprimeFramed
    <3>. QED BY <1>0, <3>1, <3>2
  <2>4. CASE x.exc # "none" /\ r = x  BY <2>3, <2>4
  <2>5. CASE x.exc = "none" /\ r \in Then(MakeFile(x, p, e), LAMBDA s : {done(eased(s))})
    <3>1. PICK s \in MakeFile(x, p, e) : \/ s.exc # "none" /\ r = s
                                         \/ s.exc = "none" /\ r = done(eased(s))
      BY <2>5 DEF Then
    <3>2. p \notin DOMAIN x.disk /\ Ready(x.marks, x.copy) /\ Len(x.ino) = Len(ino)  BY <2>3, <2>5
    <3>3. Sound(s) /\ Framed(p, s) /\ Told(p, s) /\ (IsDir(e) => DirAt(s.disk, s.ino, p))
      <4>1. Sound(s)  BY <2>3, <3>1, MakeFileSound DEF At
      <4>2. Framed(p, s) /\ Told(p, s)  BY <1>6, <2>3, <2>5, <3>1, <3>2, MakeFileFramed
      <4>3. IsDir(e) => DirAt(s.disk, s.ino, p)  BY <1>6, <2>3, <2>5, <3>1, <3>2, DirMade
      <4>. QED BY <4>1, <4>2, <4>3
    <3>4. CASE s.exc # "none" /\ r = s  BY <3>3, <3>4 DEF Said
    <3>5. CASE s.exc = "none" /\ r = done(eased(s))
      <4>1. Sound(eased(s)) /\ Framed(p, eased(s)) /\ Told(p, eased(s)) /\ (IsDir(e) => DirAt(eased(s).disk, eased(s).ino, p))
        <5>1. CASE kept # {} /\ p \in DOMAIN s.disk
          <6>. DEFINE a == s.ino[s.disk[p]].eas \cup kept
                      t == SetEA(s, p, a)
          <6>1. s.disk[p] \in DOMAIN s.ino /\ s.ino[s.disk[p]] \in Inodes  BY <3>3, <5>1 DEF Sound
          <6>2. a \in SUBSET {"archive", "own"}  BY <1>1, <6>1 DEF Inodes
          <6>. HIDE DEF a
          <6>3. Stays(p, s, t) /\ Sound(t)  BY <3>3, <5>1, <6>2, SetEASound, SetEAFramed
          <6>4. Sound(t) /\ Framed(p, t) /\ Told(p, t) /\ t.disk = s.disk /\ SameKinds(s.ino, t.ino)
            BY <3>3, <6>3 DEF Stays
          <6>5. eased(s) = t  BY <5>1 DEF eased, a
          <6>. HIDE DEF t
          <6>. QED BY <3>3, <6>1, <6>4, <6>5 DEF DirAt, SameKinds
        <5>2. CASE ~ (kept # {} /\ p \in DOMAIN s.disk)  BY <3>3, <5>2 DEF eased
        <5>. QED BY <5>1, <5>2
      <4>. QED BY <1>3, <3>5, <4>1
    <3>. QED BY <3>1, <3>4, <3>5
  <2>. QED BY <2>2, <2>4, <2>5
<1>. QED BY <1>4, <1>5, <1>6

\* What a policy does of the data.
LEMMA OverDataFramed ==
  ASSUME NEW p, At(p), p \in DOMAIN disk, ~ IsDet(e), NEW m, Sound(m), Framed(p, m), Place(p, m),
         m.disk[p] = disk[p], NEW action, NEW r \in OverData(m, p, e, action)
  PROVE  Framed(p, r) /\ Told(p, r) /\ Said(p, r)
<1>0. Told(p, m) /\ Said(p, m) /\ ~ New(p, m) /\ m.exc = "none"  BY DEF Told, Said, Place
<1>1. ASSUME NEW x \in {"range", "abort", "bug"}
      PROVE  Framed(p, Raise(m, x)) /\ Told(p, Raise(m, x)) /\ Said(p, Raise(m, x))
  BY RaiseFramed
<1>2. ASSUME NEW s, Sound(s), Framed(p, s), Told(p, s), ~ New(p, s), NEW x \in Results \ {"restored"}
      PROVE  Framed(p, WithRes(s, x)) /\ Told(p, WithRes(s, x)) /\ Said(p, WithRes(s, x))
  BY <1>2, ResultFramed
<1>7. "policy" \in Results \ {"restored"} /\ "removed" \in Results \ {"restored"}  BY DEF Results
<1>3. CASE action \in {"preserve", "preserve_mark_saved"}
  <2>1. r = Raise(m, "range") \/ r = WithRes(m, "policy")  BY <1>3 DEF OverData, WithRes
  <2>. QED BY <1>0, <1>1, <1>2, <1>7, <2>1
<1>4. CASE action \in {"overwrite", "overwrite_mark_saved"}
  <2>1. \/ r \in OverwriteData(m, p, e)
        \/ r = WithRes(m, "policy") \/ r = Raise(m, "abort")
    BY <1>4 DEF OverData, Confirm, WithRes
  <2>2. CASE r \in OverwriteData(m, p, e)  BY <2>2, OverwriteDataFramed
  <2>. QED BY <1>0, <1>1, <1>2, <1>7, <2>1, <2>2
<1>5. CASE action = "remove"
  <2>1. \/ r = Raise(m, "abort")
        \/ r \in Then(IF opts.empty THEN {m} ELSE Supprime(m, p), LAMBDA s : {WithRes(s, "removed")})
    BY <1>5 DEF OverData, Confirm, WithRes
  <2>2. ASSUME r \in Then(IF opts.empty THEN {m} ELSE Supprime(m, p), LAMBDA s : {WithRes(s, "removed")})
        PROVE  Framed(p, r) /\ Told(p, r) /\ Said(p, r)
    <3>1. PICK s \in (IF opts.empty THEN {m} ELSE Supprime(m, p)) :
            (s.exc # "none" /\ r = s) \/ (s.exc = "none" /\ r = WithRes(s, "removed"))
      BY <2>2 DEF Then
    <3>2. Sound(s) /\ Framed(p, s) /\ Told(p, s) /\ Said(p, s) /\ (s.exc = "none" => ~ New(p, s))
      <4>1. CASE s = m  BY <1>0, <4>1
      <4>2. CASE s \in Supprime(m, p)
        <5>1. Sound(s)  BY <4>2, SupprimeSound
        <5>2. /\ Framed(p, s) /\ Told(p, s) /\ Said(p, s)
              /\ \/ s.exc = "range"
                 \/ p \in DOMAIN m.disk /\ p \notin DOMAIN s.disk /\ s.exc = m.exc
          BY <4>2, SupprimeFramed
        <5>. QED BY <5>1, <5>2 DEF New
      <4>. QED BY <3>1, <4>1, <4>2
    <3>. QED BY <1>2, <1>7, <3>1, <3>2
  <2>. QED BY <1>1, <2>1, <2>2
<1>6. CASE action \notin {"preserve", "preserve_mark_saved", "overwrite", "overwrite_mark_saved", "remove"}
  <2>1. r = Raise(m, "range") \/ r = Raise(m, "abort") \/ r = Raise(m, "bug")  BY <1>6 DEF OverData
  <2>. QED BY <1>1, <2>1
<1>. QED BY <1>3, <1>4, <1>5, <1>6

\* What a policy does of a record of a removed file.
LEMMA OverRemoveFramed ==
  ASSUME NEW p, At(p), NEW m, Sound(m), Framed(p, m), ~ New(p, m), NEW action, NEW r \in OverRemove(m, p, action)
  PROVE  Framed(p, r) /\ Told(p, r) /\ Said(p, r) /\ ~ New(p, r)
<1>1. ASSUME NEW x \in {"range", "abort", "bug"}
      PROVE  /\ Framed(p, Raise(m, x)) /\ Told(p, Raise(m, x)) /\ Said(p, Raise(m, x)) /\ ~ New(p, Raise(m, x))
  <2>1. Raise(m, x).disk = m.disk  BY DEF Raise, Sound, Fields
  <2>. QED BY <2>1, RaiseFramed DEF New
<1>2. \/ r = m \/ r = Raise(m, "abort") \/ r = Raise(m, "range") \/ r = Raise(m, "bug")
      \/ r \in Supprime(m, p)
  BY DEF OverRemove, Confirm
<1>3. CASE r \in Supprime(m, p)
  <2>1. /\ Framed(p, r) /\ Told(p, r) /\ Said(p, r)
        /\ DOMAIN r.disk \subseteq DOMAIN m.disk /\ \A q \in DOMAIN r.disk : r.disk[q] = m.disk[q]
    BY <1>3, SupprimeFramed
  <2>. QED BY <2>1 DEF New
<1>4. CASE r = m  BY <1>4 DEF Told, Said
<1>. QED BY <1>1, <1>2, <1>3, <1>4

\* What a policy does of the EA.
LEMMA OverEAFramed ==
  ASSUME NEW p, At(p), NEW m, Sound(m), Framed(p, m), Told(p, m), Said(p, m), m.exc = "none",
         NEW place \in Inodes, NEW action, NEW r \in OverEA(m, p, e, place, action)
  PROVE  EAStep(p, m, r)
<1>. DEFINE todo == EAToDo(e, place, action)
            no == WithEA(m, FALSE)
            yes(x) == WithEA(x, TRUE)
<1>0. Writes(p)  BY DEF At
<1>1. ASSUME NEW x \in {"range", "abort", "bug"} PROVE EAStep(p, m, Raise(m, x))
  <2>1. /\ Raise(m, x).disk = m.disk /\ Raise(m, x).ino = m.ino /\ Raise(m, x).res = m.res
    BY DEF Raise, Sound, Fields
  <2>. QED BY <2>1, RaiseFramed DEF EAStep
<1>2. ASSUME NEW x, Sound(x), EAStep(p, m, x) PROVE EAStep(p, m, yes(x))
  <2>. DEFINE y == yes(x)
  <2>1. Framed(p, x) /\ Told(p, x) /\ Said(p, x)  BY <1>2 DEF EAStep
  <2>2. /\ Framed(p, y) /\ (Told(p, x) => Told(p, y)) /\ (Said(p, x) => Said(p, y))
        /\ y.exc = x.exc /\ y.disk = x.disk /\ y.ino = x.ino /\ y.res = x.res
    BY <1>2, <2>1, EAFramed DEF SameBut
  <2>. HIDE DEF y
  <2>3. EAStep(p, m, y)  BY <1>2, <2>1, <2>2 DEF EAStep
  <2>. QED BY <2>3 DEF y
<1>3. EAStep(p, m, m)  BY DEF EAStep
<1>4. EAStep(p, m, no)
  <2>1. /\ Framed(p, no) /\ (Told(p, m) => Told(p, no)) /\ (Said(p, m) => Said(p, no))
        /\ no.exc = m.exc /\ no.disk = m.disk /\ no.ino = m.ino /\ no.res = m.res
    BY EAFramed DEF SameBut
  <2>. QED BY <2>1 DEF EAStep
<1>5. /\ Given(e) \in SUBSET {"archive", "own"}
      /\ Given(e) \cup place.eas \in SUBSET {"archive", "own"}
  BY GivenIs DEF Inodes
\* The EA are read, and set.
<1>6. ASSUME NEW s, Sound(s), EAStep(p, m, s), s.exc = "none", NEW given \in SUBSET {"archive", "own"},
             NEW g \in GetEA(s, e),
             \/ g.exc # "none" /\ r = g
             \/ g.exc = "none" /\ r \in IF opts.empty THEN {yes(g)} ELSE RawSetEA(g, p, e, given)
      PROVE  EAStep(p, m, r)
  <2>1. Framed(p, s) /\ Told(p, s) /\ Said(p, s)  BY <1>6 DEF EAStep
  <2>2. Sound(g)  BY <1>6, GetEASound
  <2>3. EAStep(p, s, g) /\ g.ino = s.ino /\ g.corres = s.corres
    <3>. HIDE DEF yes
    <3>. QED BY <1>6, <2>1, GetEAFramed
  <2>4. EAStep(p, m, g)  BY <1>6, <2>3 DEF EAStep
  <2>5. CASE r = g  BY <2>4, <2>5
  <2>6. CASE r = yes(g)  BY <1>2, <2>2, <2>4, <2>6
  <2>7. CASE g.exc = "none" /\ r \in RawSetEA(g, p, e, given)
    <3>1. Framed(p, g) /\ Told(p, g) /\ Said(p, g)  BY <2>4 DEF EAStep
    <3>2. EAStep(p, g, r)  BY <1>6, <2>2, <2>7, <3>1, RawSetEAFramed
    <3>. QED BY <2>4, <3>2 DEF EAStep
  <2>. QED BY <1>6, <2>5, <2>6, <2>7
<1>7. CASE todo \in {"overwrite", "overwrite_mark_saved"}
  <2>. DEFINE set(g) == IF opts.empty THEN {yes(g)} ELSE RawSetEA(g, p, e, Given(e))
  <2>1. \/ r = no \/ r = Raise(m, "abort")
        \/ r \in Then(IF opts.empty THEN {m} ELSE RawClearEA(m, p, e),
                      LAMBDA s : Then(GetEA(s, e), LAMBDA g : set(g)))
    BY <1>7 DEF OverEA, Confirm, WithEA
  <2>2. ASSUME r \in Then(IF opts.empty THEN {m} ELSE RawClearEA(m, p, e),
                          LAMBDA s : Then(GetEA(s, e), LAMBDA g : set(g)))
        PROVE  EAStep(p, m, r)
    <3>. HIDE DEF set
    <3>1. PICK s \in (IF opts.empty THEN {m} ELSE RawClearEA(m, p, e)) :
             \/ s.exc # "none" /\ r = s
             \/ s.exc = "none" /\ r \in Then(GetEA(s, e), LAMBDA g : set(g))
      BY <2>2 DEF Then
    <3>2. Sound(s) /\ EAStep(p, m, s)
      <4>1. CASE s = m  BY <1>3, <4>1
      <4>2. CASE s \in RawClearEA(m, p, e)
        <5>1. Sound(s)  BY <1>0, <4>2, RawClearEASound
        <5>2. EAStep(p, m, s)  BY <4>2, RawClearEAFramed
        <5>. QED BY <5>1, <5>2
      <4>. QED BY <3>1, <4>1, <4>2
    <3>3. CASE s.exc = "none" /\ r \in Then(GetEA(s, e), LAMBDA g : set(g))
      <4>1. PICK g \in GetEA(s, e) : (g.exc # "none" /\ r = g) \/ (g.exc = "none" /\ r \in set(g))
        BY <3>3 DEF Then
      <4>. QED BY <1>5, <1>6, <3>2, <3>3, <4>1 DEF set
    <3>. QED BY <3>1, <3>2, <3>3
  <2>. HIDE DEF no, set
  <2>. QED BY <1>1, <1>4, <2>1, <2>2 DEF set
<1>8. CASE todo = "clear"
  <2>1. \/ r = no \/ r = yes(m)
        \/ r \in Then(RawClearEA(m, p, e), LAMBDA s : {yes(s)})
    BY <1>8 DEF OverEA, Confirm, WithEA
  <2>. HIDE DEF yes, no
  <2>2. r \in Then(RawClearEA(m, p, e), LAMBDA s : {yes(s)}) =>
          \E s \in RawClearEA(m, p, e) : r = s \/ r = yes(s)
    BY DEF Then
  <2>3. ASSUME NEW s \in RawClearEA(m, p, e) PROVE Sound(s) /\ EAStep(p, m, s)
    <3>1. Sound(s)  BY <1>0, RawClearEASound
    <3>2. EAStep(p, m, s)  BY RawClearEAFramed
    <3>. QED BY <3>1, <3>2
  <2>. QED BY <1>2, <1>3, <1>4, <2>1, <2>2, <2>3
<1>9. CASE todo \in {"merge_preserve", "merge_overwrite"}
  <2>. DEFINE set(g) == IF opts.empty THEN {yes(g)} ELSE RawSetEA(g, p, e, Given(e) \cup place.eas)
  <2>1. r = no \/ r \in Then(GetEA(m, e), LAMBDA g : set(g))
    BY <1>9 DEF OverEA, Confirm, WithEA
  <2>. HIDE DEF set, no
  <2>2. CASE r \in Then(GetEA(m, e), LAMBDA g : set(g))
    <3>1. PICK g \in GetEA(m, e) : (g.exc # "none" /\ r = g) \/ (g.exc = "none" /\ r \in set(g))
      BY <2>2 DEF Then
    <3>. QED BY <1>3, <1>5, <1>6, <3>1 DEF set
  <2>. QED BY <1>4, <2>1, <2>2
<1>10. CASE todo \notin {"overwrite", "overwrite_mark_saved", "clear", "merge_preserve", "merge_overwrite"}
  <2>1. r = no \/ r = Raise(m, "range") \/ r = Raise(m, "abort") \/ r = Raise(m, "bug")
    BY <1>10 DEF OverEA, WithEA
  <2>. QED BY <1>1, <1>4, <2>1
<1>. QED BY <1>7, <1>8, <1>9, <1>10

\* What is written over what is in place.
LEMMA WriteOverFramed ==
  ASSUME NEW p, At(p), p \in DOMAIN disk, NEW m, Sound(m), Framed(p, m), Place(p, m),
         m.disk[p] = disk[p], NEW r \in WriteOver(m, p, e)
  PROVE  Framed(p, r) /\ Told(p, r) /\ Said(p, r)
<1>. DEFINE place == ino[disk[p]]
            act == Decide(IF opts.restore = "only_deleted" THEN OfDetruits ELSE policy, place, e)
            data == IF act.data = "ask" THEN DataAnswers ELSE {act.data}
            ea == IF act.ea = "ask" THEN EAAnswers ELSE {act.ea}
            target == IF e.hard /\ e.etiq \notin DOMAIN m.corres
                      THEN [m EXCEPT !.corres = With(@, e.etiq, [path |-> p, ea |-> FALSE])] ELSE m
            date(x) == SetDate(x, p, IF x.res = "restored" THEN e.mtime ELSE place.mtime)
            removed(x) == MarkParent([x EXCEPT !.res = "removed", !.hard = FALSE])
            hard(x) == [x EXCEPT !.hard = @ /\ x.res = "restored"]
            eased(s) == IF act.data # "remove" /\ HasEASaved(e)
                        THEN UNION {Then(OverEA(s, p, e, place, x), LAMBDA y : {date(y)}) : x \in ea} ELSE {s}
            ended(t) == IF act.data = "remove" THEN MarkParent(t) ELSE t
            first(d) == IF HasData(e) THEN OverData(m, p, e, d) ELSE {target}
            good(x) == Sound(x) /\ Framed(p, x) /\ Told(p, x) /\ Said(p, x)
<1>0. place \in Inodes /\ e.mtime \in Int /\ place.mtime \in Int /\ Writes(p) /\ ~ New(p, m) /\ m.exc = "none"
  <2>1. place \in Inodes /\ Writes(p)  BY DEF At, TreeOK
  <2>. QED BY <2>1, ListedIs DEF Writes, Inodes, Place
<1>1. good(target)
  <2>1. good(m)  BY <1>0 DEF Told, Said
  <2>2. CASE e.hard /\ e.etiq \notin DOMAIN m.corres
    <3>. DEFINE c == With(m.corres, e.etiq, [path |-> p, ea |-> FALSE])
                t == [m EXCEPT !.corres = c]
    <3>1. Links(p, c)  BY LinksWith DEF Framed
    <3>2. Sound(t)  BY <1>0, <2>2, CorresSound
    <3>. HIDE DEF c
    <3>3. Framed(p, t) /\ (Told(p, m) => Told(p, t)) /\ (Said(p, m) => Said(p, t))
      BY <3>1, CorresFramed
    <3>4. target = t  BY <2>2 DEF c
    <3>. HIDE DEF t, target
    <3>. QED BY <2>1, <3>2, <3>3, <3>4
  <2>. QED BY <2>1, <2>2
<1>2. ASSUME NEW x, good(x)
      PROVE  good(date(x)) /\ good(hard(x)) /\ good(ended(x)) /\ hard(x).exc = x.exc
  <2>1. good(date(x))
    <3>. DEFINE d == IF x.res = "restored" THEN e.mtime ELSE place.mtime
    <3>1. d \in Int  BY <1>0
    <3>. HIDE DEF d, place
    <3>2. Stays(p, x, SetDate(x, p, d)) /\ Sound(SetDate(x, p, d))  BY <1>2, <3>1, SetDateSound, SetDateFramed
    <3>3. good(SetDate(x, p, d))  BY <1>2, <3>2 DEF Stays
    <3>. QED BY <3>3 DEF d, place
  <2>2. good(hard(x)) /\ hard(x).exc = x.exc
    <3>. DEFINE z == x.hard /\ x.res = "restored"
    <3>1. Sound(x) /\ Framed(p, x) /\ Told(p, x) /\ Said(p, x)  BY <1>2
    <3>2. hard(x) = WithHard(x, z)  BY DEF WithHard
    <3>. HIDE DEF hard, z
    <3>. QED BY <3>1, <3>2, HardFramed DEF SameBut
  <2>3. good(ended(x))
    <3>1. Stays(p, x, MarkParent(x)) /\ Sound(MarkParent(x))  BY <1>2, MarkParentSound, MarkParentFramed
    <3>. QED BY <1>2, <3>1 DEF Stays
  <2>. QED BY <2>1, <2>2, <2>3
<1>3. ASSUME NEW x, good(x), ~ New(p, x) PROVE good(removed(x))
  <2>. DEFINE y == WithRes(x, "removed")
              z == WithHard(y, FALSE)
  <2>0. "removed" \in Results /\ "removed" # "restored"  BY DEF Results
  <2>1. Sound(y) /\ Framed(p, y) /\ Told(p, y) /\ Said(p, y)
    BY <1>3, <2>0, ResultFramed
  <2>. HIDE DEF y
  <2>2. Sound(z) /\ Framed(p, z) /\ Told(p, z) /\ Said(p, z)  BY <2>1, HardFramed
  <2>. HIDE DEF z
  <2>3. Stays(p, z, MarkParent(z)) /\ Sound(MarkParent(z))  BY <2>2, MarkParentSound, MarkParentFramed
  <2>4. good(MarkParent(z))  BY <2>2, <2>3 DEF Stays
  <2>5. removed(x) = MarkParent(z)  BY DEF z, y, WithHard, WithRes
  <2>. QED BY <2>4, <2>5
<1>4. PICK d \in data :
        r \in IF IsDet(e)
              THEN Then(OverRemove(m, p, d), LAMBDA x : {removed(x)})
              ELSE Then(first(d), LAMBDA x : Then(eased(hard(x)), LAMBDA t : {ended(t)}))
  BY DEF WriteOver
<1>. HIDE DEF place, act, data, ea, target, date, removed, hard, ended, good
<1>5. ASSUME IsDet(e) PROVE good(r)
  <2>1. PICK x \in OverRemove(m, p, d) : r = x \/ r = removed(x)  BY <1>4, <1>5 DEF Then
  <2>2. good(x) /\ ~ New(p, x)
    <3>1. Sound(x)  BY <2>1, OverRemoveSound
    <3>2. Framed(p, x) /\ Told(p, x) /\ Said(p, x) /\ ~ New(p, x)  BY <1>0, <2>1, OverRemoveFramed
    <3>. QED BY <3>1, <3>2 DEF good
  <2>. QED BY <1>3, <2>1, <2>2
<1>6. ASSUME ~ IsDet(e) PROVE good(r)
  <2>1. ASSUME NEW x \in first(d) PROVE good(x)
    <3>1. CASE x \in OverData(m, p, e, d)
      <4>1. Sound(x)  BY <1>0, <1>6, <3>1, OverDataSound DEF Place
      <4>2. Framed(p, x) /\ Told(p, x) /\ Said(p, x)  BY <1>6, <3>1, OverDataFramed
      <4>. QED BY <4>1, <4>2 DEF good
    <3>2. CASE x = target  BY <1>1, <3>2
    <3>. QED BY <2>1, <3>1, <3>2
  <2>2. ASSUME NEW s, good(s), s.exc = "none", NEW t \in eased(s) PROVE good(t)
    <3>1. t = s \/ \E x \in ea : \E y \in OverEA(s, p, e, place, x) : t = y \/ t = date(y)
      BY <2>2 DEF Then
    <3>2. ASSUME NEW x, NEW y \in OverEA(s, p, e, place, x) PROVE good(y)
      <4>0. Sound(s) /\ Framed(p, s) /\ Told(p, s) /\ Said(p, s)  BY <2>2 DEF good
      <4>1. Sound(y)  BY <1>0, <3>2, <4>0, OverEASound
      <4>2. EAStep(p, s, y)  BY <1>0, <2>2, <3>2, <4>0, OverEAFramed
      <4>. QED BY <4>1, <4>2 DEF EAStep, good
    <3>. QED BY <1>2, <2>2, <3>1, <3>2
  <2>. HIDE DEF first, eased
  <2>3. PICK x \in first(d) : \/ x.exc # "none" /\ r = x
                              \/ x.exc = "none" /\ r \in Then(eased(hard(x)), LAMBDA t : {ended(t)})
    BY <1>4, <1>6 DEF Then
  <2>4. CASE r = x  BY <2>1, <2>4
  <2>5. CASE x.exc = "none" /\ r \in Then(eased(hard(x)), LAMBDA t : {ended(t)})
    <3>1. good(hard(x)) /\ hard(x).exc = "none"  BY <1>2, <2>1, <2>5
    <3>2. \E t \in eased(hard(x)) : r = t \/ r = ended(t)  BY <2>5 DEF Then
    <3>. QED BY <1>2, <2>2, <3>1, <3>2
  <2>. QED BY <2>3, <2>4, <2>5
<1>7. good(r)  BY <1>5, <1>6
<1>. QED BY <1>7 DEF good
-----------------------------------------------------------------------------
(* What leaves the tree as it is: a dry run, and what the policy preserves. *)

Idle(m) == Fields \subseteq DOMAIN m /\ m.disk = disk /\ m.ino = ino
Kept(m) == /\ m.disk = disk /\ DOMAIN m.ino = DOMAIN ino
           /\ \A n \in DOMAIN ino : SameInode(ino[n], m.ino[n])
Leaves == {"preserve", "preserve_mark_saved"}

\* A step that writes another field.
LEMMA ResIdle == ASSUME NEW m, Idle(m), NEW x PROVE Idle(WithRes(m, x)) /\ WithRes(m, x).res = x
BY DEF Idle, Fields, WithRes

\* So does telling whether EA were restored,
LEMMA EAIdle == ASSUME NEW m, Idle(m), NEW x PROVE Idle(WithEA(m, x)) /\ WithEA(m, x).res = m.res
BY DEF Idle, Fields, WithEA

\* whether it is a hard link,
LEMMA HardIdle == ASSUME NEW m, Idle(m), NEW x PROVE Idle(WithHard(m, x)) /\ WithHard(m, x).res = m.res
BY DEF Idle, Fields, WithHard

\* an exception,
LEMMA RaiseIdle == ASSUME NEW m, Idle(m), NEW x PROVE Idle(Raise(m, x)) /\ Raise(m, x).res = m.res
BY DEF Idle, Fields, Raise

\* and the date of the parent to set back.
LEMMA MarkParentIdle == ASSUME NEW m, Idle(m) PROVE Idle(MarkParent(m)) /\ MarkParent(m).res = m.res
BY DEF Idle, Fields, MarkParent

\* EA are read without any effect on the tree.
LEMMA GetEAIdle ==
  ASSUME NEW m, Idle(m), NEW r \in GetEA(m, e) PROVE Idle(r) /\ r.res = m.res
<1>1. r = m \/ r = Raise(m, "range") \/ r = [m EXCEPT !.marks = Tail(@), !.eas = @ \cup {e.id}]
  BY DEF GetEA
<1>2. CASE r = [m EXCEPT !.marks = Tail(@), !.eas = @ \cup {e.id}]  BY <1>2 DEF Idle, Fields
<1>. QED BY <1>1, <1>2, RaiseIdle

\* A dry run makes nothing.
LEMMA WriteNewIdle ==
  ASSUME NEW p, opts.empty, NEW m, Idle(m), NEW r \in WriteNew(m, p, e) PROVE Idle(r)
<1>. DEFINE done == MarkParent(WithRes(m, "restored"))
<1>1. Idle(done)  BY ResIdle, MarkParentIdle
<1>2. \/ r = Raise(m, "range") \/ r = WithHard(m, FALSE) \/ r = m
      \/ r = done \/ r = WithEA(done, TRUE)
  BY DEF WriteNew, Then, WithHard, WithRes, WithEA
<1>. HIDE DEF done
<1>. QED BY <1>1, <1>2, RaiseIdle, HardIdle, EAIdle

\* Nor does what is left in place, by the policy or by a dry run, of its data,
LEMMA OverDataIdle ==
  ASSUME NEW p, NEW m, Idle(m), m.res # "restored", NEW action, opts.empty \/ action \in Leaves,
         NEW r \in OverData(m, p, e, action)
  PROVE  Idle(r) /\ (r.res = "restored" => ino[disk[p]].type = "dir")
<1>0. ASSUME NEW x PROVE Idle(Raise(m, x)) /\ Raise(m, x).res # "restored"  BY RaiseIdle
<1>1. CASE action \in Leaves
  <2>1. r = Raise(m, "range") \/ r = WithRes(m, "policy")  BY <1>1 DEF OverData, Leaves, WithRes
  <2>. QED BY <1>0, <2>1, ResIdle
<1>2. CASE action \in {"overwrite", "overwrite_mark_saved"} /\ opts.empty
  <2>1. \/ r \in OverwriteData(m, p, e)
        \/ r = WithRes(m, "policy") \/ r = Raise(m, "abort")
    BY <1>2 DEF OverData, Confirm, WithRes
  <2>2. r \in OverwriteData(m, p, e) => (BothDirs(m, p, e) /\ r = WithRes(m, "restored")) \/ r = m
    BY <1>2 DEF OverwriteData, WithRes
  <2>. QED BY <1>0, <2>1, <2>2, ResIdle DEF BothDirs
<1>3. CASE action = "remove" /\ opts.empty
  <2>1. r = Raise(m, "abort") \/ r = m \/ r = WithRes(m, "removed")
    BY <1>3 DEF OverData, Confirm, Then, WithRes
  <2>. QED BY <1>0, <2>1, ResIdle
<1>4. CASE action \notin {"preserve", "preserve_mark_saved", "overwrite", "overwrite_mark_saved", "remove"}
  <2>1. r = Raise(m, "range") \/ r = Raise(m, "abort") \/ r = Raise(m, "bug")  BY <1>4 DEF OverData
  <2>. QED BY <1>0, <2>1
<1>. QED BY <1>1, <1>2, <1>3, <1>4 DEF Leaves

\* when a removal is read,
LEMMA OverRemoveIdle ==
  ASSUME NEW p, NEW m, Idle(m), NEW action, opts.empty \/ action \in Leaves, NEW r \in OverRemove(m, p, action)
  PROVE  Idle(r)
<1>1. r = m \/ r = Raise(m, "abort") \/ r = Raise(m, "range") \/ r = Raise(m, "bug")
  BY DEF OverRemove, Confirm, Leaves
<1>. QED BY <1>1, RaiseIdle

\* The EA are read, to be set.
Reading(p, m, given) ==
  Then(GetEA(m, e), LAMBDA g : IF opts.empty THEN {WithEA(g, TRUE)} ELSE RawSetEA(g, p, e, given))

\* when EA are read for nothing,
LEMMA ReadingIdle ==
  ASSUME NEW p, opts.empty, NEW m, Idle(m), NEW given, NEW r \in Reading(p, m, given) PROVE Idle(r) /\ r.res = m.res
<1>1. PICK g \in GetEA(m, e) : r = g \/ r = WithEA(g, TRUE)  BY DEF Then, Reading
<1>2. Idle(g) /\ g.res = m.res  BY GetEAIdle
<1>. QED BY <1>1, <1>2, EAIdle

\* or of its EA.
LEMMA OverEAIdle ==
  ASSUME NEW p, NEW m, Idle(m), NEW place, NEW action, opts.empty \/ action \in Leaves,
         NEW r \in OverEA(m, p, e, place, action)
  PROVE  Idle(r) /\ r.res = m.res
<1>. DEFINE todo == EAToDo(e, place, action)
            no == WithEA(m, FALSE)
            yes(x) == WithEA(x, TRUE)
<1>1. action \in Leaves => todo \in Leaves  BY DEF Leaves, EAToDo
<1>2. Idle(no) /\ no.res = m.res  BY EAIdle
<1>3. ASSUME NEW x PROVE Idle(Raise(m, x)) /\ Raise(m, x).res = m.res  BY RaiseIdle
<1>4. ASSUME NEW x, Idle(x) PROVE Idle(yes(x)) /\ yes(x).res = x.res  BY <1>4, EAIdle
<1>6. CASE todo \in Leaves
  <2>1. r = no  BY <1>6 DEF OverEA, Leaves, WithEA
  <2>. QED BY <1>2, <2>1
<1>7. CASE todo \in {"overwrite", "overwrite_mark_saved"} /\ opts.empty
  <2>1. \/ r = no \/ r = Raise(m, "abort")
        \/ r \in Then(IF opts.empty THEN {m} ELSE RawClearEA(m, p, e), LAMBDA s : Reading(p, s, Given(e)))
    BY <1>7 DEF OverEA, Confirm, WithEA, Reading
  <2>2. r \in Then(IF opts.empty THEN {m} ELSE RawClearEA(m, p, e), LAMBDA s : Reading(p, s, Given(e))) =>
          r = m \/ r \in Reading(p, m, Given(e))
    BY <1>7 DEF Then
  <2>3. r \in Reading(p, m, Given(e)) => Idle(r) /\ r.res = m.res  BY <1>7, ReadingIdle
  <2>. HIDE DEF no
  <2>. QED BY <1>2, <1>3, <2>1, <2>2, <2>3
<1>8. CASE todo = "clear" /\ opts.empty
  <2>1. r = no \/ r = yes(m)  BY <1>8 DEF OverEA, Confirm, WithEA
  <2>. QED BY <1>2, <1>4, <2>1
<1>9. CASE todo \in {"merge_preserve", "merge_overwrite"} /\ opts.empty
  <2>. DEFINE given == Given(e) \cup place.eas
  <2>1. r = no \/ r \in Reading(p, m, given)  BY <1>9 DEF OverEA, Confirm, WithEA, Reading
  <2>. HIDE DEF no, given
  <2>2. r \in Reading(p, m, given) => Idle(r) /\ r.res = m.res  BY <1>9, ReadingIdle
  <2>. QED BY <1>2, <2>1, <2>2
<1>10. CASE /\ todo \notin Leaves
            /\ todo \notin {"overwrite", "overwrite_mark_saved", "clear", "merge_preserve", "merge_overwrite"}
  <2>1. r = Raise(m, "range") \/ r = Raise(m, "abort") \/ r = Raise(m, "bug")
    BY <1>10 DEF OverEA, Leaves
  <2>. QED BY <1>3, <2>1
<1>. QED BY <1>1, <1>6, <1>7, <1>8, <1>9, <1>10

\* The date a step ends with: a directory's, or the one the inode had.
LEMMA DateKept ==
  ASSUME NEW p, TreeOK, p \in DOMAIN disk, NEW m, Idle(m), m.res = "restored" => ino[disk[p]].type = "dir"
  PROVE  Kept(SetDate(m, p, IF m.res = "restored" THEN e.mtime ELSE ino[disk[p]].mtime))
<1>. DEFINE n == disk[p]
            d == IF m.res = "restored" THEN e.mtime ELSE ino[n].mtime
            r == SetDate(m, p, d)
<1>1. n \in DOMAIN ino /\ ino \in Seq(Inodes) /\ ino[n] \in Inodes  BY DEF TreeOK
<1>2. r.disk = disk /\ r.ino = [ino EXCEPT ![n].mtime = d]  BY DEF SetDate, Idle, Fields
<1>3. SameInode(ino[n], [ino[n] EXCEPT !.mtime = d])
  <2>1. CASE m.res = "restored"  BY <1>1, <2>1, DatedSame
  <2>2. CASE m.res # "restored"
    <3>1. [ino[n] EXCEPT !.mtime = d] = ino[n]  BY <1>1, <2>2 DEF Inodes
    <3>. QED BY <3>1 DEF SameInode
  <2>. QED BY <2>1, <2>2
<1>4. /\ DOMAIN r.ino = DOMAIN ino /\ r.ino[n] = [ino[n] EXCEPT !.mtime = d]
      /\ \A x \in DOMAIN ino : x # n => r.ino[x] = ino[x]
  BY <1>1, <1>2
<1>. HIDE DEF r
<1>5. Kept(r)  BY <1>2, <1>3, <1>4 DEF Kept, SameInode
<1>. QED BY <1>5 DEF r, d, n

\* What changed nothing kept it all.
LEMMA IdleKept == ASSUME NEW m, Idle(m) PROVE Kept(m)
BY DEF Idle, Kept, SameInode

\* write() over what is in place, in a dry run or where the policy preserves it.
LEMMA WriteOverKept ==
  ASSUME NEW p, p = Spot(e), TreeOK, p \in DOMAIN disk, opts.empty \/ Spared,
         NEW m, Idle(m), m.res = "no_data", NEW r \in WriteOver(m, p, e)
  PROVE  Kept(r)
<1>. DEFINE place == ino[disk[p]]
            act == Decide(IF opts.restore = "only_deleted" THEN OfDetruits ELSE policy, place, e)
            data == IF act.data = "ask" THEN DataAnswers ELSE {act.data}
            ea == IF act.ea = "ask" THEN EAAnswers ELSE {act.ea}
            target == IF e.hard /\ e.etiq \notin DOMAIN m.corres
                      THEN [m EXCEPT !.corres = With(@, e.etiq, [path |-> p, ea |-> FALSE])] ELSE m
            date(x) == SetDate(x, p, IF x.res = "restored" THEN e.mtime ELSE place.mtime)
            removed(x) == MarkParent([x EXCEPT !.res = "removed", !.hard = FALSE])
            hard(x) == [x EXCEPT !.hard = @ /\ x.res = "restored"]
            eased(s) == IF act.data # "remove" /\ HasEASaved(e)
                        THEN UNION {Then(OverEA(s, p, e, place, x), LAMBDA y : {date(y)}) : x \in ea} ELSE {s}
            ended(t) == IF act.data = "remove" THEN MarkParent(t) ELSE t
            first(d) == IF HasData(e) THEN OverData(m, p, e, d) ELSE {target}
            good(x) == Idle(x) /\ (x.res = "restored" => place.type = "dir")
<1>1. PICK d \in data :
        r \in IF IsDet(e)
              THEN Then(OverRemove(m, p, d), LAMBDA x : {removed(x)})
              ELSE Then(first(d), LAMBDA x : Then(eased(hard(x)), LAMBDA t : {ended(t)}))
  BY DEF WriteOver
<1>2. /\ opts.empty \/ d \in Leaves
      /\ \A x \in ea : opts.empty \/ x \in Leaves
      /\ ~ opts.empty => act.data # "remove"
  BY DEF Spared, Leaves
<1>3. good(target) /\ target.res = "no_data"
  <2>1. target = m \/ \E c : target = [m EXCEPT !.corres = c]  OBVIOUS
  <2>. HIDE DEF target
  <2>. QED BY <2>1 DEF Idle, Fields
<1>4. ASSUME NEW x, good(x) PROVE good(hard(x)) /\ Kept(date(x))
  <2>1. Idle(hard(x)) /\ hard(x).res = x.res
    <3>. DEFINE z == x.hard /\ x.res = "restored"
    <3>1. hard(x) = WithHard(x, z)  BY DEF WithHard
    <3>. HIDE DEF hard, z
    <3>. QED BY <1>4, <3>1, HardIdle
  <2>2. Kept(date(x))  BY <1>4, DateKept
  <2>. QED BY <1>4, <2>1, <2>2
<1>5. ASSUME NEW x, Idle(x) PROVE Kept(removed(x))
  <2>1. removed(x) = MarkParent(WithHard(WithRes(x, "removed"), FALSE))  BY DEF WithHard, WithRes
  <2>2. Idle(WithHard(WithRes(x, "removed"), FALSE))  BY <1>5, ResIdle, HardIdle
  <2>. QED BY <2>1, <2>2, MarkParentIdle, IdleKept
<1>6. ASSUME NEW x, Kept(x), good(x) \/ ~ (act.data = "remove") PROVE Kept(ended(x))
  <2>1. CASE act.data # "remove"  BY <1>6, <2>1
  <2>2. CASE act.data = "remove"
    <3>1. Idle(MarkParent(x))  BY <1>6, <2>2, MarkParentIdle
    <3>. QED BY <2>2, <3>1, IdleKept
  <2>. QED BY <2>1, <2>2
<1>7. ASSUME NEW s, good(s), NEW t \in eased(s) PROVE Kept(t) /\ (good(t) \/ ~ (act.data = "remove"))
  <2>1. CASE t = s  BY <1>7, <2>1, IdleKept
  <2>2. CASE t # s
    <3>. HIDE DEF date, place
    <3>1. act.data # "remove" /\ \E x \in ea : \E y \in OverEA(s, p, e, place, x) : t = y \/ t = date(y)
      BY <1>7, <2>2 DEF Then
    <3>2. ASSUME NEW x \in ea, NEW y \in OverEA(s, p, e, place, x) PROVE Idle(y) /\ good(y)
      <4>0. Idle(s) /\ (opts.empty \/ x \in Leaves)  BY <1>2, <1>7, <3>2
      <4>. HIDE DEF ea, good, eased
      <4>1. Idle(y) /\ y.res = s.res  BY <3>2, <4>0, OverEAIdle
      <4>2. s.res = "restored" => place.type = "dir"  BY <1>7 DEF good
      <4>. QED BY <4>1, <4>2 DEF good
    <3>3. ASSUME NEW y, good(y) PROVE Kept(y) /\ Kept(date(y))  BY <1>4, <3>3, IdleKept
    <3>. HIDE DEF good
    <3>. QED BY <3>1, <3>2, <3>3
  <2>. QED BY <2>1, <2>2
<1>. HIDE DEF place, act, data, ea, target, date, removed, hard, ended
<1>8. CASE IsDet(e)
  <2>1. PICK x \in OverRemove(m, p, d) : r = x \/ r = removed(x)  BY <1>1, <1>8 DEF Then
  <2>2. Idle(x)  BY <1>2, <2>1, OverRemoveIdle
  <2>. QED BY <1>5, <2>1, <2>2, IdleKept
<1>9. CASE ~ IsDet(e)
  <2>1. ASSUME NEW x \in first(d) PROVE good(x)
    <3>1. CASE x \in OverData(m, p, e, d)  BY <1>2, <3>1, OverDataIdle DEF place
    <3>. QED BY <1>3, <2>1, <3>1
  <2>. HIDE DEF first, eased
  <2>2. PICK x \in first(d) : r = x \/ r \in Then(eased(hard(x)), LAMBDA t : {ended(t)})
    BY <1>1, <1>9 DEF Then
  <2>3. r = x \/ \E t \in eased(hard(x)) : r = t \/ r = ended(t)  BY <2>2 DEF Then
  <2>4. Kept(x)  BY <2>1, <2>2, IdleKept
  <2>5. good(hard(x))  BY <1>4, <2>1, <2>2
  <2>. HIDE DEF good
  <2>. QED BY <1>6, <1>7, <2>3, <2>4, <2>5
<1>. QED BY <1>8, <1>9

\* What has changed nothing yet is within what write() reaches.
LEMMA StartFramed ==
  ASSUME NEW p, At(p), NEW m, Sound(m), m.disk = disk, m.ino = ino, m.corres = corres,
         m.stack = stack, m.res = "no_data", m.exc = "none", Ready(m.marks, m.copy)
  PROVE  Framed(p, m) /\ ~ New(p, m)
<1>1. ~ New(p, m)
  <2>1. p \in DOMAIN disk => disk[p] \in 1..Len(ino) /\ Len(ino) \in Nat
    BY LenProperties DEF At, TreeOK
  <2>. QED BY <2>1 DEF New
<1>2. SameKinds(ino, ino) /\ Untouched(p, ino) /\ Made(ino) /\ Elsewhere(p, disk) /\ Rooted(disk, ino)
      /\ Links(p, corres)
  <2>1. Len(ino) <= Len(ino)  BY DEF At, TreeOK
  <2>. QED BY <2>1 DEF SameKinds, Untouched, Made, Elsewhere, Links, SameInode, At
<1>. QED BY <1>1, <1>2 DEF Framed, There

\* The state write() starts from.
LEMMA MemFramed ==
  ASSUME NEW p, At(p), Sound(Mem), Ready(rd.marks, w.copy)
  PROVE  Framed(p, Mem) /\ ~ New(p, Mem) /\ Idle(Mem) /\ Mem.res = "no_data" /\ Mem.exc = "none"
         /\ Mem.marks = rd.marks /\ Mem.copy = w.copy
<1>1. /\ Mem.disk = disk /\ Mem.ino = ino /\ Mem.corres = corres /\ Mem.marks = rd.marks
      /\ Mem.copy = w.copy /\ Mem.stack = stack /\ Mem.res = "no_data" /\ Mem.exc = "none"
  BY DEF Mem
<1>2. Idle(Mem)  BY <1>1 DEF Idle, Sound
<1>. HIDE DEF Mem
<1>3. Framed(p, Mem) /\ ~ New(p, Mem)  BY <1>1, StartFramed
<1>. QED BY <1>1, <1>2, <1>3
-----------------------------------------------------------------------------
(* Where write() is called. *)

\* The directories written in are directories, and are those the stack names.
WhereWritten ==
  /\ Rooted(disk, ino) /\ Leads(cur, disk, ino)
  /\ Len(stack) = Len(cur) /\ \A i \in 1..Len(cur) : stack[i].name = cur[i]

\* What is at the path of a file written is what was restored.
Replaceable == Spot(e) \in DOMAIN disk => /\ ino[disk[Spot(e)]].id # "none"
                                          /\ ino[disk[Spot(e)]].type = "file"
\* Each copy of a file is read at its marks; only what was restored is replaced.
CopiesInOrder ==
  /\ pc = "filter" => rd.marks \in {<<>>, MarksOf(e)}
  /\ pc = "write" => Ready(rd.marks, w.copy)
  /\ pc = "wrote" => Ready(rd.marks, w.copy) \/ (Past(rd.marks, w.copy) /\ ~ opts.empty /\ Replaceable)
  /\ ign => pc = "write" /\ e.type = "file" /\ ~ opts.empty /\ Replaceable
  /\ Busy /\ opts.restore = "only_deleted" => e.type # "file"
  /\ w.exc \in {"none", "range", "abort", "bug", "cancel"}

\* The path written at.
LEMMA SpotIs ==
  ASSUME IInv, WhereWritten, pc = "write" \/ (pc = "wrote" /\ e.type # "dir")
  PROVE  /\ At(Spot(e)) /\ Spot(e) = Append(cur, Name(e)) /\ Name(e) \in Names
         /\ Len(Spot(e)) = Len(cur) + 1 /\ Len(cur) \in Nat
<1>1. Busy  BY DEF Busy
<1>2. /\ arch \in Archives /\ e \in Listed /\ Name(e) \in Names /\ Append(Front(e.path), Name(e)) = e.path
      /\ juillet = [path |-> e.path, init |-> IsDir(e)]
      /\ JuilletDir = IF IsDir(e) THEN e.path ELSE Front(e.path)
      /\ verdict = "none"
  BY <1>1, BusyIs
<1>3. cur \in Seq(Names) /\ TreeOK  BY DEF IInv, Shaped, WalkOK
<1>4. Tame => cur = Front(e.path)
  BY <1>2 DEF IInv, CurrentDir, Tame, IsDir
<1>5. Spot(e) = Append(cur, Name(e))  BY DEF Spot
<1>6. Writes(Spot(e))  BY <1>2, <1>4, <1>5 DEF Writes
<1>7. /\ Spot(e) \in Seq(Names) /\ Len(Spot(e)) = Len(cur) + 1 /\ Len(cur) \in Nat
      /\ Spot(e) # <<>> /\ Front(Spot(e)) = cur
  BY <1>2, <1>3, <1>5, FrontAppend
<1>. QED BY <1>2, <1>3, <1>5, <1>6, <1>7 DEF At, WhereWritten

\* What the call reaches: an outcome of write(), in the tree it found.
Reaches(p, m) ==
  /\ Save(m) /\ Sound(m) /\ Framed(p, m) /\ Told(p, m) /\ Said(p, m)
  /\ ign \/ p \notin DOMAIN disk => Given2(p, m)
  /\ ign => Gone(p, m) \/ (m.exc = "range" /\ m.res = "no_data")
  /\ opts.empty \/ (~ ign /\ p \in DOMAIN disk /\ Spared) => Kept(m)
  /\ IF IsDir(e) /\ m.exc = "none" /\ Entered(m, p, e)
     THEN /\ cur' = p
          /\ stack' = Append(m.stack, [name |-> Name(e), date |-> e.mtime, restore |-> m.res = "restored"])
     ELSE cur' = cur /\ stack' = m.stack

\* Every call of write() ends in one.
LEMMA WriteReaches ==
  ASSUME IInv, WhereWritten, CopiesInOrder, Write
  PROVE  /\ pc = "write" /\ pc' = "wrote" /\ ign' = FALSE /\ UNCHANGED <<source, e, juillet, ends>>
         /\ \E m : Reaches(Spot(e), m)
<1>. DEFINE p == Spot(e)
<1>0. /\ pc = "write" /\ pc' = "wrote" /\ ign' = FALSE /\ UNCHANGED <<source, e, juillet, ends>>
  BY DEF Write
<1>1. At(p) /\ TreeOK /\ Writes(p)  BY <1>0, SpotIs DEF At
<1>2. Ready(rd.marks, w.copy) /\ MarksOK(e, rd.marks) /\ Shaped
  BY <1>0 DEF CopiesInOrder, IInv, Placed
<1>3. Sound(Mem)  BY <1>1, <1>2, MemSound
<1>4. /\ Framed(p, Mem) /\ ~ New(p, Mem) /\ Idle(Mem) /\ Mem.res = "no_data" /\ Mem.exc = "none"
      /\ Mem.marks = rd.marks /\ Mem.copy = w.copy
  BY <1>1, <1>2, <1>3, MemFramed
<1>5. Mem.disk = disk /\ Mem.ino = ino  BY <1>4 DEF Idle
<1>6. PICK m :
        /\ \/ ign /\ m \in Then(Supprime(Mem, p), LAMBDA r : WriteNew(r, p, e))
           \/ ~ ign /\ p \notin DOMAIN disk /\ m \in WriteNew(Mem, p, e)
           \/ ~ ign /\ p \in DOMAIN disk /\ m \in WriteOver(Mem, p, e)
        /\ Save(m)
        /\ IF IsDir(e) /\ m.exc = "none" /\ Entered(m, p, e)
           THEN /\ cur' = p
                /\ stack' = Append(m.stack, [name |-> Name(e), date |-> e.mtime,
                                             restore |-> m.res = "restored"])
           ELSE cur' = cur /\ stack' = m.stack
  BY DEF Write
<1>7. Sound(m)
  <2>1. \/ m \in Then(Supprime(Mem, p), LAMBDA r : WriteNew(r, p, e))
        \/ m \in WriteNew(Mem, p, e)
        \/ p \in DOMAIN disk /\ m \in WriteOver(Mem, p, e)
    BY <1>6
  <2>2. Shaped /\ TreeOK /\ MarksOK(e, rd.marks) /\ Writes(p)  BY <1>1, <1>2
  <2>. HIDE DEF p
  <2>3. CASE m \in Then(Supprime(Mem, p), LAMBDA r : WriteNew(r, p, e))
    <3>1. PICK r \in Supprime(Mem, p) : m = r \/ m \in WriteNew(r, p, e)  BY <2>3 DEF Then
    <3>2. Sound(r)  BY <1>3, <3>1, SupprimeSound
    <3>. QED BY <2>2, <3>1, <3>2, WriteNewSound
  <2>4. CASE m \in WriteNew(Mem, p, e)  BY <2>2, <2>4, OutcomesSound
  <2>5. CASE p \in DOMAIN disk /\ m \in WriteOver(Mem, p, e)  BY <2>2, <2>5, OutcomesSound
  <2>. QED BY <2>1, <2>3, <2>4, <2>5
<1>. HIDE DEF Mem, p, Save
<1>8. CASE ign /\ m \in Then(Supprime(Mem, p), LAMBDA r : WriteNew(r, p, e))
  <2>1. PICK r \in Supprime(Mem, p) : \/ r.exc # "none" /\ m = r
                                      \/ r.exc = "none" /\ m \in WriteNew(r, p, e)
    BY <1>8 DEF Then
  <2>2. Sound(r)  BY <1>3, <2>1, SupprimeSound
  <2>3. /\ Framed(p, r) /\ Told(p, r) /\ Said(p, r)
        /\ \/ r.exc = "range"
           \/ p \in DOMAIN Mem.disk /\ p \notin DOMAIN r.disk /\ r.exc = Mem.exc
        /\ Len(r.ino) = Len(Mem.ino) /\ r.marks = Mem.marks /\ r.copy = Mem.copy
        /\ r.res = Mem.res
    BY <1>1, <1>3, <1>4, <2>1, SupprimeFramed
  <2>4. ~ opts.empty  BY <1>8 DEF CopiesInOrder
  <2>5. CASE r.exc # "none" /\ m = r
    <3>1. Framed(p, m) /\ Told(p, m) /\ Said(p, m) /\ Given2(p, m) /\ m.exc = "range" /\ m.res = "no_data"
      BY <1>4, <2>3, <2>5 DEF Given2
    <3>2. Reaches(p, m)  BY <1>6, <1>7, <1>8, <2>4, <3>1 DEF Reaches
    <3>. QED BY <1>0, <3>2 DEF p
  <2>6. CASE r.exc = "none" /\ m \in WriteNew(r, p, e)
    <3>1. Framed(p, m) /\ Told(p, m) /\ Said(p, m) /\ Gone(p, m) /\ Given2(p, m)
      <4>1. p \notin DOMAIN r.disk /\ r.exc = "none" /\ Ready(r.marks, r.copy) /\ Len(r.ino) = Len(ino)
        BY <1>2, <1>4, <1>5, <2>3, <2>6
      <4>. QED BY <1>1, <2>2, <2>3, <2>6, <4>1, WriteNewFramed
    <3>2. Reaches(p, m)  BY <1>6, <1>7, <1>8, <2>4, <3>1 DEF Reaches
    <3>. QED BY <1>0, <3>2 DEF p
  <2>. QED BY <2>1, <2>5, <2>6
<1>9. CASE ~ ign /\ p \notin DOMAIN disk /\ m \in WriteNew(Mem, p, e)
  <2>1. Framed(p, m) /\ Told(p, m) /\ Said(p, m) /\ Gone(p, m) /\ Given2(p, m)
    <3>1. p \notin DOMAIN Mem.disk /\ Mem.exc = "none" /\ Ready(Mem.marks, Mem.copy) /\ Len(Mem.ino) = Len(ino)
      BY <1>2, <1>4, <1>5, <1>9
    <3>. QED BY <1>1, <1>3, <1>4, <1>9, <3>1, WriteNewFramed
  <2>2. opts.empty => Kept(m)
    <3>1. opts.empty => Idle(m)  BY <1>4, <1>9, WriteNewIdle
    <3>. QED BY <3>1, IdleKept
  <2>3. Reaches(p, m)  BY <1>6, <1>7, <1>9, <2>1, <2>2 DEF Reaches
  <2>. QED BY <1>0, <2>3 DEF p
<1>10. CASE ~ ign /\ p \in DOMAIN disk /\ m \in WriteOver(Mem, p, e)
  <2>1. Framed(p, m) /\ Told(p, m) /\ Said(p, m)
    <3>1. Place(p, Mem) /\ Mem.disk[p] = disk[p]
      BY <1>2, <1>4, <1>5, <1>10 DEF Place
    <3>. QED BY <1>1, <1>3, <1>4, <1>10, <3>1, WriteOverFramed
  <2>2. opts.empty \/ Spared => Kept(m)
    BY <1>1, <1>4, <1>10, WriteOverKept DEF p
  <2>3. Reaches(p, m)  BY <1>6, <1>7, <1>10, <2>1, <2>2 DEF Reaches
  <2>. QED BY <1>0, <2>3 DEF p
<1>. QED BY <1>6, <1>8, <1>9, <1>10

\* What reads, selects, counts or gives up writes nothing.
Quiet ==
  \/ ReadDirect \/ ReadEnd \/ ReadMark \/ ReadPastMarks \/ ReadDetruits
  \/ Cancel \/ SkipDetruit \/ LeaveDirectory \/ Select
  \/ NextCopy \/ Settled \/ Count \/ Failed \/ Interrupted \/ UNCHANGED vars

\* None of these changes the tree or the current directory.
LEMMA QuietIs == ASSUME Quiet PROVE UNCHANGED <<source, disk, ino, cur, stack>>
<1>1. CASE ReadDirect \/ ReadEnd \/ ReadMark \/ ReadPastMarks \/ ReadDetruits
  BY <1>1 DEF ReadDirect, ReadEnd, ReadMark, ReadPastMarks, ReadDetruits, Return, Again, tree, fs
<1>2. CASE Cancel \/ SkipDetruit \/ LeaveDirectory
  BY <1>2 DEF Cancel, SkipDetruit, LeaveDirectory, tree, fs
<1>3. CASE Select  BY <1>3 DEF Select, tree, fs
<1>4. CASE NextCopy \/ Settled \/ Count \/ Failed \/ Interrupted
  BY <1>4 DEF NextCopy, Settled, Count, Failed, Interrupted, tree, fs
<1>5. CASE UNCHANGED vars  BY <1>5 DEF vars, tree, fs
<1>. QED BY <1>1, <1>2, <1>3, <1>4, <1>5 DEF Quiet

\* The others are few.
LEMMA NextIs == ASSUME [Next]_vars PROVE Quiet \/ Write \/ DirtyFile \/ WriteEod \/ Destroy
BY DEF Next, Quiet

\* The current directory stays one,
LEMMA QuietWhere == ASSUME WhereWritten, Quiet PROVE WhereWritten'
<1>1. UNCHANGED <<disk, ino, cur, stack>>  BY QuietIs
<1>. QED BY <1>1 DEF WhereWritten, Rooted, Leads, DirAt

\* The directories above an entry stay.
LEMMA LeadsStays ==
  ASSUME NEW p, At(p), Len(p) = Len(cur) + 1, Len(cur) \in Nat, NEW m, Sound(m), Framed(p, m)
  PROVE  Leads(cur, m.disk, m.ino)
<1>. SUFFICES ASSUME NEW k \in 0..Len(cur), SubSeq(cur, 1, k) \in DOMAIN m.disk
              PROVE  m.ino[m.disk[SubSeq(cur, 1, k)]].type = "dir"
  BY DEF Leads, DirAt
<1>. DEFINE x == SubSeq(cur, 1, k)
<1>1. Len(x) = k  BY PrefixIs DEF At
<1>2. x # p /\ DirAt(disk, ino, x)  BY <1>1 DEF At, Leads
<1>. HIDE DEF x
<1>3. x \in DOMAIN m.disk  BY DEF x
<1>4. x \in DOMAIN disk /\ m.disk[x] = disk[x]  BY <1>2, <1>3 DEF Framed, Elsewhere
<1>5. disk[x] \in DOMAIN ino /\ ino[disk[x]].type = "dir"  BY <1>2, <1>4 DEF DirAt, At, TreeOK
<1>6. m.ino[m.disk[x]].type = "dir"  BY <1>4, <1>5 DEF Framed, SameKinds
<1>. QED BY <1>6 DEF x

\* A directory entered is one.
LEMMA EnteredIsDir ==
  ASSUME NEW p, At(p), NEW m, Sound(m), Framed(p, m), IsDir(e), Entered(m, p, e)
  PROVE  DirAt(m.disk, m.ino, p)
<1>1. CASE m.res = "restored"  BY <1>1 DEF Framed
<1>2. CASE m.res # "restored"
  <2>. SUFFICES ASSUME p \in DOMAIN m.disk PROVE m.ino[m.disk[p]].type = "dir"  BY DEF DirAt
  <2>1. ~ e.hard
    <3>1. e \in Entries(arch.all) /\ arch \in Archives  BY DEF At, Writes, Listed
    <3>. QED BY <3>1, ArchivesAreTrees DEF IsDir
  <2>2. CASE New(p, m)
    <3>1. m.disk[p] \in DOMAIN m.ino /\ m.disk[p] \notin DOMAIN ino
      <4>1. ino \in Seq(Inodes)  BY DEF At, TreeOK
      <4>. QED BY <2>2, <4>1 DEF New, Sound
    <3>. QED BY <3>1 DEF Framed, Made, IsDir
  <2>3. CASE p \in DOMAIN disk /\ m.disk[p] = disk[p]
    <3>1. ino[disk[p]].type = "dir" /\ disk[p] \in DOMAIN ino  BY <1>2, <2>3 DEF Entered, At, TreeOK
    <3>. QED BY <2>3, <3>1 DEF Framed, SameKinds
  <2>. QED BY <2>1, <2>2, <2>3 DEF Framed, There
<1>. QED BY <1>1, <1>2

\* when an entry is written,
LEMMA WriteWhere ==
  ASSUME IInv, WhereWritten, CopiesInOrder, Write PROVE WhereWritten'
<1>. DEFINE p == Spot(e)
<1>1. pc = "write" /\ \E m : Reaches(p, m)  BY WriteReaches
<1>2. PICK m : Reaches(p, m)  BY <1>1
<1>3. At(p) /\ p = Append(cur, Name(e)) /\ Name(e) \in Names /\ Len(p) = Len(cur) + 1 /\ Len(cur) \in Nat
  BY <1>1, SpotIs
<1>. HIDE DEF p
<1>4. /\ Sound(m) /\ Framed(p, m) /\ disk' = m.disk /\ ino' = m.ino
      /\ IF IsDir(e) /\ m.exc = "none" /\ Entered(m, p, e)
         THEN /\ cur' = p
              /\ stack' = Append(m.stack, [name |-> Name(e), date |-> e.mtime, restore |-> m.res = "restored"])
         ELSE cur' = cur /\ stack' = m.stack
  BY <1>2 DEF Reaches, Save
<1>5. Leads(cur, m.disk, m.ino)  BY <1>3, <1>4, LeadsStays
<1>6. Rooted(m.disk, m.ino)  BY <1>4 DEF Framed
<1>7. Len(m.stack) = Len(cur) /\ \A i \in 1..Len(cur) : m.stack[i].name = cur[i]
  BY <1>4 DEF Framed, WhereWritten
<1>8. CASE ~ (IsDir(e) /\ m.exc = "none" /\ Entered(m, p, e))
  BY <1>4, <1>5, <1>6, <1>7, <1>8 DEF WhereWritten, Rooted, Leads, DirAt
<1>9. CASE IsDir(e) /\ m.exc = "none" /\ Entered(m, p, e)
  <2>. DEFINE f == [name |-> Name(e), date |-> e.mtime, restore |-> m.res = "restored"]
  <2>1. cur' = p /\ stack' = Append(m.stack, f)  BY <1>4, <1>9
  <2>2. f.name = Name(e)  OBVIOUS
  <2>. HIDE DEF f
  <2>3. cur \in Seq(Names) /\ p \in Seq(Names) /\ \A i \in 1..Len(cur) : p[i] = cur[i]
    BY <1>3 DEF At
  <2>4. m.stack \in Stacks  BY <1>4 DEF Sound
  <2>5. Len(stack') = Len(p) /\ \A i \in 1..Len(p) : stack'[i].name = p[i]
    <3>1. /\ Len(stack') = Len(cur) + 1 /\ stack'[Len(cur) + 1] = f
          /\ \A i \in 1..Len(cur) : stack'[i] = m.stack[i]
      BY <1>3, <1>7, <2>1, <2>4 DEF Stacks
    <3>2. p[Len(cur) + 1] = Name(e)  BY <1>3, <2>3
    <3>. QED BY <1>3, <1>7, <2>2, <2>3, <3>1, <3>2
  <2>6. Leads(p, m.disk, m.ino)
    <3>. SUFFICES ASSUME NEW k \in 0..Len(p) PROVE DirAt(m.disk, m.ino, SubSeq(p, 1, k))  BY DEF Leads
    <3>1. CASE k = Len(p)
      <4>1. SubSeq(p, 1, Len(p)) = p  BY <2>3, SubSeqFull
      <4>2. DirAt(m.disk, m.ino, p)  BY <1>3, <1>4, <1>9, EnteredIsDir
      <4>. QED BY <3>1, <4>1, <4>2
    <3>2. CASE k # Len(p)
      <4>1. k \in 0..Len(cur) /\ k \in 0..(Len(p) - 1)  BY <1>3, <3>2
      <4>2. SubSeq(Front(p), 1, k) = SubSeq(p, 1, k)  BY <1>3, <4>1, FrontLast DEF At
      <4>3. Front(p) = cur  BY <1>3 DEF At
      <4>. QED BY <1>5, <4>1, <4>2, <4>3 DEF Leads
    <3>. QED BY <3>1, <3>2
  <2>. QED BY <1>4, <1>6, <2>1, <2>5, <2>6 DEF WhereWritten, Rooted, Leads, DirAt
<1>. QED BY <1>8, <1>9
-----------------------------------------------------------------------------
(* What is reached once a file is found dirty. *)

\* Marks left after the last copy.
LEMMA DirtyMarks ==
  ASSUME IInv, CopiesInOrder, pc = "wrote", Reached # <<>>, Head(Reached) = "dirty"
  PROVE  /\ Past(rd.marks, w.copy) /\ ~ opts.empty /\ Replaceable
         /\ Reached = rd.marks /\ Tail(Reached) \in NoData /\ e.type = "file"
<1>1. arch \in Archives /\ e \in Listed  BY BusyIs DEF Busy
<1>2. Reached = rd.marks \/ (HeadIs(rd.marks, "changed") /\ Reached = Tail(rd.marks))
  BY DEF Reached, NextMark, HeadIs
<1>3. ~ Ready(Reached, w.copy) /\ ~ Ready(Reached, w.copy + 1)
  BY <1>1, ReadyIs DEF HeadIs
<1>4. Past(rd.marks, w.copy) /\ ~ opts.empty /\ Replaceable
  <2>1. CASE Ready(rd.marks, w.copy)
    <3>1. ~ HeadIs(rd.marks, "changed")  BY <1>1, <2>1, ReadyIs
    <3>. QED BY <1>2, <1>3, <2>1, <3>1
  <2>. QED BY <2>1 DEF CopiesInOrder
<1>5. Reached = rd.marks
  <2>1. HeadIs(rd.marks, "changed") => Ready(Tail(rd.marks), w.copy + 1)  BY <1>1, <1>4, PastIs
  <2>. QED BY <1>2, <1>3, <2>1
<1>6. HeadIs(Reached, "dirty")  BY DEF HeadIs
<1>7. Tail(Reached) \in NoData  BY <1>1, <1>4, <1>5, <1>6, PastIs
<1>. QED BY <1>4, <1>5, <1>7 DEF Past, Stored

\* The removal of the file, or what leaves it there.
Removes(p, m) ==
  /\ Sound(m) /\ Framed(p, m) /\ ~ New(p, m) /\ m.corres = corres /\ disk' = m.disk /\ ino' = m.ino
  /\ DOMAIN m.disk \subseteq DOMAIN disk /\ \A q \in DOMAIN m.disk : m.disk[q] = disk[q]
  /\ Len(m.ino) = Len(ino)
  /\ w'.exc \in {"none", "range"}
  /\ Len(stack') = Len(stack) /\ \A i \in 1..Len(stack) : stack'[i].name = stack[i].name

\* A file found dirty is the one just restored: nothing else is there to remove.
LEMMA DirtyIs ==
  ASSUME IInv, WhereWritten, CopiesInOrder, DirtyFile
  PROVE  /\ pc = "wrote" /\ w.exc = "none" /\ e.type = "file" /\ ~ opts.empty /\ Replaceable
         /\ pc' = (IF w'.exc = "none" THEN "count" ELSE "wrote")
         /\ UNCHANGED <<source, e, juillet, cur, ign, ends, ghost>>
         /\ rd'.marks \in NoData /\ w'.copy = w.copy /\ corres' = corres
         /\ \/ \E m : Removes(Spot(e), m)
            \/ UNCHANGED <<disk, ino, stack>> /\ w'.exc \in {"none", "abort"}
<1>. DEFINE start == [Mem EXCEPT !.marks = Tail(Reached)]
            p == Spot(e)
<1>1. /\ pc = "wrote" /\ w.exc = "none" /\ Reached # <<>> /\ Head(Reached) = "dirty"
      /\ pc' = (IF w'.exc = "none" THEN "count" ELSE "wrote")
      /\ UNCHANGED <<source, e, juillet, cur, ign, ends, ghost>>
  BY DEF DirtyFile
<1>2. ~ opts.empty /\ Replaceable /\ Tail(Reached) \in NoData /\ e.type = "file"
  BY <1>1, DirtyMarks
<1>3. At(p)  BY <1>1, <1>2, SpotIs
<1>4. Sound(start)
  <2>1. MarksOK(e, rd.marks) /\ Shaped /\ TreeOK  BY <1>1 DEF IInv, Placed
  <2>2. MarksOK(e, Tail(Reached))
    <3>1. rd.status # "marks" => rd.marks = <<>>  BY <2>1 DEF MarksOK
    <3>2. rd.status = "marks"  BY <1>1, <3>1 DEF Reached, NextMark
    <3>. QED BY <1>2, <3>2 DEF MarksOK
  <2>3. Sound(Mem)  BY <2>1, MemSound
  <2>. QED BY <2>2, <2>3, MarksSound
<1>5. /\ start.disk = disk /\ start.ino = ino /\ start.corres = corres /\ start.stack = stack
      /\ start.res = "no_data" /\ start.exc = "none" /\ start.marks = Tail(Reached) /\ start.copy = w.copy
  BY DEF Mem
<1>6. Framed(p, start) /\ ~ New(p, start)
  <2>1. Ready(start.marks, start.copy)  BY <1>2, <1>5 DEF Ready
  <2>. HIDE DEF start, p
  <2>. QED BY <1>3, <1>4, <1>5, <2>1, StartFramed
<1>7. CASE \E m \in Supprime(start, p) :
             /\ Save([m EXCEPT !.res = w.res, !.ea = w.ea, !.hard = w.hard])
             /\ stack' = IF m.exc = "none" THEN MarkParent(m).stack ELSE stack
  <2>1. PICK m \in Supprime(start, p) :
             /\ Save([m EXCEPT !.res = w.res, !.ea = w.ea, !.hard = w.hard])
             /\ stack' = IF m.exc = "none" THEN MarkParent(m).stack ELSE stack
    BY <1>7
  <2>. DEFINE r == [m EXCEPT !.res = w.res, !.ea = w.ea, !.hard = w.hard]
  <2>. HIDE DEF start, p
  <2>2. Sound(m)  BY <1>4, <2>1, SupprimeSound
  <2>3. /\ Framed(p, m)
        /\ \/ m.exc = "range"
           \/ m.exc = start.exc
        /\ DOMAIN m.disk \subseteq DOMAIN start.disk /\ \A q \in DOMAIN m.disk : m.disk[q] = start.disk[q]
        /\ Len(m.ino) = Len(start.ino) /\ m.corres = start.corres /\ m.marks = start.marks /\ m.copy = start.copy
    BY <1>3, <1>4, <1>6, <2>1, SupprimeFramed
  <2>4. /\ r.disk = m.disk /\ r.ino = m.ino /\ r.corres = m.corres /\ r.marks = m.marks /\ r.copy = m.copy
        /\ r.exc = m.exc
    BY <2>2 DEF Sound, Fields
  <2>5. ReaderOK /\ UNCHANGED source  BY <1>1 DEF IInv, Shaped
  <2>. HIDE DEF r, Save
  <2>6. /\ rd'.marks = m.marks /\ w'.copy = m.copy /\ w'.exc = m.exc /\ disk' = m.disk /\ ino' = m.ino
        /\ corres' = m.corres
    <3>1. Save(r)  BY <2>1 DEF r
    <3>. QED BY <2>4, <2>5, <3>1, SaveIs
  <2>7. Len(stack') = Len(stack) /\ \A i \in 1..Len(stack) : stack'[i].name = stack[i].name
    <3>1. Stays(p, m, MarkParent(m))  BY <2>2, <2>3, MarkParentFramed
    <3>2. Framed(p, MarkParent(m))  BY <2>3, <3>1 DEF Stays
    <3>3. stack' = MarkParent(m).stack \/ stack' = stack  BY <2>1
    <3>. QED BY <3>2, <3>3 DEF Framed
  <2>8. ~ New(p, m)  BY <1>5, <1>6, <2>3 DEF New
  <2>9. Removes(p, m)  BY <1>5, <2>2, <2>3, <2>6, <2>7, <2>8 DEF Removes
  <2>. QED BY <1>1, <1>2, <1>5, <2>3, <2>6, <2>9 DEF p
<1>8. CASE /\ Save([Mem EXCEPT !.marks = Tail(Reached), !.res = w.res, !.ea = w.ea, !.hard = w.hard,
                            !.exc = IF opts.dirty = "ok" THEN "none" ELSE "abort"])
           /\ UNCHANGED stack
  <2>1. disk' = disk /\ ino' = ino /\ corres' = corres /\ w'.copy = w.copy /\ w'.exc \in {"none", "abort"}
    BY <1>8 DEF Save, Mem
  <2>2. rd'.marks = Tail(Reached)
    <3>1. "marks" \in DOMAIN rd
      <4>1. ReaderOK  BY DEF IInv, Shaped
      <4>. QED BY <4>1 DEF ReaderOK
    <3>. QED BY <1>8, <3>1 DEF Save, Mem
  <2>. QED BY <1>1, <1>2, <1>8, <2>1, <2>2
<1>. QED BY <1>7, <1>8 DEF DirtyFile

\* What leads to a path is a directory.
LEMMA LeadsAt ==
  ASSUME NEW s, NEW d, NEW i, Leads(s, d, i), NEW k \in 0..Len(s), NEW x, x = SubSeq(s, 1, k), x \in DOMAIN d
  PROVE  i[d[x]].type = "dir"
<1>1. DirAt(d, i, SubSeq(s, 1, k))  BY DEF Leads
<1>. QED BY <1>1 DEF DirAt

\* The dates of directories, and nothing else.
DatesOnly == /\ DOMAIN ino' = DOMAIN ino /\ Len(ino') = Len(ino)
             /\ \A n \in DOMAIN ino : SameInode(ino[n], ino'[n])
             /\ opts.empty => \A n \in DOMAIN ino : ino'[n] = ino[n]
\* What a new date leaves of an inode.
LEMMA SameIs ==
  ASSUME NEW i \in Inodes, NEW j, SameInode(i, j) PROVE j.type = i.type /\ j.id = i.id /\ j.copy = i.copy
BY DEF SameInode, Inodes

\* Dates change no type of an inode and no copy.
LEMMA DatesKinds ==
  ASSUME TreeOK, DatesOnly PROVE SameKinds(ino, ino')
<1>1. ino \in Seq(Inodes) /\ Len(ino) \in Nat  BY DEF TreeOK
<1>2. ASSUME NEW n \in DOMAIN ino
      PROVE  ino'[n].type = ino[n].type /\ ino'[n].id = ino[n].id /\ ino'[n].copy = ino[n].copy
  <2>1. ino[n] \in Inodes /\ SameInode(ino[n], ino'[n])  BY <1>1 DEF DatesOnly
  <2>. QED BY <2>1, SameIs
<1>. QED BY <1>1, <1>2 DEF SameKinds, DatesOnly

\* The end of a directory dates that directory.
LEMMA WriteEodIs ==
  ASSUME IInv, WhereWritten, WriteEod
  PROVE  /\ UNCHANGED <<source, disk, corres, ign, rd, e, w, stats>> /\ pc = "eod" /\ pc' \in {"reading", "end"}
         /\ DatesOnly
         /\ \/ UNCHANGED <<cur, stack>>
            \/ stack # <<>> /\ cur' = Front(cur) /\ stack' = Front(stack)
<1>1. /\ UNCHANGED <<source, disk, corres, ign, rd, e, w, stats>> /\ pc = "eod" /\ pc' \in {"reading", "end"}
      /\ \/ UNCHANGED <<ino, cur, stack>>
         \/ /\ stack # <<>> /\ cur' = Front(cur) /\ stack' = Front(stack)
            /\ LET p == Append(Front(cur), Last(stack).name) IN
               ino' = IF ~ opts.empty /\ Last(stack).restore /\ p \in DOMAIN disk
                      THEN [ino EXCEPT ![disk[p]].mtime = Last(stack).date] ELSE ino
  BY DEF WriteEod, reader, Stop
<1>2. ino \in Seq(Inodes) /\ \A q \in DOMAIN disk : disk[q] \in DOMAIN ino  BY DEF IInv, TreeOK
<1>3. CASE UNCHANGED <<ino, cur, stack>>  BY <1>1, <1>3 DEF DatesOnly, SameInode
<1>4. CASE /\ stack # <<>> /\ cur' = Front(cur) /\ stack' = Front(stack)
           /\ LET p == Append(Front(cur), Last(stack).name) IN
              ino' = IF ~ opts.empty /\ Last(stack).restore /\ p \in DOMAIN disk
                     THEN [ino EXCEPT ![disk[p]].mtime = Last(stack).date] ELSE ino
  <2>. DEFINE p == Append(Front(cur), Last(stack).name)
  <2>1. cur \in Seq(Names) /\ stack \in Seq(Frames)  BY DEF IInv, Shaped, WalkOK, Stacks
  <2>2. Len(stack) = Len(cur) /\ Len(stack) \in Nat \ {0} /\ cur # <<>>
    <3>1. Len(stack) \in Nat \ {0}  BY <1>4, <2>1, FrontLast
    <3>. QED BY <3>1 DEF WhereWritten
  <2>3. p = cur /\ SubSeq(cur, 1, Len(cur)) = cur
    <3>1. Last(stack).name = Last(cur)  BY <2>2 DEF WhereWritten, Last
    <3>. QED BY <2>1, <2>2, <3>1, FrontLast, SubSeqFull
  <2>4. p \in DOMAIN disk => ino[disk[p]].type = "dir"
    <3>1. Leads(cur, disk, ino) /\ Len(cur) \in 0..Len(cur)  BY <2>2 DEF WhereWritten
    <3>. HIDE DEF p
    <3>. QED BY <2>3, <3>1, LeadsAt
  <2>5. DatesOnly
    <3>. HIDE DEF p
    <3>1. CASE ino' = ino  BY <3>1 DEF DatesOnly, SameInode
    <3>2. CASE /\ p \in DOMAIN disk /\ ~ opts.empty
               /\ ino' = [ino EXCEPT ![disk[p]].mtime = Last(stack).date]
      <4>. DEFINE k == disk[p]
                  d == Last(stack).date
      <4>1. k \in DOMAIN ino /\ ino[k] \in Inodes /\ ino[k].type = "dir"  BY <1>2, <2>4, <3>2
      <4>2. SameInode(ino[k], [ino[k] EXCEPT !.mtime = d])  BY <4>1, DatedSame
      <4>3. ino' = [ino EXCEPT ![k] = [ino[k] EXCEPT !.mtime = d]]  BY <3>2
      <4>. HIDE DEF k, d
      <4>4. Len(ino') = Len(ino) /\ DOMAIN ino' = DOMAIN ino
            /\ \A n \in DOMAIN ino : ino'[n] = IF n = k THEN [ino[k] EXCEPT !.mtime = d] ELSE ino[n]
        BY <1>2, <4>1, <4>3
      <4>. QED BY <3>2, <4>2, <4>4 DEF DatesOnly, SameInode
    <3>. QED BY <1>4, <3>1, <3>2 DEF p
  <2>. QED BY <1>1, <1>4, <2>5
<1>. QED BY <1>1, <1>3, <1>4

\* The destructor dates the directories left open.
LEMMA DestroyIs ==
  ASSUME IInv, WhereWritten, Destroy
  PROVE  /\ UNCHANGED <<source, disk, corres, ign, rd, e, w, ends>> /\ pc = "end" /\ pc' = "gone"
         /\ DatesOnly /\ stack' = <<>> /\ cur' = <<>>
<1>. DEFINE above(i) == Append(SubSeq(cur, 1, Len(cur) - (Len(stack) - i) - 1), stack[i].name)
            here(n) == {i \in 1..Len(stack) : i <= Len(cur) /\ above(i) \in DOMAIN disk /\ disk[above(i)] = n}
            dated(n) == IF opts.empty \/ here(n) = {} THEN ino[n]
                        ELSE [ino[n] EXCEPT !.mtime = stack[CHOOSE i \in here(n) : TRUE].date]
<1>1. /\ UNCHANGED <<source, disk, corres, ign, rd, e, w, ends>> /\ pc = "end" /\ pc' = "gone"
      /\ stack' = <<>> /\ cur' = <<>> /\ ino' = [n \in DOMAIN ino |-> dated(n)]
  BY DEF Destroy, reader, ends
<1>2. ino \in Seq(Inodes) /\ cur \in Seq(Names) /\ Len(cur) \in Nat  BY DEF IInv, Shaped, WalkOK, TreeOK
<1>3. ASSUME NEW i \in 1..Len(stack), above(i) \in DOMAIN disk PROVE ino[disk[above(i)]].type = "dir"
  <2>1. Len(stack) = Len(cur) /\ i \in 1..Len(cur) /\ stack[i].name = cur[i]
    BY DEF WhereWritten
  <2>2. Len(cur) - (Len(stack) - i) - 1 = i - 1  BY <1>2, <2>1
  <2>3. above(i) = SubSeq(cur, 1, i)
    <3>1. SubSeq(cur, 1, i) = Append(SubSeq(cur, 1, i - 1), cur[i])
      <4>1. /\ SubSeq(cur, 1, i) \in Seq(Names) /\ Len(SubSeq(cur, 1, i)) = i /\ SubSeq(cur, 1, i) # <<>>
        BY <1>2, <2>1, PrefixIs
      <4>2. SubSeq(SubSeq(cur, 1, i), 1, i - 1) = SubSeq(cur, 1, i - 1)
        BY <1>2, <2>1, PrefixIs
      <4>3. SubSeq(cur, 1, i)[i] = cur[i]  BY <1>2, <2>1
      <4>. QED BY <4>1, <4>2, <4>3, FrontLast DEF Front, Last
    <3>. QED BY <2>1, <2>2, <3>1
  <2>4. Leads(cur, disk, ino) /\ i \in 0..Len(cur)  BY <1>2, <2>1 DEF WhereWritten
  <2>. HIDE DEF above
  <2>. QED BY <1>3, <2>3, <2>4, LeadsAt
<1>4. ASSUME NEW n \in DOMAIN ino PROVE SameInode(ino[n], dated(n)) /\ (opts.empty => dated(n) = ino[n])
  <2>1. here(n) # {} => ino[n].type = "dir"  BY <1>3
  <2>2. ino[n] \in Inodes  BY <1>2
  <2>3. SameInode(ino[n], ino[n])  BY DEF SameInode
  <2>. HIDE DEF here
  <2>. QED BY <2>1, <2>2, <2>3, DatedSame
<1>. HIDE DEF dated
<1>5. ino' \in Seq(Inodes)  BY DestroyKeeps DEF IInv, TreeOK
<1>. QED BY <1>1, <1>2, <1>4, <1>5 DEF DatesOnly

\* when a dirty file is removed,
LEMMA DirtyWhere ==
  ASSUME IInv, WhereWritten, CopiesInOrder, DirtyFile PROVE WhereWritten'
<1>1. /\ pc = "wrote" /\ e.type = "file" /\ cur' = cur
      /\ \/ \E m : Removes(Spot(e), m)
         \/ UNCHANGED <<disk, ino, stack>>
  BY DirtyIs
<1>2. CASE UNCHANGED <<disk, ino, stack>>  BY <1>1, <1>2 DEF WhereWritten, Rooted, Leads, DirAt
<1>3. CASE \E m : Removes(Spot(e), m)
  <2>. DEFINE p == Spot(e)
  <2>1. PICK m : Removes(p, m)  BY <1>3
  <2>2. At(p) /\ Len(p) = Len(cur) + 1 /\ Len(cur) \in Nat  BY <1>1, SpotIs
  <2>. HIDE DEF p
  <2>3. Leads(cur, m.disk, m.ino)  BY <2>1, <2>2, LeadsStays DEF Removes
  <2>. QED BY <1>1, <2>1, <2>3 DEF WhereWritten, Rooted, Leads, DirAt, Removes, Framed
<1>. QED BY <1>1, <1>2, <1>3

\* at the end of a directory,
LEMMA WriteEodWhere ==
  ASSUME IInv, WhereWritten, WriteEod PROVE WhereWritten'
<1>1. /\ disk' = disk /\ DatesOnly
      /\ \/ UNCHANGED <<cur, stack>>
         \/ stack # <<>> /\ cur' = Front(cur) /\ stack' = Front(stack)
  BY WriteEodIs
<1>2. TreeOK /\ cur \in Seq(Names) /\ stack \in Seq(Frames) /\ ino \in Seq(Inodes)
      /\ \A q \in DOMAIN disk : disk[q] \in DOMAIN ino
  BY DEF IInv, Shaped, WalkOK, Stacks, TreeOK
<1>3. SameKinds(ino, ino')  BY <1>1, <1>2, DatesKinds
<1>4. Rooted(disk, ino')  BY <1>2, <1>3, RootedStays DEF WhereWritten
<1>5. Leads(cur, disk, ino')  BY <1>2, <1>3 DEF WhereWritten, Leads, DirAt, SameKinds
<1>6. CASE UNCHANGED <<cur, stack>>  BY <1>1, <1>4, <1>5, <1>6 DEF WhereWritten, Rooted, Leads, DirAt
<1>7. CASE stack # <<>> /\ cur' = Front(cur) /\ stack' = Front(stack)
  <2>1. Len(stack) = Len(cur) /\ Len(stack) \in Nat \ {0} /\ cur # <<>>
    <3>1. Len(stack) \in Nat \ {0}  BY <1>2, <1>7, FrontLast
    <3>. QED BY <3>1 DEF WhereWritten
  <2>2. /\ Len(cur') = Len(cur) - 1 /\ Len(stack') = Len(cur) - 1
        /\ \A i \in 1..(Len(cur) - 1) : cur'[i] = cur[i] /\ stack'[i] = stack[i]
        /\ \A k \in 0..(Len(cur) - 1) : SubSeq(cur', 1, k) = SubSeq(cur, 1, k)
    BY <1>2, <1>7, <2>1, FrontLast
  <2>3. Leads(cur', disk, ino')
    <3>. SUFFICES ASSUME NEW k \in 0..Len(cur') PROVE DirAt(disk, ino', SubSeq(cur', 1, k))  BY DEF Leads
    <3>1. k \in 0..Len(cur) /\ k \in 0..(Len(cur) - 1)  BY <2>1, <2>2
    <3>2. DirAt(disk, ino', SubSeq(cur, 1, k))  BY <1>5, <3>1 DEF Leads
    <3>. QED BY <2>2, <3>1, <3>2
  <2>4. Len(stack') = Len(cur') /\ \A i \in 1..Len(cur') : stack'[i].name = cur'[i]
    BY <2>1, <2>2 DEF WhereWritten
  <2>. QED BY <1>1, <1>4, <2>3, <2>4 DEF WhereWritten, Rooted, Leads, DirAt
<1>. QED BY <1>1, <1>6, <1>7

\* at the end of all,
LEMMA DestroyWhere ==
  ASSUME IInv, WhereWritten, Destroy PROVE WhereWritten'
<1>1. disk' = disk /\ DatesOnly /\ stack' = <<>> /\ cur' = <<>>  BY DestroyIs
<1>2. TreeOK /\ cur \in Seq(Names) /\ ino \in Seq(Inodes) /\ \A q \in DOMAIN disk : disk[q] \in DOMAIN ino
  BY DEF IInv, Shaped, WalkOK, TreeOK
<1>3. SameKinds(ino, ino')  BY <1>1, <1>2, DatesKinds
<1>4. Rooted(disk, ino')  BY <1>2, <1>3, RootedStays DEF WhereWritten
<1>5. Leads(cur, disk, ino')  BY <1>2, <1>3 DEF WhereWritten, Leads, DirAt, SameKinds
<1>6. Leads(<<>>, disk, ino')
  <2>1. SubSeq(cur, 1, 0) = <<>> /\ SubSeq(<<>>, 1, 0) = <<>> /\ Len(<<>>) = 0 /\ 0 \in 0..Len(cur)
    BY <1>2
  <2>2. DirAt(disk, ino', <<>>)  BY <1>5, <2>1 DEF Leads
  <2>. SUFFICES ASSUME NEW k \in 0..Len(<<>>) PROVE DirAt(disk, ino', SubSeq(<<>>, 1, k))  BY DEF Leads
  <2>3. k = 0  BY <2>1
  <2>. QED BY <2>1, <2>2, <2>3
<1>7. Len(stack') = Len(cur') /\ \A i \in 1..Len(cur') : stack'[i].name = cur'[i]
  BY <1>1
<1>. QED BY <1>1, <1>4, <1>6, <1>7 DEF WhereWritten, Rooted, Leads, DirAt

\* and at the start.
LEMMA InitWhere == ASSUME Init PROVE WhereWritten
<1>1. PICK d \in Disks : disk = d.disk /\ ino = d.ino  BY DEF Init
<1>2. cur = <<>> /\ stack = <<>> /\ Len(<<>>) = 0  BY DEF Init
<1>3. SubSeq(<<>>, 1, 0) = <<>>  OBVIOUS
<1>4. Leads(cur, disk, ino)
  <2>. SUFFICES ASSUME NEW k \in 0..Len(cur) PROVE DirAt(disk, ino, SubSeq(cur, 1, k))  BY DEF Leads
  <2>1. DirAt(disk, ino, <<>>)  BY <1>1, DisksAreTrees DEF DirAt
  <2>2. k = 0  BY <1>2
  <2>. QED BY <1>2, <1>3, <2>1, <2>2
<1>5. Rooted(disk, ino)  BY <1>1, DisksAreTrees DEF Rooted
<1>. QED BY <1>2, <1>4, <1>5 DEF WhereWritten

-----------------------------------------------------------------------------
(* The copies of a file are read in order. *)

\* What follows the header of an entry read.
LEMMA ReadsCopies ==
  ASSUME IInv, CopiesInOrder, ReadDirect \/ ReadMark \/ ReadPastMarks \/ ReadDetruits
  PROVE  CopiesInOrder'
<1>1. /\ pc = "reading" /\ UNCHANGED <<opts, w, ign>> /\ pc' \in {"reading", "filter", "end"}
  BY DEF ReadDirect, ReadMark, ReadPastMarks, ReadDetruits, Return, Again, Stop, source, fs
<1>2. pc' = "filter" => rd'.marks \in {<<>>, MarksOf(e')}
  <2>0. /\ rd = [status |-> rd.status, pos |-> rd.pos, depth |-> rd.depth, wait |-> rd.wait,
                 marks |-> rd.marks, eas |-> rd.eas]
        /\ rd.status # "marks" => rd.marks = <<>>
    BY DEF IInv, Shaped, ReaderOK, Placed
  <2>1. CASE ReadDirect \/ ReadDetruits
    <3>1. rd' = [rd EXCEPT !.pos = @ + 1] /\ rd.status # "marks"
      BY <2>1 DEF ReadDirect, ReadDetruits
    <3>. QED BY <2>0, <3>1
  <2>2. CASE ReadMark
    <3>. DEFINE it == arch.items[rd.pos + 1]
    <3>1. pc' = "filter" => e' = it /\ \E d : rd' = [rd EXCEPT !.pos = @ + 1, !.depth = d, !.marks = MarksOf(it)]
      BY <1>1, <2>2 DEF ReadMark, Return, Again
    <3>. HIDE DEF it
    <3>. QED BY <2>0, <3>1
  <2>3. CASE ReadPastMarks
    <3>1. pc' = "filter" => rd' = [rd EXCEPT !.status = "eod", !.depth = @ - 1, !.marks = <<>>]
      BY <1>1, <2>3 DEF ReadPastMarks, Again, Stop
    <3>. QED BY <2>0, <3>1
  <2>. QED BY <2>1, <2>2, <2>3
<1>3. ~ ign /\ w.exc \in {"none", "range", "abort", "bug", "cancel"}  BY <1>1 DEF CopiesInOrder
<1>. QED BY <1>1, <1>2, <1>3 DEF CopiesInOrder, Busy

\* The first copy is next when the entry is written.
LEMMA FirstCopy ==
  ASSUME arch \in Archives, e \in Listed, NEW marks, marks \in {<<>>, MarksOf(e)}
  PROVE  Ready(marks, 1)
<1>1. CASE marks = <<>>  BY <1>1 DEF Ready, NoData
<1>2. CASE Stored(e) /\ marks = MarksOf(e)
  <2>1. Len(e.copies) \in Nat \ {0} /\ From(e, 1) = MarksOf(e)  BY <1>2, MarksFrom
  <2>2. 1 \in 1..Len(e.copies) /\ 2 * 1 - 1 = 1  BY <2>1
  <2>. QED BY <1>2, <2>1, <2>2 DEF Ready
<1>3. CASE ~ Stored(e) /\ marks = MarksOf(e)  BY <1>3 DEF Stored, MarksOf, Ready, NoData
<1>. QED BY <1>1, <1>2, <1>3

\* An entry selected has its marks ahead.
LEMMA SelectCopies ==
  ASSUME IInv, CopiesInOrder, Select PROVE CopiesInOrder'
<1>1. /\ pc = "filter" /\ UNCHANGED <<opts, arch, e, ign>> /\ e.type # "eod"
      /\ \/ /\ pc' \in {"reading", "end"} /\ w' = w
         \/ /\ pc' = "write" /\ w' = NothingDone /\ rd' = rd /\ Covered(e, Enfile(e).path)
         \/ /\ pc' = "wrote" /\ w' = [NothingDone EXCEPT !.exc = "abort"] /\ rd' = rd /\ opts.mode = "direct"
            /\ Covered(e, Enfile(e).path)
  BY DEF Select, source, fs, Stop
<1>2. ~ ign /\ w.exc \in {"none", "range", "abort", "bug", "cancel"} /\ rd.marks \in {<<>>, MarksOf(e)}
  BY <1>1 DEF CopiesInOrder
<1>3. CASE pc' \in {"reading", "end"} /\ w' = w  BY <1>1, <1>2, <1>3 DEF CopiesInOrder, Busy
<1>4. CASE pc' \in {"write", "wrote"}
  <2>1. IInv'  BY SelectKeeps
  <2>2. arch \in Archives /\ e \in Listed
    <3>1. arch' \in Archives /\ e' \in Listed'  BY <1>4, <2>1 DEF IInv, Shaped, WalkOK, Placed, Busy
    <3>. QED BY <1>1, <3>1 DEF Listed
  <2>3. w'.copy = 1 /\ w'.exc \in {"none", "abort"}  BY <1>1, <1>4 DEF NothingDone
  <2>4. rd' = rd /\ Covered(e, Enfile(e).path)  BY <1>1, <1>4
  <2>5. Ready(rd'.marks, 1)  BY <1>2, <2>2, <2>4, FirstCopy
  <2>6. opts.restore = "only_deleted" => e.type # "file"  BY <2>4 DEF Covered, IsDir, IsDet
  <2>7. (pc' = "write" => Ready(rd.marks, w.copy)') /\ (pc' = "wrote" => Ready(rd.marks, w.copy)')
    BY <1>1, <2>3, <2>5 DEF Ready
  <2>. QED BY <1>1, <1>2, <1>4, <2>3, <2>6, <2>7 DEF CopiesInOrder
<1>. QED BY <1>1, <1>3, <1>4

\* What write() leaves of the marks.
LEMMA NewIs ==
  ASSUME NEW p, TreeOK, NEW m, Sound(m), Framed(p, m), New(p, m)
  PROVE  /\ m.disk[p] \in DOMAIN m.ino /\ m.disk[p] \notin DOMAIN ino
         /\ m.ino[m.disk[p]].type = e.type /\ m.ino[m.disk[p]].id = e.id
<1>1. m.disk[p] \in DOMAIN m.ino /\ m.disk[p] \notin DOMAIN ino
  BY DEF TreeOK, New, Sound
<1>. QED BY <1>1 DEF Framed, Made

\* An entry written has its marks behind, or those of nothing.
LEMMA WriteCopies ==
  ASSUME IInv, WhereWritten, CopiesInOrder, Write PROVE CopiesInOrder'
<1>. DEFINE p == Spot(e)
<1>1. /\ pc = "write" /\ pc' = "wrote" /\ ign' = FALSE /\ UNCHANGED <<source, e, juillet, ends>>
      /\ \E m : Reaches(p, m)
  BY WriteReaches
<1>2. PICK m : Reaches(p, m)  BY <1>1
<1>3. At(p) /\ TreeOK /\ e \in Listed /\ arch \in Archives  BY <1>1, SpotIs DEF At, Writes
<1>4. e.id # "none"
  <2>1. e \in Entries(arch.all)  BY <1>3 DEF Listed
  <2>. QED BY <1>3, <2>1, ArchivesAreTrees
<1>5. Save(m) /\ Sound(m) /\ Framed(p, m)  BY <1>2 DEF Reaches
<1>6. rd'.marks = m.marks /\ w'.copy = m.copy /\ w'.exc = m.exc /\ disk' = m.disk /\ ino' = m.ino
  <2>1. ReaderOK /\ UNCHANGED source  BY <1>1 DEF IInv, Shaped
  <2>. QED BY <1>5, <2>1, SaveIs
<1>7. UNCHANGED <<opts, e>>  BY <1>1 DEF source
<1>8. m.exc \in {"none", "range", "abort", "bug", "cancel"}
      /\ (Ready(m.marks, m.copy) \/ (Past(m.marks, m.copy) /\ ~ opts.empty /\ (p \in DOMAIN m.disk => New(p, m))))
  BY <1>5 DEF Framed
<1>9. ASSUME Past(m.marks, m.copy), p \in DOMAIN m.disk => New(p, m) PROVE Replaceable'
  <2>1. e.type = "file"  BY <1>9 DEF Past, Stored
  <2>2. cur' = cur  BY <1>2, <2>1 DEF Reaches, IsDir
  <2>3. Spot(e)' = p  BY <1>7, <2>2 DEF Spot
  <2>4. p \in DOMAIN m.disk => m.ino[m.disk[p]].type = e.type /\ m.ino[m.disk[p]].id = e.id
    <3>. HIDE DEF p
    <3>. QED BY <1>3, <1>5, <1>9, NewIs
  <2>. HIDE DEF p
  <2>. QED BY <1>4, <1>6, <2>1, <2>3, <2>4 DEF Replaceable
<1>. HIDE DEF p
<1>10. Ready(rd.marks, w.copy)' \/ (Past(rd.marks, w.copy)' /\ ~ opts'.empty /\ Replaceable')
  BY <1>6, <1>7, <1>8, <1>9 DEF Ready, Past
<1>11. Busy /\ Busy'  BY <1>1 DEF Busy
<1>. QED BY <1>1, <1>6, <1>7, <1>8, <1>10, <1>11 DEF CopiesInOrder

\* The next copy replaces one restored.
LEMMA NextCopyIs ==
  ASSUME IInv, CopiesInOrder, NextCopy
  PROVE  /\ pc = "wrote" /\ pc' = "write" /\ UNCHANGED <<opts, arch, disk, ino, e, cur, stats, verdict>> /\ ign' = TRUE
         /\ Past(rd.marks, w.copy) /\ ~ opts.empty /\ Replaceable /\ e.type = "file"
         /\ w'.copy = w.copy + 1 /\ w'.exc = w.exc /\ rd'.marks = Tail(rd.marks)
<1>1. /\ pc = "wrote" /\ pc' = "write" /\ HeadIs(rd.marks, "changed") /\ ign' = TRUE
      /\ UNCHANGED <<opts, arch, disk, ino, e, cur, stats, verdict>>
      /\ rd' = [rd EXCEPT !.marks = Tail(@)]
      /\ w' = [w EXCEPT !.copy = @ + 1, !.res = "no_data", !.ea = FALSE]
  BY DEF NextCopy, NextMark, source, tree, ends, HeadIs
<1>2. arch \in Archives /\ e \in Listed  BY <1>1, BusyIs DEF Busy
<1>3. ~ Ready(rd.marks, w.copy)  BY <1>1, <1>2, ReadyIs
<1>4. Past(rd.marks, w.copy) /\ ~ opts.empty /\ Replaceable  BY <1>1, <1>3 DEF CopiesInOrder
<1>5. e.type = "file"  BY <1>4 DEF Past, Stored
<1>6. w'.copy = w.copy + 1 /\ w'.exc = w.exc /\ rd'.marks = Tail(rd.marks)
  <2>1. {"res", "copy", "exc"} \subseteq DOMAIN w /\ "marks" \in DOMAIN rd
    <3>1. WalkOK /\ ReaderOK  BY DEF IInv, Shaped
    <3>. QED BY <3>1 DEF WalkOK, ReaderOK
  <2>. QED BY <1>1, <2>1
<1>. QED BY <1>1, <1>4, <1>5, <1>6

\* The marks of the next copy are ahead.
LEMMA NextCopyCopies ==
  ASSUME IInv, CopiesInOrder, NextCopy PROVE CopiesInOrder'
<1>1. /\ pc = "wrote" /\ pc' = "write" /\ UNCHANGED <<opts, arch, disk, ino, e, cur>> /\ ign' = TRUE
      /\ Past(rd.marks, w.copy) /\ ~ opts.empty /\ Replaceable /\ e.type = "file"
      /\ w'.copy = w.copy + 1 /\ w'.exc = w.exc /\ rd'.marks = Tail(rd.marks)
  BY NextCopyIs
<1>2. arch \in Archives /\ e \in Listed /\ HeadIs(rd.marks, "changed")
  BY <1>1, BusyIs DEF Busy, NextCopy, NextMark, HeadIs
<1>3. Ready(Tail(rd.marks), w.copy + 1)  BY <1>1, <1>2, PastIs
<1>4. Ready(rd.marks, w.copy)'  BY <1>1, <1>3 DEF Ready
<1>5. Replaceable'  BY <1>1 DEF Replaceable, Spot
<1>6. Busy /\ Busy'  BY <1>1 DEF Busy
<1>. QED BY <1>1, <1>4, <1>5, <1>6 DEF CopiesInOrder

\* Once dirty, the EA are all that is left.
LEMMA DirtyCopies ==
  ASSUME IInv, WhereWritten, CopiesInOrder, DirtyFile PROVE CopiesInOrder'
<1>1. /\ pc = "wrote" /\ pc' \in {"count", "wrote"} /\ UNCHANGED <<source, e, ign>>
      /\ rd'.marks \in NoData /\ w'.exc \in {"none", "range", "abort"}
  BY DirtyIs DEF Removes
<1>2. Ready(rd.marks, w.copy)'  BY <1>1 DEF Ready
<1>3. ~ ign /\ Busy /\ Busy' /\ UNCHANGED opts  BY <1>1 DEF CopiesInOrder, Busy, source
<1>. QED BY <1>1, <1>2, <1>3 DEF CopiesInOrder

\* What is not about copies.
LEMMA OtherCopies ==
  ASSUME IInv, CopiesInOrder,
         \/ ReadEnd \/ Cancel \/ SkipDetruit \/ LeaveDirectory \/ Settled \/ Count \/ Failed \/ Interrupted
         \/ WriteEod \/ Destroy
  PROVE  CopiesInOrder'
<1>1. /\ pc' \in {"reading", "count", "eod", "end", "gone"} /\ (pc' = "count" => pc = "wrote")
      /\ pc # "write" /\ UNCHANGED <<opts, e, ign, w>>
  <2>1. CASE ReadEnd \/ Cancel \/ SkipDetruit \/ LeaveDirectory
    BY <2>1 DEF ReadEnd, Cancel, SkipDetruit, LeaveDirectory, Stop, source, reader, fs
  <2>2. CASE Settled \/ Count \/ Interrupted
    BY <2>2 DEF Settled, Count, Interrupted, Stop, source, reader, fs
  <2>3. CASE Failed  BY <2>3 DEF Failed, GiveUp, Stop, source, fs
  <2>4. CASE WriteEod \/ Destroy  BY <2>4 DEF WriteEod, Destroy, Stop, source, reader, fs
  <2>. QED BY <2>1, <2>2, <2>3, <2>4
<1>. QED BY <1>1 DEF CopiesInOrder, Busy

\* Nothing happens.
LEMMA StutterCopies == ASSUME CopiesInOrder, UNCHANGED vars PROVE CopiesInOrder'
BY DEF CopiesInOrder, vars, source, tree, reader, fs, Ready, Past, Replaceable, Spot, Busy

\* Each step keeps the copies in order,
LEMMA CopiesKept ==
  ASSUME IInv, WhereWritten, CopiesInOrder, [Next]_vars PROVE CopiesInOrder'
<1>1. \/ ReadDirect \/ ReadMark \/ ReadPastMarks \/ ReadDetruits
      \/ ReadEnd \/ Cancel \/ SkipDetruit \/ LeaveDirectory \/ Settled \/ Count \/ Failed \/ Interrupted
      \/ WriteEod \/ Destroy
      \/ Select \/ Write \/ NextCopy \/ DirtyFile \/ UNCHANGED vars
  BY DEF Next
<1>2. CASE ReadDirect \/ ReadMark \/ ReadPastMarks \/ ReadDetruits  BY <1>2, ReadsCopies
<1>3. CASE \/ ReadEnd \/ Cancel \/ SkipDetruit \/ LeaveDirectory \/ Settled \/ Count \/ Failed \/ Interrupted
           \/ WriteEod \/ Destroy
  BY <1>3, OtherCopies
<1>4. CASE Select  BY <1>4, SelectCopies
<1>5. CASE Write  BY <1>5, WriteCopies
<1>6. CASE NextCopy  BY <1>6, NextCopyCopies
<1>7. CASE DirtyFile  BY <1>7, DirtyCopies
<1>8. CASE UNCHANGED vars  BY <1>8, StutterCopies
<1>. QED BY <1>1, <1>2, <1>3, <1>4, <1>5, <1>6, <1>7, <1>8

\* and the current directory a directory.
LEMMA WhereKept ==
  ASSUME IInv, WhereWritten, CopiesInOrder, [Next]_vars PROVE WhereWritten'
<1>1. Quiet \/ Write \/ DirtyFile \/ WriteEod \/ Destroy  BY NextIs
<1>. QED BY <1>1, QuietWhere, WriteWhere, DirtyWhere, WriteEodWhere, DestroyWhere

\* No copy is read at the start.
LEMMA InitCopies == ASSUME Init PROVE CopiesInOrder
BY DEF Init, CopiesInOrder, NothingDone, Busy

-----------------------------------------------------------------------------
(* What was in place is as it was. *)

\* Only a directory has anything below it.
LEMMA NothingBelow ==
  ASSUME NEW p \in Seq(Names), Rooted(disk, ino), p \in DOMAIN disk => ino[disk[p]].type # "dir",
         NEW q \in DOMAIN disk
  PROVE  ~ Below(p, q)
<1>. SUFFICES ASSUME Below(p, q) PROVE FALSE  OBVIOUS
<1>1. q \in Seq(Names) /\ \A k \in 0..(Len(q) - 1) :
        SubSeq(q, 1, k) \in DOMAIN disk /\ ino[disk[SubSeq(q, 1, k)]].type = "dir"
  BY DEF Rooted
<1>2. Len(p) \in 0..(Len(q) - 1) /\ SubSeq(q, 1, Len(p)) = p
  <2>1. Len(p) \in Nat /\ Len(q) \in Nat  BY <1>1
  <2>. QED BY <2>1 DEF Below
<1>3. p \in DOMAIN disk /\ ino[disk[p]].type = "dir"  BY <1>1, <1>2
<1>. QED BY <1>3

\* What write() does not reach.
LEMMA LeftAlone ==
  ASSUME NEW p, At(p), NEW m, Framed(p, m), NEW q \in DOMAIN disk, ~ LinkedTo(disk[q]),
         q # p, ~ Below(p, q), p \in DOMAIN disk => disk[q] # disk[p]
  PROVE  q \in DOMAIN m.disk /\ m.disk[q] = disk[q] /\ SameInode(ino[disk[q]], m.ino[disk[q]])
<1>1. q \in DOMAIN m.disk  BY DEF Framed, Elsewhere
<1>2. m.disk[q] = disk[q]  BY <1>1 DEF Framed, Elsewhere
<1>3. disk[q] \in DOMAIN ino  BY DEF At, TreeOK
<1>4. Untouched(p, m.ino)  BY DEF Framed
<1>5. SameInode(ino[disk[q]], m.ino[disk[q]])  BY <1>3, <1>4 DEF Untouched
<1>. QED BY <1>1, <1>2, <1>5

\* The body of the property.
Preserved ==
  /\ \A p \in DOMAIN disk :
       (~ Restored(p) /\ ~ LinkedTo(disk[p]) /\ ~ Decided(p)) =>
         p \in DOMAIN disk' /\ disk'[p] = disk[p] /\ SameInode(ino[disk[p]], ino'[disk[p]])
  /\ opts.empty => /\ disk' = disk
                   /\ \A n \in DOMAIN ino : SameInode(ino[n], ino'[n])

\* Dates of directories are the only change.
LEMMA DatesPreserve ==
  ASSUME TreeOK, disk' = disk, \A n \in DOMAIN ino : SameInode(ino[n], ino'[n]) PROVE Preserved
<1>1. \A p \in DOMAIN disk : disk[p] \in DOMAIN ino  BY DEF TreeOK
<1>. QED BY <1>1 DEF Preserved

\* write() changes what the policy decided of,
LEMMA WritePreserves ==
  ASSUME IInv, WhereWritten, CopiesInOrder, Write PROVE Preserved
<1>. DEFINE p == Spot(e)
<1>1. pc = "write" /\ \E m : Reaches(p, m)  BY WriteReaches
<1>2. PICK m : Reaches(p, m)  BY <1>1
<1>3. At(p) /\ TreeOK /\ Rooted(disk, ino) /\ p \in Seq(Names)  BY <1>1, SpotIs DEF At
<1>4. Framed(p, m) /\ disk' = m.disk /\ ino' = m.ino  BY <1>2 DEF Reaches, Save
<1>5. CASE Kept(m)  BY <1>3, <1>4, <1>5, DatesPreserve DEF Kept
<1>6. CASE ~ Kept(m)
  <2>1. ~ opts.empty /\ (ign \/ p \notin DOMAIN disk \/ ~ Spared)  BY <1>2, <1>6 DEF Reaches
  <2>2. ign => (p \in DOMAIN disk => ino[disk[p]].id # "none" /\ ino[disk[p]].type = "file")
    BY DEF CopiesInOrder, Replaceable
  <2>. SUFFICES ASSUME NEW q \in DOMAIN disk, ~ Restored(q), ~ LinkedTo(disk[q]), ~ Decided(q)
                PROVE  q \in DOMAIN disk' /\ disk'[q] = disk[q] /\ SameInode(ino[disk[q]], ino'[disk[q]])
    BY <2>1 DEF Preserved
  <2>3. q # p /\ ~ Below(p, q) /\ (p \in DOMAIN disk => disk[q] # disk[p])
    <3>1. CASE ign \/ p \notin DOMAIN disk
      <4>1. p \in DOMAIN disk => ino[disk[p]].id # "none" /\ ino[disk[p]].type # "dir"  BY <2>2, <3>1
      <4>. HIDE DEF p
      <4>2. ~ Below(p, q)  BY <1>3, <4>1, NothingBelow
      <4>3. ino[disk[q]].id = "none"  BY DEF Restored
      <4>. QED BY <4>1, <4>2, <4>3
    <3>2. CASE ~ ign /\ p \in DOMAIN disk /\ ~ Spared
      BY <1>1, <3>2 DEF Decided
    <3>. QED BY <2>1, <3>1, <3>2
  <2>. HIDE DEF p
  <2>. QED BY <1>3, <1>4, <2>3, LeftAlone
<1>. QED BY <1>5, <1>6

\* the removal of a dirty file what was restored,
LEMMA DirtyPreserves ==
  ASSUME IInv, WhereWritten, CopiesInOrder, DirtyFile PROVE Preserved
<1>. DEFINE p == Spot(e)
<1>1. /\ pc = "wrote" /\ e.type = "file" /\ ~ opts.empty /\ Replaceable
      /\ \/ \E m : Removes(p, m)
         \/ UNCHANGED <<disk, ino, stack>>
  BY DirtyIs
<1>2. At(p) /\ TreeOK /\ Rooted(disk, ino) /\ p \in Seq(Names)  BY <1>1, SpotIs DEF At
<1>3. p \in DOMAIN disk => ino[disk[p]].id # "none" /\ ino[disk[p]].type # "dir"  BY <1>1 DEF Replaceable
<1>. HIDE DEF p
<1>4. CASE UNCHANGED <<disk, ino, stack>>  BY <1>2, <1>4, DatesPreserve DEF SameInode
<1>5. CASE \E m : Removes(p, m)
  <2>1. PICK m : Removes(p, m)  BY <1>5
  <2>2. Framed(p, m) /\ disk' = m.disk /\ ino' = m.ino  BY <2>1 DEF Removes
  <2>. SUFFICES ASSUME NEW q \in DOMAIN disk, ~ Restored(q), ~ LinkedTo(disk[q])
                PROVE  q \in DOMAIN disk' /\ disk'[q] = disk[q] /\ SameInode(ino[disk[q]], ino'[disk[q]])
    BY <1>1 DEF Preserved
  <2>3. ~ Below(p, q)  BY <1>2, <1>3, NothingBelow
  <2>4. q # p /\ (p \in DOMAIN disk => disk[q] # disk[p])  BY <1>3 DEF Restored
  <2>. QED BY <1>2, <2>2, <2>3, <2>4, LeftAlone
<1>. QED BY <1>1, <1>4, <1>5

\* and no step anything else.
LEMMA NextPreserves ==
  ASSUME IInv, WhereWritten, CopiesInOrder, [Next]_vars PROVE Preserved
<1>1. Quiet \/ Write \/ DirtyFile \/ WriteEod \/ Destroy  BY NextIs
<1>2. TreeOK  BY DEF IInv
<1>3. CASE Quiet
  <2>1. UNCHANGED <<disk, ino>>  BY <1>3, QuietIs
  <2>. QED BY <1>2, <2>1, DatesPreserve DEF SameInode
<1>4. CASE WriteEod \/ Destroy
  <2>1. disk' = disk /\ DatesOnly  BY <1>4, WriteEodIs, DestroyIs
  <2>. QED BY <1>2, <2>1, DatesPreserve DEF DatesOnly
<1>. QED BY <1>1, <1>3, <1>4, WritePreserves, DirtyPreserves

\* The EA of what write() makes.
LEMMA NextGivesEA ==
  ASSUME IInv, WhereWritten, CopiesInOrder, [Next]_vars,
         pc = "write", w'.exc = "none", e.ea = "full", ign \/ Spot(e) \notin DOMAIN disk,
         Spot(e) \in DOMAIN disk', disk'[Spot(e)] \notin DOMAIN ino
  PROVE  "archive" \in ino'[disk'[Spot(e)]].eas
<1>. DEFINE p == Spot(e)
<1>1. TreeOK  BY DEF IInv
<1>2. disk' # disk  BY <1>1 DEF TreeOK
<1>3. Write
  <2>1. Quiet \/ Write \/ DirtyFile \/ WriteEod \/ Destroy  BY NextIs
  <2>2. ~ Quiet  BY <1>2, QuietIs
  <2>. QED BY <2>1, <2>2 DEF DirtyFile, WriteEod, Destroy
<1>4. PICK m : Reaches(p, m)  BY <1>3, WriteReaches
<1>5. Save(m) /\ Sound(m) /\ Framed(p, m) /\ Given2(p, m)  BY <1>4 DEF Reaches
<1>6. disk' = m.disk /\ ino' = m.ino /\ w'.exc = m.exc  BY <1>5 DEF Save
<1>7. New(p, m)
  <2>. HIDE DEF p
  <2>1. p \in DOMAIN m.disk /\ m.disk[p] \notin DOMAIN ino  BY <1>6 DEF p
  <2>2. m.disk[p] \in DOMAIN m.ino /\ m.ino \in Seq(Inodes) /\ ino \in Seq(Inodes)  BY <1>1, <1>5, <2>1 DEF Sound, TreeOK
  <2>. QED BY <2>1, <2>2 DEF New
<1>. QED BY <1>5, <1>6, <1>7 DEF Given2

\* The invariants of the copies.
CopyInv == IInv /\ WhereWritten /\ CopiesInOrder

\* What was in place before the restoration is there as it was but for what the policy
\* decided of, whatever is written, replaced by a later copy, removed or dated, and
\* a dry run changes nothing: every write() reaches its own path and what is below (Framed),
\* a copy replaces only a file that was restored (CopiesInOrder), and the
\* dates set back are those of directories (WhereWritten).
THEOREM PreservationTheorem == Spec => PreservedUntouched
<1>1. Init => CopyInv  BY InitKeeps, InitWhere, InitCopies DEF CopyInv
<1>2. CopyInv /\ [Next]_vars => CopyInv'  BY NextKeeps, WhereKept, CopiesKept DEF CopyInv
<1>3. CopyInv /\ [Next]_vars =>
        [/\ \A p \in DOMAIN disk :
              (~ Restored(p) /\ ~ LinkedTo(disk[p]) /\ ~ Decided(p)) =>
                p \in DOMAIN disk' /\ disk'[p] = disk[p] /\ SameInode(ino[disk[p]], ino'[disk[p]])
         /\ opts.empty => /\ disk' = disk
                          /\ \A n \in DOMAIN ino : SameInode(ino[n], ino'[n])]_vars
  BY NextPreserves DEF CopyInv, Preserved
<1>. QED BY <1>1, <1>2, <1>3, PTL DEF Spec, PreservedUntouched

\* An inode made where nothing is in place has the EA of its entry, a link that could not be
\* made included: what was recorded of the EA of the links is forgotten with them.
THEOREM EATheorem == Spec => NewInodeHasItsEA
<1>1. Init => CopyInv  BY InitKeeps, InitWhere, InitCopies DEF CopyInv
<1>2. CopyInv /\ [Next]_vars => CopyInv'  BY NextKeeps, WhereKept, CopiesKept DEF CopyInv
<1>3. CopyInv /\ [Next]_vars =>
        [(/\ pc = "write" /\ w'.exc = "none" /\ w'.res = "restored" /\ e.ea = "full" /\ ~ opts.empty
          /\ ign \/ Spot(e) \notin DOMAIN disk
          /\ Spot(e) \in DOMAIN disk' /\ disk'[Spot(e)] \notin DOMAIN ino) =>
            "archive" \in ino'[disk'[Spot(e)]].eas]_vars
  BY NextGivesEA DEF CopyInv
<1>. QED BY <1>1, <1>2, <1>3, PTL DEF Spec, NewInodeHasItsEA

-----------------------------------------------------------------------------
(* The stale copies are reported. *)

\* The entries in error or refused; what is at the path of the entry, under that name only;
\* whether another copy is to be written, and whether the entry is about to be counted.
Counts == stats.errored + stats.ignored
InHand == IF Spot(e) \in DOMAIN disk THEN {disk[Spot(e)]} ELSE {}
Alone == Spot(e) \in DOMAIN disk => \A q \in DOMAIN disk : disk[q] = disk[Spot(e)] => q = Spot(e)
AgainNext == (pc = "write" /\ ign) \/ (pc = "wrote" /\ w.exc \in {"none", "range"} /\ MoreCopies)
Refused == pc = "wrote" /\ (w.exc = "abort" \/ (w.exc = "range" /\ ~ MoreCopies))
\* The inodes that are no last copy are no more than the entries reported: but for the one to be
\* replaced, and for that of the file about to be reported.
Reported ==
  verdict # "bug" =>
    /\ AgainNext => Cardinality(Stale \ InHand) <= Counts /\ Alone
    /\ Refused => Cardinality(Stale) <= Counts + (IF e.type = "file" THEN 1 ELSE 0)
    /\ ~ AgainNext /\ ~ Refused /\ ~ (pc = "wrote" /\ w.exc = "bug") => Cardinality(Stale) <= Counts

\* A set and its parts.
LEMMA CardSub ==
  ASSUME NEW B, IsFiniteSet(B), NEW S
  PROVE  /\ S \subseteq B => IsFiniteSet(S) /\ Cardinality(S) <= Cardinality(B)
         /\ \A h : S \subseteq B \cup {h} => IsFiniteSet(S) /\ Cardinality(S) <= Cardinality(B) + 1
         /\ Cardinality(B) \in Nat /\ (IsFiniteSet(S) => Cardinality(S) \in Nat)
<1>1. S \subseteq B => IsFiniteSet(S) /\ Cardinality(S) <= Cardinality(B)  BY FS_Subset
<1>2. Cardinality(B) \in Nat /\ (IsFiniteSet(S) => Cardinality(S) \in Nat)  BY FS_CardinalityType
<1>3. ASSUME NEW h, S \subseteq B \cup {h} PROVE IsFiniteSet(S) /\ Cardinality(S) <= Cardinality(B) + 1
  <2>1. /\ IsFiniteSet(B \cup {h})
        /\ Cardinality(B \cup {h}) = IF h \in B THEN Cardinality(B) ELSE Cardinality(B) + 1
    BY FS_AddElement
  <2>2. IsFiniteSet(S) /\ Cardinality(S) <= Cardinality(B \cup {h})  BY <1>3, <2>1, FS_Subset
  <2>3. Cardinality(S) \in Nat  BY <2>2, FS_CardinalityType
  <2>. QED BY <1>2, <2>1, <2>2, <2>3
<1>. QED BY <1>1, <1>2, <1>3

\* Stale inodes are finitely many.
LEMMA StaleIs ==
  ASSUME TreeOK PROVE IsFiniteSet(Stale) /\ Cardinality(Stale) \in Nat /\ Stale \subseteq DOMAIN ino
<1>1. Stale \subseteq DOMAIN ino  BY DEF Stale, TreeOK
<1>2. DOMAIN ino = 1..Len(ino) /\ Len(ino) \in Int  BY DEF TreeOK
<1>3. IsFiniteSet(1..Len(ino))  BY <1>2, FS_Interval
<1>4. IsFiniteSet(Stale)  BY <1>1, <1>2, <1>3, FS_Subset
<1>. QED BY <1>1, <1>4, FS_CardinalityType

\* Counters are natural numbers.
LEMMA CountsIs == ASSUME IInv PROVE Counts \in Nat /\ stats.errored \in Nat /\ stats.ignored \in Nat
<1>1. stats \in [Counters -> Nat]  BY DEF IInv, Counted
<1>. QED BY <1>1 DEF Counts, Counters

\* What was reported of what is between two entries.
Calm == ~ AgainNext /\ ~ Refused /\ ~ (pc = "wrote" /\ w.exc = "bug")

\* Between two entries all are reported,
LEMMA CalmReported ==
  ASSUME Reported, Calm, verdict # "bug" PROVE Cardinality(Stale) <= Counts
BY DEF Reported, Calm

\* and that is all there is to say of them.
LEMMA CalmNext ==
  ASSUME ~ AgainNext', ~ Refused', verdict' # "bug" => Cardinality(Stale') <= Counts' PROVE Reported'
BY DEF Reported

\* Dates leave what is stale.
LEMMA StaleStays ==
  ASSUME TreeOK, UNCHANGED <<disk, arch>>, \A n \in DOMAIN ino : SameInode(ino[n], ino'[n])
  PROVE  Stale' = Stale
<1>1. ASSUME NEW n \in DOMAIN ino PROVE ino'[n].id = ino[n].id /\ ino'[n].copy = ino[n].copy
  <2>1. ino[n] \in Inodes  BY DEF TreeOK
  <2>. QED BY <2>1, SameIs
<1>2. Listed' = Listed  BY DEF Listed
<1>3. \A p \in DOMAIN disk : disk[p] \in DOMAIN ino  BY DEF TreeOK
<1>. QED BY <1>1, <1>2, <1>3 DEF Stale

\* What is done away from write().
LEMMA AwayReported ==
  ASSUME IInv, Reported, pc \notin {"write", "wrote"}, pc' \notin {"write", "wrote"},
         UNCHANGED <<disk, arch>>, \A n \in DOMAIN ino : SameInode(ino[n], ino'[n]),
         Counts' >= Counts, Counts' \in Nat, verdict' # "bug" => verdict # "bug"
  PROVE  Reported'
<1>1. Stale' = Stale /\ Cardinality(Stale) \in Nat  BY StaleStays, StaleIs DEF IInv
<1>2. Calm /\ ~ AgainNext' /\ ~ Refused'  BY DEF Calm, AgainNext, Refused
<1>3. Counts \in Nat  BY CountsIs
<1>4. verdict' # "bug" => Cardinality(Stale') <= Counts'  BY <1>1, <1>2, <1>3, CalmReported
<1>. QED BY <1>2, <1>4, CalmNext

\* Reading reports nothing and leaves nothing.
LEMMA ReadsReported ==
  ASSUME IInv, Reported,
         \/ ReadDirect \/ ReadEnd \/ ReadMark \/ ReadPastMarks \/ ReadDetruits
         \/ Cancel \/ SkipDetruit \/ LeaveDirectory
  PROVE  Reported'
<1>1. /\ pc \in {"reading", "filter"} /\ pc' \in {"reading", "filter", "eod", "end"}
      /\ UNCHANGED <<disk, ino, arch, stats>>
  <2>1. CASE ReadDirect \/ ReadMark \/ ReadDetruits
    BY <2>1 DEF ReadDirect, ReadMark, ReadDetruits, Return, Again, source, tree, ends
  <2>2. CASE ReadEnd \/ ReadPastMarks
    BY <2>2 DEF ReadEnd, ReadPastMarks, Again, Stop, source, tree, ends
  <2>3. CASE Cancel \/ SkipDetruit \/ LeaveDirectory
    BY <2>3 DEF Cancel, SkipDetruit, LeaveDirectory, Stop, source, tree, ends
  <2>. QED BY <2>1, <2>2, <2>3
<1>2. verdict = "none"  BY <1>1 DEF IInv, Shaped, WalkOK
<1>3. Counts' = Counts /\ Counts \in Nat  BY <1>1, CountsIs DEF Counts
<1>. QED BY <1>1, <1>2, <1>3, AwayReported DEF SameInode

\* Nor does the end of a directory.
LEMMA EndsReported ==
  ASSUME IInv, WhereWritten, Reported, WriteEod \/ Destroy PROVE Reported'
<1>1. /\ pc \in {"eod", "end"} /\ pc' \in {"reading", "end", "gone"} /\ UNCHANGED <<disk, source, stats>> /\ DatesOnly
      /\ pc = "end" => verdict' = verdict
  BY WriteEodIs, DestroyIs DEF ends
<1>2. verdict' # "bug" => verdict # "bug"  BY <1>1 DEF IInv, Shaped, WalkOK
<1>3. Counts' = Counts /\ Counts \in Nat  BY <1>1, CountsIs DEF Counts
<1>. QED BY <1>1, <1>2, <1>3, AwayReported DEF DatesOnly, source

\* An entry left out is counted, one refused is about to be.
LEMMA SelectReported ==
  ASSUME IInv, CopiesInOrder, Reported, Select PROVE Reported'
<1>1. /\ pc = "filter" /\ UNCHANGED <<disk, ino, arch, e, ign>>
      /\ \/ pc' \in {"reading", "end"}
         \/ pc' = "write" /\ stats' = stats /\ verdict' = verdict
         \/ pc' = "wrote" /\ w' = [NothingDone EXCEPT !.exc = "abort"] /\ stats' = stats /\ verdict' = verdict
      /\ stats' = stats \/ Incr("ignored")
  BY DEF Select, source, tree, fs, ends, Stop
<1>2. verdict = "none" /\ ~ ign /\ stats \in [Counters -> Nat]
  BY <1>1 DEF IInv, Shaped, WalkOK, CopiesInOrder, Counted
<1>3. Counts' >= Counts /\ Counts' \in Nat /\ Counts \in Nat  BY <1>1, <1>2 DEF Counts, Incr, Counters
<1>4. Stale' = Stale /\ Cardinality(Stale) \in Nat
  BY <1>1, StaleStays, StaleIs DEF IInv, SameInode
<1>5. Cardinality(Stale) <= Counts
  <2>1. Calm  BY <1>1 DEF Calm, AgainNext, Refused
  <2>. QED BY <1>2, <2>1, CalmReported
<1>6. Cardinality(Stale') <= Counts' /\ Cardinality(Stale') <= Counts' + 1
  BY <1>3, <1>4, <1>5
<1>7. ~ AgainNext' /\ ~ (pc' = "wrote" /\ w'.exc = "bug")
  BY <1>1, <1>2 DEF AgainNext, NothingDone
<1>8. Cardinality(Stale') <= Counts' + (IF e'.type = "file" THEN 1 ELSE 0)  BY <1>3, <1>4, <1>6
<1>. QED BY <1>6, <1>7, <1>8 DEF Reported

\* The next copy takes the place of the one in hand.
LEMMA NextCopyReported ==
  ASSUME IInv, CopiesInOrder, Reported, NextCopy PROVE Reported'
<1>1. /\ pc = "wrote" /\ pc' = "write" /\ UNCHANGED <<opts, arch, disk, ino, e, cur, stats, verdict>> /\ ign' = TRUE
  BY NextCopyIs
<1>2. AgainNext  BY DEF NextCopy, AgainNext, MoreCopies
<1>3. Stale' = Stale  BY <1>1, StaleStays DEF IInv, SameInode
<1>4. InHand' = InHand /\ Alone' = Alone /\ Counts' = Counts  BY <1>1 DEF InHand, Alone, Counts, Spot
<1>5. ~ Refused'  BY <1>1 DEF Refused
<1>6. AgainNext'  BY <1>1 DEF AgainNext
<1>. QED BY <1>1, <1>2, <1>3, <1>4, <1>5, <1>6 DEF Reported

\* What succeeded left nothing stale.
LEMMA SettledReported ==
  ASSUME IInv, Reported, Settled \/ Count \/ Interrupted PROVE Reported'
<1>1. /\ pc \in {"wrote", "count"} /\ pc' \in {"count", "reading", "end"} /\ UNCHANGED <<disk, ino, arch>>
      /\ pc = "count" \/ (w.exc = "none" /\ ~ MoreCopies) \/ w.exc = "cancel" \/ (w.exc = "bug" /\ verdict' = "bug")
      /\ stats' = stats \/ Count
  BY DEF Settled, Count, Interrupted, source, tree, ends, Stop
<1>2. verdict = "none" /\ stats \in [Counters -> Nat]
  BY <1>1 DEF IInv, Shaped, WalkOK, Counted
<1>3. Counts' = Counts /\ Counts \in Nat
  <2>1. CASE Count
    <3>. DEFINE counter == CASE w.res = "restored" -> "treated"
                             [] w.res = "no_data" -> "skipped"
                             [] w.res = "policy" -> "tooold"
                             [] w.res = "removed" -> "deleted"
    <3>1. w.res \in Results  BY DEF IInv, Shaped, WalkOK
    <3>2. counter \in {"treated", "skipped", "tooold", "deleted"}  BY <3>1 DEF Results
    <3>. DEFINE again == IsDir(e) /\ ReadSecondTimeDir /\ w.res = "restored"
    <3>3. stats' = [c \in DOMAIN stats |->
                    stats[c] + (IF c = counter /\ ~ again THEN 1 ELSE 0)
                             + (IF c = "hard_links" /\ w.hard THEN 1 ELSE 0)
                             + (IF c = "ea_treated" /\ w.ea THEN 1 ELSE 0)]
      BY <2>1 DEF Count
    <3>. HIDE DEF counter, again
    <3>4. stats'.errored = stats.errored /\ stats'.ignored = stats.ignored
      BY <1>2, <3>2, <3>3 DEF Counters
    <3>. QED BY <1>2, <3>4 DEF Counts, Counters
  <2>2. CASE stats' = stats  BY <2>2, CountsIs DEF Counts
  <2>. QED BY <1>1, <2>1, <2>2
<1>4. Stale' = Stale /\ Cardinality(Stale) \in Nat
  BY <1>1, StaleStays, StaleIs DEF IInv, SameInode
<1>5. ~ AgainNext' /\ ~ Refused'  BY <1>1 DEF AgainNext, Refused
<1>6. verdict' # "bug" => Calm  BY <1>1 DEF Calm, AgainNext, Refused
<1>7. verdict' # "bug" => Cardinality(Stale') <= Counts'  BY <1>2, <1>3, <1>4, <1>6, CalmReported
<1>. QED BY <1>5, <1>7, CalmNext

\* A file refused or in error is counted.
LEMMA FailedReported ==
  ASSUME IInv, CopiesInOrder, Reported, Failed PROVE Reported'
<1>1. /\ pc = "wrote" /\ (w.exc = "abort" \/ (w.exc = "range" /\ ~ MoreCopies))
      /\ UNCHANGED <<disk, ino, arch>> /\ pc' \in {"reading", "end"}
      /\ stats' = stats \/ Incr("ignored") \/ Incr("errored")
  BY DEF Failed, GiveUp, Stop, source, tree
<1>2. verdict = "none" /\ stats \in [Counters -> Nat]
  BY <1>1 DEF IInv, Shaped, WalkOK, Counted
<1>3. Refused  BY <1>1 DEF Refused
<1>4. Counts' >= Counts /\ Counts' \in Nat /\ Counts \in Nat  BY <1>1, <1>2 DEF Counts, Incr, Counters
<1>5. e.type = "file" => Counts' = Counts + 1
  <2>. SUFFICES ASSUME e.type = "file" PROVE Counts' = Counts + 1  OBVIOUS
  <2>1. ~ IsDir(e) /\ (opts.restore # "only_deleted")  BY <1>1 DEF IsDir, CopiesInOrder, Busy
  <2>2. Incr("ignored") \/ Incr("errored")  BY <1>1, <2>1 DEF Failed, GiveUp
  <2>. QED BY <1>2, <2>2 DEF Counts, Incr, Counters
<1>6. Stale' = Stale /\ Cardinality(Stale) \in Nat
  BY <1>1, StaleStays, StaleIs DEF IInv, SameInode
<1>7. Cardinality(Stale) <= Counts + (IF e.type = "file" THEN 1 ELSE 0)
  BY <1>2, <1>3 DEF Reported
<1>8. Cardinality(Stale') <= Counts'  BY <1>4, <1>5, <1>6, <1>7
<1>9. ~ AgainNext' /\ ~ Refused'  BY <1>1 DEF AgainNext, Refused
<1>. QED BY <1>8, <1>9, CalmNext

\* Nothing becomes stale but what is written.
LEMMA StaleOf ==
  ASSUME NEW p, At(p), NEW m, Sound(m), Framed(p, m), disk' = m.disk, ino' = m.ino, arch' = arch,
         NEW n \in Stale'
  PROVE  /\ m.ino[n].id # "none" /\ ~ Fresh(m.ino[n])
         /\ \E q \in DOMAIN m.disk : n = m.disk[q]
         /\ \A q \in DOMAIN m.disk : n = m.disk[q] /\ q # p => q \in DOMAIN disk /\ disk[q] = n
         /\ (\E t \in DOMAIN disk : n = disk[t]) => n \in Stale
<1>1. Listed' = Listed  BY DEF Listed
<1>2. n \in {m.disk[q] : q \in DOMAIN m.disk} /\ m.ino[n].id # "none"
      /\ \A it \in Listed : it.id = m.ino[n].id => m.ino[n].copy # Len(it.copies)
  BY <1>1 DEF Stale
<1>3. ~ Fresh(m.ino[n])  BY <1>2 DEF Fresh
<1>4. \A q \in DOMAIN m.disk : n = m.disk[q] /\ q # p => q \in DOMAIN disk /\ disk[q] = n
  BY DEF Framed, Elsewhere
<1>5. (\E t \in DOMAIN disk : n = disk[t]) => n \in Stale
  <2>. SUFFICES ASSUME NEW t \in DOMAIN disk, n = disk[t] PROVE n \in Stale  OBVIOUS
  <2>1. n \in DOMAIN ino  BY DEF At, TreeOK
  <2>2. m.ino[n].id = ino[n].id /\ m.ino[n].copy = ino[n].copy  BY <2>1 DEF Framed, SameKinds
  <2>. QED BY <1>2, <2>2 DEF Stale
<1>. QED BY <1>2, <1>3, <1>4, <1>5

\* The removal of a dirty file leaves nothing stale.
LEMMA DirtyReported ==
  ASSUME IInv, WhereWritten, CopiesInOrder, Reported, DirtyFile PROVE Reported'
<1>. DEFINE p == Spot(e)
<1>1. /\ pc = "wrote" /\ w.exc = "none" /\ e.type = "file" /\ pc' = (IF w'.exc = "none" THEN "count" ELSE "wrote")
      /\ UNCHANGED <<source, e, cur, ign, ends>> /\ rd'.marks \in NoData
      /\ \/ \E m : Removes(p, m)
         \/ UNCHANGED <<disk, ino, stack>> /\ w'.exc \in {"none", "abort"}
  BY DirtyIs
<1>2. At(p) /\ TreeOK /\ verdict = "none" /\ arch' = arch /\ UNCHANGED <<stats, verdict>>
  BY <1>1, SpotIs DEF At, IInv, Shaped, WalkOK, source, ends
<1>3. Calm  BY <1>1 DEF DirtyFile, Calm, AgainNext, Refused
<1>4. Cardinality(Stale) <= Counts  BY <1>2, <1>3, CalmReported
<1>5. Stale' \subseteq Stale
  <2>1. CASE UNCHANGED <<disk, ino, stack>>
    <3>1. Listed' = Listed  BY <1>2 DEF Listed
    <3>. QED BY <2>1, <3>1 DEF Stale
  <2>2. CASE \E m : Removes(p, m)
    <3>1. PICK m : Removes(p, m)  BY <2>2
    <3>2. Sound(m) /\ Framed(p, m) /\ disk' = m.disk /\ ino' = m.ino
          /\ DOMAIN m.disk \subseteq DOMAIN disk /\ \A q \in DOMAIN m.disk : m.disk[q] = disk[q]
      BY <3>1 DEF Removes
    <3>. HIDE DEF p
    <3>. SUFFICES ASSUME NEW n \in Stale' PROVE n \in Stale  OBVIOUS
    <3>3. /\ \E q \in DOMAIN m.disk : n = m.disk[q]
          /\ (\E t \in DOMAIN disk : n = disk[t]) => n \in Stale
      BY <1>2, <3>2, StaleOf
    <3>. QED BY <3>2, <3>3
  <2>. QED BY <1>1, <2>1, <2>2
<1>6. Cardinality(Stale') <= Counts /\ Cardinality(Stale') \in Nat /\ Counts \in Nat
  <2>1. IsFiniteSet(Stale) /\ Cardinality(Stale) \in Nat  BY <1>2, StaleIs
  <2>2. IsFiniteSet(Stale') /\ Cardinality(Stale') <= Cardinality(Stale)  BY <1>5, <2>1, CardSub
  <2>3. Cardinality(Stale') \in Nat  BY <2>1, <2>2, CardSub
  <2>. QED BY <1>4, <2>1, <2>2, <2>3, CountsIs
<1>7. ~ AgainNext'
  <2>1. ~ (rd'.marks # <<>> /\ Head(rd'.marks) = "changed")
    <3>1. Head(<<"ea">>) = "ea"  OBVIOUS
    <3>. QED BY <1>1, <3>1 DEF NoData
  <2>. QED BY <1>1, <2>1 DEF AgainNext, MoreCopies, NextMark
<1>8. Counts' = Counts /\ e' = e  BY <1>1, <1>2 DEF Counts
<1>9. Cardinality(Stale') <= Counts' + (IF e'.type = "file" THEN 1 ELSE 0)  BY <1>6, <1>8
<1>. QED BY <1>6, <1>7, <1>8, <1>9 DEF Reported

\* write() leaves one stale copy at most, and says so: the file is not made, it is read to its end,
\* or an exception or a mark tells that it was not.
LEMMA WriteReported ==
  ASSUME IInv, WhereWritten, CopiesInOrder, Reported, Write PROVE Reported'
<1>. DEFINE p == Spot(e)
            B == IF ign THEN Stale \ InHand ELSE Stale
<1>1. /\ pc = "write" /\ pc' = "wrote" /\ ign' = FALSE /\ UNCHANGED <<source, e, juillet, ends>>
      /\ \E m : Reaches(p, m)
  BY WriteReaches
<1>2. PICK m : Reaches(p, m)  BY <1>1
<1>3. At(p) /\ TreeOK /\ arch \in Archives /\ e \in Listed /\ verdict = "none"
      /\ UNCHANGED <<arch, opts, e, stats, verdict>>
  BY <1>1, SpotIs DEF At, Writes, IInv, Shaped, WalkOK, source, ends
<1>4. /\ Save(m) /\ Sound(m) /\ Framed(p, m) /\ Told(p, m) /\ Said(p, m)
      /\ ign => Gone(p, m) \/ (m.exc = "range" /\ m.res = "no_data")
  BY <1>2 DEF Reaches
<1>5. rd'.marks = m.marks /\ w'.exc = m.exc /\ w'.res = m.res /\ disk' = m.disk /\ ino' = m.ino
  <2>1. ReaderOK /\ UNCHANGED source  BY <1>1 DEF IInv, Shaped
  <2>. QED BY <1>4, <2>1, SaveIs
<1>6. IsFiniteSet(B) /\ Cardinality(B) <= Counts /\ Counts \in Nat /\ Cardinality(B) \in Nat
      /\ (ign => Alone)
  <2>1. IsFiniteSet(Stale) /\ Counts \in Nat  BY <1>3, StaleIs, CountsIs
  <2>2. IsFiniteSet(B)  BY <2>1, FS_Subset
  <2>3. CASE ign
    <3>1. AgainNext  BY <1>1, <2>3 DEF AgainNext
    <3>. QED BY <1>3, <2>1, <2>2, <2>3, <3>1, FS_CardinalityType DEF Reported
  <2>4. CASE ~ ign
    <3>1. Calm  BY <1>1, <2>4 DEF Calm, AgainNext, Refused
    <3>2. Cardinality(Stale) <= Counts  BY <1>3, <3>1, CalmReported
    <3>. QED BY <2>1, <2>2, <2>4, <3>2, FS_CardinalityType
  <2>. QED BY <2>3, <2>4
<1>7. p \in DOMAIN disk => InHand = {disk[p]}  BY DEF InHand
<1>8. ign /\ p \in DOMAIN disk => \A q \in DOMAIN disk : disk[q] = disk[p] => q = p  BY <1>6 DEF Alone
<1>9. p \notin DOMAIN disk => InHand = {}  BY DEF InHand
<1>. HIDE DEF p
\* Elsewhere nothing gets stale.
<1>10. ASSUME NEW n \in Stale', \E t \in DOMAIN disk : t # p /\ n = disk[t] PROVE n \in B
  <2>1. n \in Stale  BY <1>3, <1>4, <1>5, <1>10, StaleOf
  <2>2. ign => n \notin InHand  BY <1>7, <1>8, <1>9, <1>10
  <2>. QED BY <2>1, <2>2
<1>11. ASSUME NEW n \in Stale' PROVE n \in B \/ (p \in DOMAIN m.disk /\ n = m.disk[p])
  <2>1. /\ \E q \in DOMAIN m.disk : n = m.disk[q]
        /\ \A q \in DOMAIN m.disk : n = m.disk[q] /\ q # p => q \in DOMAIN disk /\ disk[q] = n
    BY <1>3, <1>4, <1>5, <1>11, StaleOf
  <2>. QED BY <1>10, <1>11, <2>1
\* Nor what is there, but for a file made.
<1>12. ASSUME ign => Gone(p, m), New(p, m) => Fresh(m.ino[m.disk[p]]) PROVE Stale' \subseteq B
  <2>. SUFFICES ASSUME NEW n \in Stale', p \in DOMAIN m.disk, n = m.disk[p] PROVE n \in B  BY <1>11
  <2>1. ~ Fresh(m.ino[n])  BY <1>3, <1>4, <1>5, StaleOf
  <2>2. ~ New(p, m)  BY <1>12, <2>1
  <2>3. CASE ign  BY <1>10, <1>12, <2>2, <2>3 DEF Gone
  <2>4. CASE ~ ign
    <3>1. \E t \in DOMAIN disk : n = disk[t]  BY <1>4, <2>2 DEF Framed, There, LinkedTo
    <3>2. n \in Stale  BY <1>3, <1>4, <1>5, <3>1, StaleOf
    <3>. QED BY <2>4, <3>2
  <2>. QED BY <2>3, <2>4
<1>13. Counts' = Counts  BY <1>3 DEF Counts
<1>14. Cardinality(Stale') <= Counts' + 1 /\ Cardinality(Stale') \in Nat
  <2>. DEFINE h == m.disk[p]
  <2>1. Stale' \subseteq B \cup {h}  BY <1>11
  <2>. HIDE DEF h, B
  <2>2. IsFiniteSet(Stale') /\ Cardinality(Stale') <= Cardinality(B) + 1  BY <1>6, <2>1, CardSub
  <2>3. Cardinality(Stale') \in Nat  BY <2>2, FS_CardinalityType
  <2>. QED BY <1>6, <1>13, <2>2, <2>3
<1>15. ASSUME ign => Gone(p, m), New(p, m) => Fresh(m.ino[m.disk[p]]) PROVE Cardinality(Stale') <= Counts'
  <2>1. Stale' \subseteq B  BY <1>12, <1>15
  <2>. HIDE DEF B
  <2>2. Cardinality(Stale') <= Cardinality(B)  BY <1>6, <2>1, CardSub
  <2>. QED BY <1>6, <1>13, <1>14, <2>2
<1>16. MoreCopies' <=> HeadIs(m.marks, "changed") /\ m.res = "restored"
  BY <1>5 DEF MoreCopies, NextMark, HeadIs
<1>17. m.exc \in {"none", "range", "abort", "bug", "cancel"}  BY <1>4 DEF Framed
<1>18. AgainNext' => Cardinality(Stale' \ InHand') <= Counts' /\ Alone'
  <2>. SUFFICES ASSUME AgainNext' PROVE Cardinality(Stale' \ InHand') <= Counts' /\ Alone'  OBVIOUS
  <2>1. HeadIs(m.marks, "changed")  BY <1>1, <1>16 DEF AgainNext
  <2>2. ~ Ready(m.marks, m.copy)  BY <1>3, <2>1, ReadyIs
  <2>3. Past(m.marks, m.copy) /\ (p \in DOMAIN m.disk => New(p, m))  BY <1>4, <2>2 DEF Framed
  <2>4. e.type = "file"  BY <2>3 DEF Past, Stored
  <2>5. cur' = cur  BY <1>2, <2>4 DEF Reaches, IsDir
  <2>6. Spot(e)' = p  BY <1>3, <2>5 DEF Spot, p
  <2>7. InHand' = IF p \in DOMAIN m.disk THEN {m.disk[p]} ELSE {}  BY <1>5, <2>6 DEF InHand
  <2>8. Stale' \ InHand' \subseteq B  BY <1>11, <2>7
  <2>9. Cardinality(Stale' \ InHand') <= Counts'
    <3>. HIDE DEF B
    <3>1. IsFiniteSet(Stale' \ InHand') /\ Cardinality(Stale' \ InHand') <= Cardinality(B)  BY <1>6, <2>8, CardSub
    <3>2. Cardinality(Stale' \ InHand') \in Nat  BY <3>1, FS_CardinalityType
    <3>. QED BY <1>6, <1>13, <3>1, <3>2
  <2>10. Alone'
    <3>. SUFFICES ASSUME p \in DOMAIN m.disk, NEW q \in DOMAIN m.disk, m.disk[q] = m.disk[p] PROVE q = p
      BY <1>5, <2>6 DEF Alone
    <3>1. m.disk[p] \notin DOMAIN ino  BY <1>3, <1>4, <2>3, NewIs
    <3>2. q # p => m.disk[q] \in DOMAIN ino  BY <1>3, <1>4 DEF Framed, Elsewhere, TreeOK
    <3>. QED BY <3>1, <3>2
  <2>. QED BY <2>9, <2>10
<1>19. Refused' => Cardinality(Stale') <= Counts' + (IF e'.type = "file" THEN 1 ELSE 0)
  <2>1. CASE e.type = "file"  BY <1>3, <1>14, <2>1
  <2>2. CASE e.type # "file"
    <3>1. ~ ign  BY <2>2 DEF CopiesInOrder
    <3>2. New(p, m) => Fresh(m.ino[m.disk[p]])  BY <1>4, <2>2 DEF Framed
    <3>3. Cardinality(Stale') <= Counts'  BY <1>15, <3>1, <3>2
    <3>4. Counts' + 0 = Counts'  BY <1>6, <1>13
    <3>. QED BY <1>3, <2>2, <3>3, <3>4
  <2>. QED BY <2>1, <2>2
<1>20. ~ AgainNext' /\ ~ Refused' /\ ~ (pc' = "wrote" /\ w'.exc = "bug") => Cardinality(Stale') <= Counts'
  <2>. SUFFICES ASSUME ~ AgainNext', ~ Refused', ~ (pc' = "wrote" /\ w'.exc = "bug")
                PROVE  Cardinality(Stale') <= Counts'
    OBVIOUS
  <2>1. m.exc \in {"none", "cancel"} /\ (m.exc = "none" => ~ MoreCopies')
    BY <1>1, <1>5, <1>17 DEF AgainNext, Refused
  <2>2. ign => Gone(p, m)  BY <1>4, <2>1
  <2>3. New(p, m) => Fresh(m.ino[m.disk[p]])  BY <1>4, <1>16, <2>1 DEF Told, Said
  <2>. QED BY <1>15, <2>2, <2>3
<1>. HIDE DEF B
<1>. QED BY <1>18, <1>19, <1>20 DEF Reported

\* Nothing happens.
LEMMA StutterReported == ASSUME Reported, UNCHANGED vars PROVE Reported'
<1>1. UNCHANGED <<disk, ino, arch, e, cur, pc, w, ign, rd, stats, verdict>>
  BY DEF vars, source, tree, reader, fs, ends
<1>2. UNCHANGED <<Stale, InHand, Alone, Counts, AgainNext, Refused>>
  BY <1>1 DEF Stale, Listed, InHand, Alone, Counts, AgainNext, Refused, Spot, MoreCopies, NextMark
<1>. QED BY <1>1, <1>2 DEF Reported

\* Each step reports what it leaves.
LEMMA ReportKept ==
  ASSUME IInv, WhereWritten, CopiesInOrder, Reported, [Next]_vars PROVE Reported'
<1>1. \/ ReadDirect \/ ReadEnd \/ ReadMark \/ ReadPastMarks \/ ReadDetruits
      \/ Cancel \/ SkipDetruit \/ LeaveDirectory
      \/ WriteEod \/ Destroy
      \/ Settled \/ Count \/ Interrupted
      \/ Failed \/ Select \/ Write \/ NextCopy \/ DirtyFile \/ UNCHANGED vars
  BY DEF Next
<1>2. CASE \/ ReadDirect \/ ReadEnd \/ ReadMark \/ ReadPastMarks \/ ReadDetruits
           \/ Cancel \/ SkipDetruit \/ LeaveDirectory
  BY <1>2, ReadsReported
<1>3. CASE WriteEod \/ Destroy  BY <1>3, EndsReported
<1>4. CASE Settled \/ Count \/ Interrupted  BY <1>4, SettledReported
<1>5. CASE Failed  BY <1>5, FailedReported
<1>6. CASE Select  BY <1>6, SelectReported
<1>7. CASE Write  BY <1>7, WriteReported
<1>8. CASE NextCopy  BY <1>8, NextCopyReported
<1>9. CASE DirtyFile  BY <1>9, DirtyReported
<1>10. CASE UNCHANGED vars  BY <1>10, StutterReported
<1>. QED BY <1>1, <1>2, <1>3, <1>4, <1>5, <1>6, <1>7, <1>8, <1>9, <1>10

\* At the start nothing is restored.
LEMMA InitReported == ASSUME Init PROVE Reported
<1>1. PICK d \in Disks : disk = d.disk /\ ino = d.ino  BY DEF Init
<1>2. Stale = {}
  <2>1. \A p \in DOMAIN disk : ino[disk[p]].id = "none"  BY <1>1, DisksAreTrees
  <2>. QED BY <2>1 DEF Stale
<1>3. Counts = 0 /\ Cardinality(Stale) = 0
  <2>1. Counts = 0  BY DEF Init, NoStats, Counts
  <2>. QED BY <1>2, <2>1, FS_EmptySet
<1>4. ~ AgainNext /\ ~ Refused  BY DEF Init, AgainNext, Refused
<1>. QED BY <1>3, <1>4 DEF Reported

\* The last copy of a file saved several times is the one that stays; an earlier copy or a part of
\* one is left only with an entry reported in error or refused, one for each (Reported),
\* whatever fails, and a cancellation leaves none.
THEOREM LastCopyTheorem == Spec => []LastCopyOrReported
<1>. DEFINE Inv == CopyInv /\ Reported
<1>1. Init => Inv  BY InitKeeps, InitWhere, InitCopies, InitReported DEF CopyInv
<1>2. Inv /\ [Next]_vars => Inv'  BY NextKeeps, WhereKept, CopiesKept, ReportKept DEF CopyInv
<1>3. Inv => LastCopyOrReported
  <2>. SUFFICES ASSUME Inv, pc \in {"reading", "gone"}, verdict # "bug"
                PROVE  Cardinality(Stale) <= stats.errored + stats.ignored
    BY DEF LastCopyOrReported
  <2>1. Calm  BY DEF Calm, AgainNext, Refused
  <2>. QED BY <2>1, CalmReported DEF Counts
<1>. QED BY <1>1, <1>2, <1>3, PTL DEF Spec
=============================================================================
