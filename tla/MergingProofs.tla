--------------------------- MODULE MergingProofs ---------------------------
(***************************************************************************)
(* Merging any one or two archives, under any policy, with any options and *)
(* whatever fails.                                                         *)
(*                                                                         *)
(* Two inductive invariants hold as long as the merging has not ended and  *)
(* counted no error (an error leaves cursors and clones where they are).   *)
(* StepInv says where the reader is: the path, the position in the archive *)
(* and both cursors of the catalogue under construction agree, and in the  *)
(* middle of a conflict the cursor that reads is inside the directory in   *)
(* place when the other is not; CursorsInStep cannot be proved without     *)
(* that detour.  MapInv says what the catalogue and corres_copy know of    *)
(* each other: the catalogue is a tree of what the filters retain, whose   *)
(* nodes differ by path and by number, an etiquette designates the inode   *)
(* of its links and no other node has that inode.                          *)
(***************************************************************************)
EXTENDS Merging, SequenceTheorems, FiniteSetTheorems, WellFoundedInduction, TLAPS

-----------------------------------------------------------------------------
(* The invariants. *)

\* What the archives hold.
AllEntries == UNION {UNION {{a[j][k] : k \in DOMAIN a[j]} : j \in DOMAIN a} : a \in ArchiveSets}
Listed == {x \in AllEntries : x.type # "eod"}
Attributes == UNION {x.eas : x \in Listed}
Ids == {x.id : x \in Listed} \cup {"detruit"}

\* Inodes, and the nodes of the catalogue when there are m of these.
Inodes ==
  [type : Types, saved : SavedStates, mtime : Int, size : Int, dirty : BOOLEAN, sparse : BOOLEAN,
   ea : EAStates, ctime : Int, eas : SUBSET Attributes, id : Ids, from : Nat, loaded : BOOLEAN]
Nodes(m) == [path : Seq(Names) \ {<<>>}, i : 1..m, etiq : Nat, n : Nat]

\* The counters but that of errors may be anything here.
StatsOK == /\ DOMAIN st = Counters \cup {"errored"}
           /\ st.errored \in Nat

\* No error was counted, and there is something left to do.
Sane == pc # "end" /\ st.errored = 0

Typed ==
  /\ archs \in ArchiveSets /\ index \in 1..Len(archs) /\ pos \in Nat /\ offset \in Nat
  /\ pc \in {"read", "filter", "judge", "data", "ea", "apply", "new", "add", "copy"}
  /\ cat \in Seq(Nodes(Len(ino))) /\ ino \in Seq(Inodes)

\* The map has files only.
FilesLinked ==
  /\ DOMAIN corres \subseteq Nat \ {0} /\ IsFiniteSet(DOMAIN corres)
  /\ \A k \in DOMAIN corres : corres[k] \in 1..Len(ino) /\ ino[corres[k]].type # "dir"

\* The directory the path told is in, or the one it names.
Ahead == IF juillet.init THEN juillet.path ELSE Front(juillet.path)

\* Where the archive is read, and what the path says.
InConflict == {"judge", "data", "ea", "apply"}
AtEntry == {"filter", "new"} \cup InConflict
Selecting == AtEntry \cup {"read", "add"}
Reader ==
  /\ pc \in Selecting =>
       /\ pos \in 0..Len(archs[index]) /\ Ahead = Where(archs[index], pos)
       /\ juillet.path \in Seq(Names)
  /\ pc \in Selecting \ {"read"} => ent \in 1..pos
  /\ pc \in AtEntry => pos = ent /\ (it.type # "eod" => juillet.path = it.path)
  /\ pc \in InConflict \cup {"new", "add"} => it.type # "eod"

\* The clone of the entry read.
CloneOK ==
  /\ pc \in InConflict \cup {"new", "add"} => dolly \in Nodes(Len(ino)) /\ dolly.path = it.path
  /\ pc \in InConflict \cup {"new"} => (IsDirAt(dolly) <=> EntryIsDir)
  /\ pc = "add" => IF IsDirAt(dolly) THEN EntryIsDir /\ pos = ent
                   ELSE Where(archs[index], pos) = Front(it.path)

\* Both cursors are in the directory of the entry; the one that reads is in the
\* directory found.
Cursors ==
  /\ pc = "read" => current_add = Ahead /\ current_read = Ahead
  /\ pc = "filter" => LET p == IF it.type = "eod" THEN it.path ELSE Front(it.path)
                      IN current_add = p /\ current_read = p
  /\ pc \in InConflict => /\ current_add = Front(it.path)
                          /\ here = it.path /\ At(here) # {}
                          /\ current_read = IF HereIsDir THEN here ELSE Front(it.path)
  /\ pc \in {"new", "add"} => current_add = Front(it.path) /\ current_read = Front(it.path)

\* The reader, the path and both cursors are in step until an error.
StepInv == StatsOK /\ (Sane => Typed /\ FilesLinked /\ Reader /\ CloneOK /\ Cursors)

\* The nodes of the catalogue under construction.
InCat == {cat[k] : k \in DOMAIN cat}
Holds(p) == \E x \in InCat : x.path = p

\* The directories a path is in, those it goes through, and those that were retained.
Above(p) == {SubSeq(p, 1, k) : k \in 1..(Len(p) - 1)}
UpTo(p) == {SubSeq(p, 1, k) : k \in 1..Len(p)}
Entered == {x.path : x \in {y \in InCat : IsDirAt(y)}} \cap opts.mask
Gone(p, x) == x.path = p \/ Below(p, x.path)

\* The numbers of the entries of this archive follow these.
Before == IF index = 1 THEN 0 ELSE Len(archs[1])
Apart(x, y) == (x.path = y.path \/ x.n = y.n) => x = y

\* The catalogue is a tree of what the mask retains, whose nodes have a path and
\* a number of their own; what is excluded has no links.
CatOK ==
  /\ \A x, y \in InCat : Apart(x, y)
  /\ \A x \in InCat : Above(x.path) \subseteq Entered /\ (x.path \in opts.mask \/ ~ Hard(x))
  /\ pc \in Selecting => UpTo(current_add) \subseteq Entered
  /\ pc = "read" => \A x \in InCat : x.n <= Before + pos
  /\ pc \in Selecting \ {"read"} => \A x \in InCat : x.n < Before + ent
  /\ pc \in InConflict \cup {"new", "add"} => dolly.n = Before + ent /\ it.path \in opts.mask
  /\ pc = "new" => ~ Holds(it.path)
  /\ pc = "add" => \A x \in InCat : Gone(it.path, x) => ~ Hard(x)

\* The hard links of an inode of the map, and no other node, have its number.
Mapped(x) == Hard(x) => x.etiq \in DOMAIN corres /\ corres[x.etiq] = x.i
Named(x) == \A k \in DOMAIN corres : corres[k] = x.i => x.etiq = k
Live(k) == (\E x \in InCat : Hard(x) /\ x.i = corres[k]) \/ dolly.i = corres[k]
MapOK ==
  /\ \A x \in InCat : Mapped(x) /\ Named(x)
  /\ pc \in InConflict \cup {"new", "add"} => Mapped(dolly) /\ Named(dolly)
  /\ pc \in {"read", "filter"} => dolly = NoDolly
  /\ pc \in Selecting => \A k \in DOMAIN corres : Live(k)

\* The tree and the map agree until an error.
MapInv == Sane => CatOK /\ MapOK

-----------------------------------------------------------------------------
(* Paths and archives. *)

\* The front and the last element of a sequence.
LEMMA FrontLast ==
  ASSUME NEW S, NEW s \in Seq(S), s # <<>>
  PROVE  /\ Front(s) \in Seq(S) /\ Len(Front(s)) = Len(s) - 1 /\ Len(s) \in Nat \ {0}
         /\ \A n \in 1..(Len(s) - 1) : Front(s)[n] = s[n]
         /\ Last(s) \in S /\ s = Append(Front(s), Last(s))
         /\ \A n \in 0..(Len(s) - 1) : SubSeq(Front(s), 1, n) = SubSeq(s, 1, n)
<1>1. Len(s) \in Nat /\ Len(s) # 0
  <2>1. Len(s) \in Nat
    BY LenProperties
  <2>2. Len(s) = 0 => s = <<>>
    BY EmptySeq
  <2> QED BY <2>1, <2>2
<1>2. \A i \in 1..Len(s) : s[i] \in S
  BY ElementOfSeq
<1>3. /\ Front(s) \in Seq(S) /\ Len(Front(s)) = Len(s) - 1
      /\ \A n \in 1..(Len(s) - 1) : Front(s)[n] = s[n]
  <2> DEFINE k == Len(s) - 1
  <2>1. k \in Nat /\ 1 \in 1..(Len(s) + 1) /\ k \in 0..Len(s) /\ k \in 1-1..Len(s)
    BY <1>1
  <2>2. \A i \in 1..k : i \in 1..Len(s) /\ s[i] \in S
    BY <1>1, <1>2
  <2>3. Front(s) = SubSeq(s, 1, k)
    BY DEF Front
  <2> HIDE DEF k
  <2>4. \A i \in 1..k : s[i] \in S
    BY <2>2
  <2>5. /\ SubSeq(s, 1, k) \in Seq(S) /\ Len(SubSeq(s, 1, k)) = k
        /\ \A i \in 1..k : SubSeq(s, 1, k)[i] = s[i]
    BY <2>1, <2>4, SubSeqProperties
  <2> QED BY <2>3, <2>5 DEF k
<1>4. Last(s) \in S
  BY <1>1, <1>2 DEF Last
<1>5. s = Append(Front(s), Last(s))
  <2> DEFINE f == Front(s)
             x == Last(s)
  <2>1. x = s[Len(s)]
    BY DEF Last
  <2>2. /\ Append(f, x) \in Seq(S) /\ Len(Append(f, x)) = Len(f) + 1
        /\ \A i \in 1..Len(f) : Append(f, x)[i] = f[i]
        /\ Append(f, x)[Len(f) + 1] = x
    BY <1>3, <1>4, AppendProperties
  <2> HIDE DEF f, x
  <2>3. Len(Append(f, x)) = Len(s) /\ \A i \in 1..Len(s) : Append(f, x)[i] = s[i]
    BY <1>1, <1>3, <2>1, <2>2 DEF f, x
  <2> QED BY <2>2, <2>3, SeqEqual DEF f, x
<1>6. ASSUME NEW n \in 0..(Len(s) - 1)
      PROVE  SubSeq(Front(s), 1, n) = SubSeq(s, 1, n)
  <2> DEFINE f == Front(s)
             a == SubSeq(f, 1, n)
             b == SubSeq(s, 1, n)
  <2>1. n \in Nat /\ \A i \in 1..n : i \in 1..Len(f) /\ i \in 1..Len(s) /\ f[i] = s[i] /\ s[i] \in S
    BY <1>1, <1>2, <1>3
  <2>2. a \in Seq(S) /\ Len(a) = n /\ \A i \in 1..n : a[i] = f[i]
    BY <1>3, <2>1, SubSeqProperties
  <2>3. b \in Seq(S) /\ Len(b) = n /\ \A i \in 1..n : b[i] = s[i]
    BY <1>1, <2>1, SubSeqProperties
  <2> HIDE DEF a, b
  <2>4. a = b
    BY <2>1, <2>2, <2>3, SeqEqual
  <2> QED BY <2>4 DEF a, b
<1> QED BY <1>1, <1>3, <1>4, <1>5, <1>6

\* The front and the last element of an extended sequence.
LEMMA FrontAppend ==
  ASSUME NEW S, NEW s \in Seq(S), NEW x \in S
  PROVE  /\ Append(s, x) \in Seq(S) /\ Len(Append(s, x)) = Len(s) + 1 /\ Len(s) \in Nat
         /\ Append(s, x) # <<>>
         /\ Front(Append(s, x)) = s /\ Last(Append(s, x)) = x
<1> DEFINE t == Append(s, x)
<1>1. /\ t \in Seq(S) /\ Len(t) = Len(s) + 1 /\ Len(s) \in Nat
      /\ \A i \in 1..Len(s) : t[i] = s[i]
      /\ t[Len(s) + 1] = x
  BY AppendProperties, LenProperties
<1> HIDE DEF t
<1>2. t # <<>>
  BY <1>1, EmptySeq
<1>3. Last(t) = x
  BY <1>1 DEF Last
<1>4. /\ Front(t) \in Seq(S) /\ Len(Front(t)) = Len(s)
      /\ \A n \in 1..Len(s) : Front(t)[n] = t[n]
  BY <1>1, <1>2, FrontLast
<1>5. Front(t) = s
  BY <1>1, <1>4, SeqEqual
<1> QED BY <1>1, <1>2, <1>3, <1>5 DEF t

\* The archive read is a tree in depth, the paths of which name one entry each.
LEMMA ArchiveFacts ==
  ASSUME Typed
  PROVE  /\ Len(archs) \in {1, 2} /\ index \in Nat
         /\ \A j \in 1..Len(archs) :
              /\ Len(archs[j]) \in Nat /\ DOMAIN archs[j] = 1..Len(archs[j])
              /\ InOrder(archs[j])
              /\ \A k \in 1..Len(archs[j]) :
                   archs[j][k].type # "eod" => IsEntry(archs[j][k]) /\ archs[j][k] \in Listed
<1>1. archs \in ArchiveSets  BY DEF Typed
<1>2. /\ archs \in Seq({archs[j] : j \in DOMAIN archs}) /\ Len(archs) \in {1, 2}
      /\ \A j \in DOMAIN archs :
           /\ archs[j] \in Seq({archs[j][k] : k \in DOMAIN archs[j]})
           /\ InOrder(archs[j])
           /\ \A k \in DOMAIN archs[j] : archs[j][k].type # "eod" => IsEntry(archs[j][k])
  BY <1>1, ArchivesAreTrees
<1>3. DOMAIN archs = 1..Len(archs)  BY <1>2
<1>4. \A j \in 1..Len(archs) : Len(archs[j]) \in Nat /\ DOMAIN archs[j] = 1..Len(archs[j])
  BY <1>2, <1>3
<1>5. \A j \in DOMAIN archs : \A k \in DOMAIN archs[j] : archs[j][k] \in AllEntries
  BY <1>1 DEF AllEntries
<1>6. Len(archs) \in {1, 2} /\ index \in 1..Len(archs)  BY <1>2 DEF Typed
<1>7. index \in Nat  BY <1>6
<1>8. ASSUME NEW j \in 1..Len(archs), NEW k \in 1..Len(archs[j]), archs[j][k].type # "eod"
      PROVE  IsEntry(archs[j][k]) /\ archs[j][k] \in Listed
  <2>1. j \in DOMAIN archs /\ k \in DOMAIN archs[j]  BY <1>3, <1>4
  <2>. QED BY <1>2, <1>5, <1>8, <2>1 DEF Listed
<1>. QED BY <1>2, <1>3, <1>4, <1>6, <1>7, <1>8

\* An entry, or the end of a directory, is in the directory reached before it.
LEMMA OrderFacts ==
  ASSUME Typed, NEW k \in 1..Len(archs[index])
  PROVE  /\ archs[index][k].path \in Seq(Names) \ {<<>>}
         /\ Where(archs[index], k - 1) = IF archs[index][k].type = "eod" THEN archs[index][k].path
                                         ELSE Front(archs[index][k].path)
         /\ Where(archs[index], k) = IF archs[index][k].type = "dir" THEN archs[index][k].path
                                     ELSE Front(archs[index][k].path)
         /\ Where(archs[index], k) \in Seq(Names)
<1>1. /\ index \in 1..Len(archs) /\ DOMAIN archs[index] = 1..Len(archs[index])
      /\ InOrder(archs[index]) /\ Len(archs[index]) \in Nat
  BY ArchiveFacts DEF Typed
<1>2. /\ archs[index][k].path \in Seq(Names) /\ archs[index][k].path # <<>>
      /\ Where(archs[index], k - 1) = IF archs[index][k].type = "eod" THEN archs[index][k].path
                                      ELSE Front(archs[index][k].path)
  BY <1>1 DEF InOrder
<1>3. Front(archs[index][k].path) \in Seq(Names)  BY <1>2, FrontLast
<1>4. k # 0  BY <1>1
<1>. QED BY <1>2, <1>3, <1>4 DEF Where, After

\* The entry read, whatever follows it.
LEMMA EntryFacts ==
  ASSUME Typed, ent \in 1..pos, pos \in 0..Len(archs[index])
  PROVE  /\ ent \in 1..Len(archs[index]) /\ it = archs[index][ent]
         /\ it.path \in Seq(Names) \ {<<>>} /\ Front(it.path) \in Seq(Names)
         /\ it.type # "eod" => IsEntry(it) /\ it \in Listed
         /\ Name \in Names /\ Append(Front(it.path), Name) = it.path
<1>1. ent \in 1..Len(archs[index])  BY ArchiveFacts DEF Typed
<1>2. it = archs[index][ent]  BY DEF it
<1>3. it.path \in Seq(Names) \ {<<>>}  BY <1>1, <1>2, OrderFacts
<1>4. it.type # "eod" => IsEntry(it) /\ it \in Listed
  BY <1>1, <1>2, ArchiveFacts DEF Typed
<1>. QED BY <1>1, <1>2, <1>3, <1>4, FrontLast DEF Name

\* skip_read_to_parent_dir goes forward, out of the directory.
LEMMA EndOfDirectory ==
  ASSUME Typed, ent \in 1..Len(archs[index]), EntryIsDir
  PROVE  /\ AfterDir \in ent..Len(archs[index])
         /\ Where(archs[index], AfterDir) = Front(it.path)
<1>1. /\ index \in 1..Len(archs) /\ DOMAIN archs[index] = 1..Len(archs[index])
      /\ InOrder(archs[index]) /\ Len(archs[index]) \in Nat
  BY ArchiveFacts DEF Typed
<1>2. it = archs[index][ent] /\ it.type = "dir"  BY DEF it, EntryIsDir
<1>3. PICK j \in ent..Len(archs[index]) :
        archs[index][j].type = "eod" /\ archs[index][j].path = it.path
  BY <1>1, <1>2 DEF InOrder
<1>4. j \in DOMAIN archs[index]  BY <1>1, <1>3
<1>5. /\ AfterDir \in DOMAIN archs[index]
      /\ archs[index][AfterDir].type = "eod" /\ archs[index][AfterDir].path = it.path
  BY <1>3, <1>4 DEF AfterDir
<1>6. AfterDir = j  BY <1>1, <1>3, <1>4, <1>5 DEF InOrder
<1>7. j # 0  BY <1>3
<1>. QED BY <1>3, <1>5, <1>6, <1>7 DEF Where, After

-----------------------------------------------------------------------------
(* Inodes: no operation on one changes what kind of inode it is. *)

\* Inodes that changed, none of which became of another kind.
SameKinds(a, b) ==
  /\ b \in Seq(Inodes) /\ Len(b) = Len(a)
  /\ \A k \in 1..Len(a) : b[k].type = a[k].type

\* ea_set_saved_status keeps an inode what it is.
LEMMA DropIs ==
  ASSUME NEW x \in Inodes, NEW status \in EAStates
  PROVE  Drop(x, status) \in Inodes /\ Drop(x, status).type = x.type
BY DEF Drop, Inodes, EAStates

\* ea_attach keeps an inode what it is.
LEMMA AttachIs ==
  ASSUME NEW x \in Inodes, NEW eas \in SUBSET Attributes
  PROVE  Attach(x, eas) \in Inodes /\ Attach(x, eas).type = x.type
BY DEF Attach, Inodes, EAStates

\* do_EA_transfert, whatever both inodes have.
LEMMA TransferredIs ==
  ASSUME NEW x \in Inodes, NEW y \in Inodes, NEW action \in Moves
  PROVE  Transferred(action, x, y) \in Inodes /\ Transferred(action, x, y).type = x.type
<1>1. x.eas \in SUBSET Attributes /\ y.eas \in SUBSET Attributes /\ y.ctime \in Int /\ x.ctime \in Int
      /\ y.ea \in EAStates
      /\ "none" \in EAStates /\ "partial" \in EAStates
  BY DEF Inodes, EAStates
<1>2. ASSUME NEW z \in Inodes, NEW d \in Int
      PROVE  [z EXCEPT !.ctime = d] \in Inodes /\ [z EXCEPT !.ctime = d].type = z.type
  BY DEF Inodes
<1>3. CASE action = "overwrite"
  <2>1. CASE y.ea \in {"none", "removed"}
    BY <1>1, <1>3, <2>1, DropIs DEF Transferred
  <2>2. CASE y.ea = "full"
    <3>1. Attach(x, y.eas) \in Inodes /\ Attach(x, y.eas).type = x.type  BY <1>1, AttachIs
    <3>2. Transferred(action, x, y) = [Attach(x, y.eas) EXCEPT !.ctime = y.ctime]
      BY <1>3, <2>2 DEF Transferred
    <3>. QED BY <1>1, <1>2, <3>1, <3>2
  <2>3. CASE y.ea \notin {"none", "removed", "full"}
    <3>1. Drop(x, "partial") \in Inodes /\ Drop(x, "partial").type = x.type  BY <1>1, DropIs
    <3>2. Transferred(action, x, y) = [Drop(x, "partial") EXCEPT !.ctime = y.ctime]
      BY <1>3, <2>3 DEF Transferred
    <3>. QED BY <1>1, <1>2, <3>1, <3>2
  <2>. QED BY <2>1, <2>2, <2>3
<1>4. CASE action = "overwrite_mark_saved"
  <2>. DEFINE z == Drop(x, IF y.ea \in {"full", "fake"} THEN "partial" ELSE y.ea)
              d == IF y.ea # "none" THEN y.ctime ELSE z.ctime
  <2>1. z \in Inodes /\ z.type = x.type  BY <1>1, DropIs
  <2>2. d \in Int  BY <1>1, <2>1 DEF Inodes
  <2>3. Transferred(action, x, y) = [z EXCEPT !.ctime = d]  BY <1>4 DEF Transferred
  <2>. HIDE DEF z, d
  <2>. QED BY <1>2, <2>1, <2>2, <2>3
<1>5. CASE action \in {"merge_preserve", "merge_overwrite"}
  <2>1. MergeEA(x.eas, y.eas) \in SUBSET Attributes /\ MergeEA(y.eas, x.eas) \in SUBSET Attributes
    BY <1>1 DEF MergeEA
  <2>2. \/ Transferred(action, x, y) = x
        \/ \E eas \in SUBSET Attributes : Transferred(action, x, y) = Attach(x, eas)
    BY <1>1, <1>5, <2>1 DEF Transferred
  <2>. QED BY <2>2, AttachIs
<1>. QED BY <1>3, <1>4, <1>5 DEF Moves

\* One inode changed.
LEMMA UpdatedKinds ==
  ASSUME NEW a \in Seq(Inodes), NEW k \in 1..Len(a), NEW x \in Inodes, x.type = a[k].type
  PROVE  SameKinds(a, [a EXCEPT ![k] = x])
BY DEF SameKinds

\* Two changes, one after the other.
LEMMA SameKindsAgain ==
  ASSUME NEW a, NEW b, NEW c, SameKinds(a, b), SameKinds(b, c)
  PROVE  SameKinds(a, c)
BY DEF SameKinds

\* do_EA_transfert changes the EA of one inode, which stays what it was.
LEMMA TransferKinds ==
  ASSUME ino \in Seq(Inodes), NEW to \in 1..Len(ino), NEW from \in 1..Len(ino), NEW action \in Moves
  PROVE  SameKinds(ino, Transfer(action, to, from))
<1>1. ino[to] \in Inodes /\ ino[from] \in Inodes  OBVIOUS
<1>2. SameKinds(ino, ino)  BY DEF SameKinds
<1>3. Transfer(action, to, from) = ino \/
      Transfer(action, to, from) = [ino EXCEPT ![to] = Transferred(action, ino[to], ino[from])]
  BY DEF Transfer
<1>4. /\ Transferred(action, ino[to], ino[from]) \in Inodes
      /\ Transferred(action, ino[to], ino[from]).type = ino[to].type
  BY <1>1, TransferredIs
<1>. QED BY <1>2, <1>3, <1>4, UpdatedKinds

\* An inode marked as not saved stays what it was.
LEMMA DropDataKinds ==
  ASSUME ino \in Seq(Inodes), NEW i \in 1..Len(ino), NEW mark
  PROVE  SameKinds(ino, DropData(i, mark))
<1>1. ino[i] \in Inodes  OBVIOUS
<1>2. ASSUME NEW x \in Inodes
      PROVE  [x EXCEPT !.saved = "not_saved"] \in Inodes
             /\ [x EXCEPT !.saved = "not_saved"].type = x.type
  BY DEF Inodes, SavedStates
<1>3. SameKinds(ino, ino)  BY DEF SameKinds
<1>4. DropData(i, mark) = ino \/
      DropData(i, mark) = [ino EXCEPT ![i] = [ino[i] EXCEPT !.saved = "not_saved"]]
  BY DEF DropData
<1>5. /\ [ino[i] EXCEPT !.saved = "not_saved"] \in Inodes
      /\ [ino[i] EXCEPT !.saved = "not_saved"].type = ino[i].type
  BY <1>1, <1>2
<1>. QED BY <1>3, <1>4, <1>5, UpdatedKinds

\* An inode the EA of which are marked stays what it was.
LEMMA EAOfInodeKinds ==
  ASSUME ino \in Seq(Inodes), NEW i \in 1..Len(ino), NEW status \in EAStates
  PROVE  SameKinds(ino, EAOfInode(i, status))
<1>1. ino[i] \in Inodes  OBVIOUS
<1>2. SameKinds(ino, ino)  BY DEF SameKinds
<1>3. EAOfInode(i, status) = ino \/
      EAOfInode(i, status) = [ino EXCEPT ![i] = Drop(ino[i], status)]
  BY DEF EAOfInode
<1>. QED BY <1>1, <1>2, <1>3, DropIs, UpdatedKinds

\* The inode of an entry.
LEMMA InodeOfIs ==
  ASSUME NEW x \in Listed, IsEntry(x), index \in Nat
  PROVE  InodeOf(x) \in Inodes /\ InodeOf(x).type = x.type
<1>1. x.eas \in SUBSET Attributes  BY DEF Attributes
<1>2. x.id \in Ids  BY DEF Ids
<1>. QED BY <1>1, <1>2 DEF InodeOf, Inodes, IsEntry

-----------------------------------------------------------------------------
(* The catalogue under construction, whatever the order of its nodes. *)

Elements(s) == {s[k] : k \in DOMAIN s}

\* A node behind a sequence, or in it.
LEMMA AppendElements ==
  ASSUME NEW S, NEW s \in Seq(S), NEW x \in S
  PROVE  Elements(Append(s, x)) = Elements(s) \cup {x}
<1>. DEFINE t == Append(s, x)
<1>1. /\ Len(s) \in Nat /\ DOMAIN s = 1..Len(s) /\ DOMAIN t = 1..(Len(s) + 1)
      /\ \A k \in 1..Len(s) : t[k] = s[k]
      /\ t[Len(s) + 1] = x
  OBVIOUS
<1>2. 1..(Len(s) + 1) = 1..Len(s) \cup {Len(s) + 1}  BY <1>1
<1>. HIDE DEF t
<1>3. Elements(t) = Elements(s) \cup {x}  BY <1>1, <1>2 DEF Elements
<1>. QED BY <1>3 DEF t

\* A node put behind the first ones.
Inserted(c, n, last) == SubSeq(c, 1, last) \o <<n>> \o SubSeq(c, last + 1, Len(c))

\* The node is in the sequence, with what was in it.
LEMMA InsertedIs ==
  ASSUME NEW S, NEW c \in Seq(S), NEW n \in S, NEW last \in 0..Len(c)
  PROVE  /\ Inserted(c, n, last) \in Seq(S)
         /\ Elements(Inserted(c, n, last)) = Elements(c) \cup {n}
<1>. DEFINE a == SubSeq(c, 1, last)
            b == SubSeq(c, last + 1, Len(c))
            r == Inserted(c, n, last)
            L == Len(c)
<1>1. L \in Nat /\ DOMAIN c = 1..L /\ \A k \in 1..L : c[k] \in S  OBVIOUS
<1>2. a \in Seq(S) /\ Len(a) = last /\ \A k \in 1..last : a[k] = c[k]  BY <1>1
<1>3. b \in Seq(S) /\ Len(b) = L - last /\ \A k \in 1..(L - last) : b[k] = c[last + k]
  <2>. DEFINE m == last + 1
  <2>0. last \in 0..L /\ L \in Nat  BY <1>1
  <2>1. /\ m \in Int /\ L \in Int /\ L - m + 1 = L - last
        /\ \A i \in m..L : i \in 1..L
        /\ (IF m <= L THEN L - m + 1 ELSE 0) = L - last
        /\ \A k \in 1..(L - last) : m + k - 1 = last + k
    <3>. HIDE DEF L, a, b, r
    <3>. QED BY <2>0
  <2>. HIDE DEF m, L
  <2>2. \A i \in m..L : c[i] \in S  BY <1>1, <2>1
  <2>3. /\ SubSeq(c, m, L) \in Seq(S)
        /\ Len(SubSeq(c, m, L)) = IF m <= L THEN L - m + 1 ELSE 0
        /\ \A k \in 1..(L - m + 1) : SubSeq(c, m, L)[k] = c[m + k - 1]
    BY <2>1, <2>2, SubSeqProperties
  <2>4. b = SubSeq(c, m, L)  BY DEF m, L
  <2>. HIDE DEF b
  <2>. QED BY <2>1, <2>3, <2>4
<1>4. <<n>> \in Seq(S) /\ Len(<<n>>) = 1 /\ <<n>>[1] = n  OBVIOUS
<1>5. r = (a \o <<n>>) \o b  BY DEF Inserted
<1>. HIDE DEF a, b, r, L
<1>6. /\ a \o <<n>> \in Seq(S) /\ Len(a \o <<n>>) = last + 1
      /\ \A k \in 1..last : (a \o <<n>>)[k] = c[k]
      /\ (a \o <<n>>)[last + 1] = n
  BY <1>1, <1>2, <1>4
<1>7. /\ r \in Seq(S) /\ Len(r) = L + 1 /\ DOMAIN r = 1..(L + 1)
      /\ \A k \in 1..last : r[k] = c[k]
      /\ r[last + 1] = n
      /\ \A k \in (last + 2)..(L + 1) : r[k] = c[k - 1]
  <2>. DEFINE d == a \o <<n>>
  <2>1. /\ r \in Seq(S) /\ Len(r) = Len(d) + Len(b)
        /\ \A k \in 1..(Len(d) + Len(b)) : r[k] = IF k <= Len(d) THEN d[k] ELSE b[k - Len(d)]
    <3>1. r = d \o b /\ d \in Seq(S) /\ b \in Seq(S)  BY <1>3, <1>5, <1>6
    <3>. HIDE DEF d
    <3>. QED BY <3>1, ConcatProperties
  <2>2. Len(d) = last + 1 /\ Len(b) = L - last /\ last \in 0..L  BY <1>3, <1>6 DEF L
  <2>. HIDE DEF d
  <2>3. Len(r) = L + 1 /\ DOMAIN r = 1..(L + 1)  BY <1>1, <2>1, <2>2
  <2>4. ASSUME NEW k \in 1..last PROVE r[k] = c[k]
    <3>1. k \in 1..(Len(d) + Len(b)) /\ k <= Len(d)  BY <1>1, <2>2
    <3>2. d[k] = c[k]  BY <1>6 DEF d
    <3>. QED BY <2>1, <3>1, <3>2
  <2>5. r[last + 1] = n
    <3>1. last + 1 \in 1..(Len(d) + Len(b)) /\ last + 1 <= Len(d)  BY <1>1, <2>2
    <3>2. d[last + 1] = n  BY <1>6 DEF d
    <3>. QED BY <2>1, <3>1, <3>2
  <2>6. ASSUME NEW k \in (last + 2)..(L + 1) PROVE r[k] = c[k - 1]
    <3>1. k \in 1..(Len(d) + Len(b)) /\ ~ k <= Len(d) /\ k - Len(d) \in 1..(L - last)
          /\ last + (k - Len(d)) = k - 1
      BY <1>1, <2>2
    <3>. QED BY <1>3, <2>1, <3>1
  <2>. QED BY <2>1, <2>3, <2>4, <2>5, <2>6
<1>8. Elements(r) = Elements(c) \cup {n}
  <2>1. ASSUME NEW k \in 1..(L + 1) PROVE r[k] \in Elements(c) \cup {n}
    <3>1. \/ k \in 1..last /\ k \in 1..L
          \/ k = last + 1
          \/ k \in (last + 2)..(L + 1) /\ k - 1 \in 1..L
      BY <1>1 DEF L
    <3>. QED BY <1>1, <1>7, <3>1 DEF Elements
  <2>2. ASSUME NEW k \in 1..L PROVE c[k] \in Elements(r)
    <3>1. \/ k \in 1..last /\ k \in 1..(L + 1)
          \/ k + 1 \in (last + 2)..(L + 1) /\ k + 1 \in 1..(L + 1) /\ (k + 1) - 1 = k
      BY <1>1 DEF L
    <3>. QED BY <1>1, <1>7, <3>1 DEF Elements
  <2>3. last + 1 \in 1..(L + 1)  BY <1>1 DEF L
  <2>4. n \in Elements(r)  BY <1>7, <2>3 DEF Elements
  <2>. QED BY <1>1, <1>7, <2>1, <2>2, <2>4 DEF Elements
<1>. QED BY <1>7, <1>8 DEF r

\* A non-empty set of naturals has a least element.
LEMMA LeastNatural ==
  ASSUME NEW T, T \subseteq Nat, T # {}
  PROVE  \E x \in T : \A y \in T : x <= y
<1>1. PICK x \in T : \A y \in T : ~ (<<y, x>> \in OpToRel(<, Nat))
  BY NatLessThanWellFounded, WFMin
<1>2. \A y \in T : <<y, x>> \in OpToRel(<, Nat) <=> y < x
  BY DEF OpToRel
<1>3. \A y \in T : ~(y < x)
  BY <1>1, <1>2
<1>. QED BY <1>3

\* What directory::remove leaves: the nodes that are not in the directory.
LEMMA PrunedIs ==
  ASSUME NEW S, cat \in Seq(S), NEW p
  PROVE  /\ Pruned(p) \in Seq(S)
         /\ Elements(Pruned(p)) = {x \in InCat : ~ (x.path = p \/ Below(p, x.path))}
<1>. DEFINE Goes(k) == cat[k].path = p \/ Below(p, cat[k].path)
            Is(f, n) == f = [k \in 0..n |-> IF k = 0 THEN <<>>
                                            ELSE IF Goes(k) THEN f[k - 1] ELSE Append(f[k - 1], cat[k])]
            L == Len(cat)
<1>1. L \in Nat /\ DOMAIN cat = 1..L  OBVIOUS
<1>2. \A n \in 0..L : \E f : Is(f, n)
  <2>. DEFINE T == {n \in 0..L : ~ \E f : Is(f, n)}
  <2>1. ASSUME T # {} PROVE FALSE
    <3>1. PICK n \in T : \A m \in T : n <= m
      <4>1. T \subseteq Nat  BY <1>1
      <4>. HIDE DEF T
      <4>. QED BY <2>1, <4>1, LeastNatural
    <3>2. n # 0
      <4>1. Is([k \in 0..0 |-> <<>>], 0)  OBVIOUS
      <4>. QED BY <3>1, <4>1
    <3>3. n \in 1..L /\ n - 1 \in 0..L /\ n - 1 \notin T
      <4>1. n \in 0..L  BY <3>1
      <4>. HIDE DEF T, L
      <4>. QED BY <1>1, <3>1, <3>2, <4>1
    <3>4. PICK f : Is(f, n - 1)  BY <3>3
    <3>. DEFINE g == [k \in 0..n |-> IF k < n THEN f[k]
                                     ELSE IF Goes(n) THEN f[n - 1] ELSE Append(f[n - 1], cat[n])]
    <3>5. \A k \in 0..(n - 1) : g[k] = f[k]  BY <1>1, <3>3
    <3>6. \A k \in 1..(n - 1) : f[k] = IF Goes(k) THEN f[k - 1] ELSE Append(f[k - 1], cat[k])
      <4>1. \A k \in 1..(n - 1) : k \in 0..(n - 1) /\ k # 0  BY <3>3
      <4>2. f = [k \in 0..(n - 1) |-> IF k = 0 THEN <<>>
                                     ELSE IF Goes(k) THEN f[k - 1] ELSE Append(f[k - 1], cat[k])]
        BY <3>4
      <4>. HIDE DEF g, Goes, T
      <4>. QED BY <4>1, <4>2
    <3>7. f[0] = <<>>  BY <1>1, <3>3, <3>4
    <3>8. g[n] = IF Goes(n) THEN g[n - 1] ELSE Append(g[n - 1], cat[n])
      <4>1. g[n - 1] = f[n - 1]  BY <3>3, <3>5
      <4>. HIDE DEF Goes
      <4>. QED BY <3>3, <4>1
    <3>9. Is(g, n)
      <4>1. \A k \in 0..n : g[k] = IF k = 0 THEN <<>>
                                   ELSE IF Goes(k) THEN g[k - 1] ELSE Append(g[k - 1], cat[k])
        <5>1. g[0] = <<>>  BY <3>3, <3>5, <3>7
        <5>2. \A k \in 1..(n - 1) : k - 1 \in 0..(n - 1) /\ k \in 0..(n - 1)  BY <3>3
        <5>. HIDE DEF g, Goes
        <5>. QED BY <3>3, <3>5, <3>6, <3>8, <5>1, <5>2
      <4>2. g = [k \in 0..n |-> g[k]]  OBVIOUS
      <4>. HIDE DEF g, Goes
      <4>. QED BY <4>1, <4>2
    <3>. QED BY <3>1, <3>9
  <2>. QED BY <2>1
<1>3. PICK f : f = CHOOSE h : Is(h, L)  OBVIOUS
<1>4. Is(f, L)
  <2>1. \E h : Is(h, L)
    <3>1. L \in 0..L  BY <1>1
    <3>. HIDE DEF Is, L
    <3>. QED BY <1>2, <3>1
  <2>. HIDE DEF Is
  <2>. QED BY <1>3, <2>1
<1>5. Pruned(p) = f[L]
  BY <1>3 DEF Pruned
<1>6. f[0] = <<>> /\ \A k \in 1..L : f[k] = IF Goes(k) THEN f[k - 1] ELSE Append(f[k - 1], cat[k])
  <2>1. 0 \in 0..L /\ \A k \in 1..L : k \in 0..L /\ k # 0  BY <1>1
  <2>2. f = [k \in 0..L |-> IF k = 0 THEN <<>>
                           ELSE IF Goes(k) THEN f[k - 1] ELSE Append(f[k - 1], cat[k])]
    BY <1>4
  <2>. HIDE DEF Goes, L, Is
  <2>. QED BY <2>1, <2>2
<1>7. \A n \in 0..L : f[n] \in Seq(S) /\ Elements(f[n]) = {cat[k] : k \in {j \in 1..n : ~ Goes(j)}}
  <2>. DEFINE P(n) == f[n] \in Seq(S) /\ Elements(f[n]) = {cat[k] : k \in {j \in 1..n : ~ Goes(j)}}
              T == {n \in 0..L : ~ P(n)}
  <2>1. ASSUME T # {} PROVE FALSE
    <3>1. PICK n \in T : \A m \in T : n <= m
      <4>1. T \subseteq Nat  BY <1>1
      <4>. HIDE DEF T
      <4>. QED BY <2>1, <4>1, LeastNatural
    <3>2. P(0)  BY <1>6 DEF Elements
    <3>3. n \in 1..L /\ n - 1 \in 0..L /\ n - 1 \notin T
      <4>1. n \in 0..L /\ n # 0
        <5>. HIDE DEF P
        <5>. QED BY <3>1, <3>2
      <4>. HIDE DEF T, L
      <4>. QED BY <1>1, <3>1, <4>1
    <3>4. P(n - 1)  BY <3>3
    <3>5. 1..n = 1..(n - 1) \cup {n}  BY <3>3
    <3>6. CASE Goes(n)
      <4>1. f[n] = f[n - 1]  BY <1>6, <3>3, <3>6
      <4>2. {j \in 1..n : ~ Goes(j)} = {j \in 1..(n - 1) : ~ Goes(j)}  BY <3>5, <3>6
      <4>. HIDE DEF Goes
      <4>3. P(n)  BY <3>4, <4>1, <4>2
      <4>. QED BY <3>1, <4>3
    <3>7. CASE ~ Goes(n)
      <4>1. f[n] = Append(f[n - 1], cat[n])  BY <1>6, <3>3, <3>7
      <4>2. {j \in 1..n : ~ Goes(j)} = {j \in 1..(n - 1) : ~ Goes(j)} \cup {n}  BY <3>5, <3>7
      <4>. HIDE DEF Goes
      <4>3. cat[n] \in S  BY <1>1, <3>3
      <4>4. f[n - 1] \in Seq(S)  BY <3>4
      <4>5. f[n] \in Seq(S)  BY <4>1, <4>3, <4>4
      <4>6. Elements(f[n]) = Elements(f[n - 1]) \cup {cat[n]}
        <5>. HIDE DEF P, T
        <5>. QED BY <4>1, <4>3, <4>4, AppendElements
      <4>7. P(n)  BY <3>4, <4>2, <4>5, <4>6
      <4>. QED BY <3>1, <4>7
    <3>. QED BY <3>6, <3>7
  <2>. QED BY <2>1
<1>8. f[L] \in Seq(S) /\ Elements(f[L]) = {cat[k] : k \in {j \in 1..L : ~ Goes(j)}}
  <2>1. L \in 0..L  BY <1>1
  <2>. HIDE DEF L, Goes, Is
  <2>. QED BY <1>7, <2>1
<1>9. {cat[k] : k \in {j \in 1..L : ~ Goes(j)}} = {x \in InCat : ~ (x.path = p \/ Below(p, x.path))}
  BY <1>1 DEF InCat
<1>. QED BY <1>5, <1>8, <1>9

\* A bounded set of positions has a last one.
LEMMA MaxIs ==
  ASSUME NEW n \in Nat, NEW T, T \subseteq 0..n, T # {}
  PROVE  Max(T) \in T
<1>. DEFINE U == {n - x : x \in T}
<1>1. U \subseteq Nat /\ U # {}
  <2>1. \A x \in T : n - x \in Nat  OBVIOUS
  <2>2. PICK x \in T : TRUE  OBVIOUS
  <2>3. n - x \in U  BY <2>2
  <2>. QED BY <2>1, <2>3
<1>2. PICK u \in U : \A v \in U : u <= v
  <2>. HIDE DEF U
  <2>. QED BY <1>1, LeastNatural
<1>3. PICK x \in T : u = n - x  BY <1>2
<1>4. \A y \in T : u <= n - y  BY <1>2
<1>. HIDE DEF U
<1>5. \A y \in T : x >= y  BY <1>3, <1>4
<1>. QED BY <1>5 DEF Max

\* directory::add_children: the node replaces those at and below its path.
LEMMA AddChildIs ==
  ASSUME NEW S, cat \in Seq(S), NEW n \in S
  PROVE  /\ AddChild(n) \in Seq(S)
         /\ Elements(AddChild(n)) =
              {x \in InCat : ~ (x.path = n.path \/ Below(n.path, x.path))} \cup {n}
<1>. DEFINE c == Pruned(n.path)
            T == {0} \cup {k \in DOMAIN c : c[k].path = current_add \/ Below(current_add, c[k].path)}
<1>1. /\ c \in Seq(S)
      /\ Elements(c) = {x \in InCat : ~ (x.path = n.path \/ Below(n.path, x.path))}
  BY PrunedIs
<1>2. AddChild(n) = Inserted(c, n, Max(T))  BY DEF AddChild, Inserted
<1>. HIDE DEF c
<1>3. Len(c) \in Nat /\ DOMAIN c = 1..Len(c)  BY <1>1
<1>4. T \subseteq 0..Len(c) /\ T # {}  BY <1>3
<1>. HIDE DEF T
<1>5. Max(T) \in 0..Len(c)  BY <1>3, <1>4, MaxIs
<1>. QED BY <1>1, <1>2, <1>5, InsertedIs

\* What a removal leaves of a directory when empty directories are kept.
Replaced(n, p, q) ==
  LET c == Pruned(p)
      last == Max({0} \cup {k \in DOMAIN c : Below(q, c[k].path)})
  IN SubSeq(c, 1, last) \o <<n>> \o SubSeq(c, last + 1, Len(c))

\* The node is in the catalogue, and what was at and below the path is not.
LEMMA ReplacedIs ==
  ASSUME NEW S, cat \in Seq(S), NEW n \in S, NEW p, NEW q
  PROVE  /\ Replaced(n, p, q) \in Seq(S)
         /\ Elements(Replaced(n, p, q)) = {x \in InCat : ~ (x.path = p \/ Below(p, x.path))} \cup {n}
<1>. DEFINE c == Pruned(p)
            T == {0} \cup {k \in DOMAIN c : Below(q, c[k].path)}
            r == SubSeq(c, 1, Max(T)) \o <<n>> \o SubSeq(c, Max(T) + 1, Len(c))
<1>1. /\ c \in Seq(S)
      /\ Elements(c) = {x \in InCat : ~ (x.path = p \/ Below(p, x.path))}
  BY PrunedIs
<1>2. r = Inserted(c, n, Max(T))  BY DEF Inserted
<1>. HIDE DEF c, r
<1>3. Len(c) \in Nat /\ DOMAIN c = 1..Len(c)  BY <1>1
<1>4. T \subseteq 0..Len(c) /\ T # {}  BY <1>3
<1>. HIDE DEF T
<1>5. Max(T) \in 0..Len(c)  BY <1>3, <1>4, MaxIs
<1>6. r \in Seq(S) /\ Elements(r) = Elements(c) \cup {n}  BY <1>1, <1>2, <1>5, InsertedIs
<1>7. Replaced(n, p, q) = r  BY DEF r, c, T, Replaced
<1>. QED BY <1>1, <1>6, <1>7

-----------------------------------------------------------------------------
(* Errors are counted, and never forgotten. *)

\* The counters of entries are not that of errors.
LEMMA BumpIs ==
  ASSUME NEW s, NEW n, NEW c \in Counters, "errored" \in DOMAIN s
  PROVE  DOMAIN Bump(s, c, n) = DOMAIN s /\ Bump(s, c, n).errored = s.errored
BY DEF Bump, Counters

\* An error is counted.
LEMMA ErrorIs ==
  ASSUME NEW s, DOMAIN s = Counters \cup {"errored"}, s.errored \in Nat
  PROVE  /\ DOMAIN Bump(s, "errored", 1) = Counters \cup {"errored"}
         /\ Bump(s, "errored", 1).errored \in Nat \ {0}
BY DEF Bump

\* What a removal takes off the counters, it does not take off that of errors.
LEMMA LeftIs ==
  ASSUME StatsOK
  PROVE  DOMAIN Left.stats = Counters \cup {"errored"} /\ Left.stats.errored = st.errored
<1>1. "errored" \notin Counters  BY DEF Counters
<1>2. PICK n : Left.stats = [c \in DOMAIN st |-> IF c \in Counters THEN st[c] - Taken(c, n) ELSE st[c]]
  BY DEF Left
<1>. QED BY <1>1, <1>2 DEF StatsOK

\* What may be done of the counters.
Counted == StatsOK' /\ (st'.errored = 0 => st.errored = 0)
CountedError == StatsOK' /\ st'.errored # 0

\* An entry given up is an error.
LEMMA AbandonCounts ==
  ASSUME StatsOK, NEW s \in {st, Left.stats}, NEW inodes, Abandon(s, inodes)
  PROVE  CountedError
<1>1. DOMAIN s = Counters \cup {"errored"} /\ s.errored \in Nat
  BY LeftIs DEF StatsOK
<1>2. st' = Bump(s, "errored", 1)  BY DEF Abandon
<1>3. st'.errored \in Nat \ {0} /\ DOMAIN st' = Counters \cup {"errored"}
  BY <1>1, <1>2, ErrorIs
<1>. QED BY <1>3 DEF CountedError, StatsOK

\* The removal of an entry counts what it ignores, and no error is forgotten.
LEMMA RemovalCounts ==
  ASSUME StatsOK, NEW m, NEW inodes, Removal(m, inodes)
  PROVE  Counted
<1>1. "errored" \in DOMAIN Left.stats /\ "ignored" \in Counters
  BY LeftIs DEF Counters
<1>2. PICK n : st' = Bump(Left.stats, "ignored", n)  BY DEF Removal
<1>3. DOMAIN st' = DOMAIN Left.stats /\ st'.errored = Left.stats.errored  BY <1>1, <1>2, BumpIs
<1>. QED BY <1>3, LeftIs DEF Counted, StatsOK

\* Whatever is done of an entry.
LEMMA ErrorsStay ==
  ASSUME StatsOK, [Next]_vars
  PROVE  Counted
<1>0. DOMAIN st = Counters \cup {"errored"} /\ st.errored \in Nat
      /\ {"ignored", "ea_treated", "treated", "deleted", "hard_links"} \subseteq Counters
  BY DEF StatsOK, Counters
<1>1. CASE UNCHANGED st  BY <1>1 DEF Counted, StatsOK
<1>2. ASSUME NEW c \in Counters, NEW n, st' = Bump(st, c, n) PROVE Counted
  BY <1>0, <1>2, BumpIs DEF Counted, StatsOK
<1>3. CASE CountedError  BY <1>3 DEF Counted, CountedError
<1>4. CASE Exclude
  BY <1>0, <1>2, <1>4 DEF Exclude
<1>5. CASE Refuse
  BY <1>3, <1>5, AbandonCounts DEF Refuse
<1>6. CASE Unreadable
  BY <1>3, <1>6, AbandonCounts DEF Unreadable
<1>7. CASE LoseDirectory
  <2>1. st' = Bump(st, "errored", 1)  BY <1>7 DEF LoseDirectory
  <2>2. CountedError  BY <1>0, <2>1, ErrorIs DEF CountedError, StatsOK
  <2>. QED BY <1>3, <2>2
<1>8. CASE Preserve
  <2>1. \/ UNCHANGED st
        \/ \E inodes : Abandon(st, inodes)
        \/ st' = Bump(st, "ea_treated", -1)
    BY <1>8 DEF Preserve
  <2>. QED BY <1>0, <1>1, <1>2, <1>3, <2>1, AbandonCounts
<1>9. CASE Remove
  <2>1. CASE Removal(Clean(dolly), ino)  BY <2>1, RemovalCounts
  <2>2. CASE st' = Bump(Left.stats, "errored", 1)
    <3>1. CountedError  BY <1>0, <2>2, ErrorIs, LeftIs DEF CountedError, StatsOK
    <3>. QED BY <1>3, <3>1
  <2>. QED BY <1>9, <2>1, <2>2 DEF Remove
<1>10. CASE Overwrite
  <2>1. \/ UNCHANGED st
        \/ \E inodes : Abandon(Left.stats, inodes)
        \/ \E inodes : Removal(corres, inodes)
    BY <1>10 DEF Overwrite
  <2>. QED BY <1>1, <1>3, <2>1, AbandonCounts, RemovalCounts
<1>11. CASE Add
  <2>1. PICK a, b, c, d : st' = [st EXCEPT !.treated = a, !.hard_links = b, !.deleted = c, !.ea_treated = d]
    BY <1>11 DEF Add
  <2>2. DOMAIN st' = DOMAIN st /\ st'.errored = st.errored  BY <1>0, <2>1
  <2>. QED BY <1>0, <2>2 DEF Counted, StatsOK
<1>12. CASE \/ ReadNext \/ NextArchive \/ Selected \/ CancelSelection \/ LeaveDirectory
            \/ CloneEntry \/ Judge \/ ChooseData \/ ChooseEA \/ Erase
            \/ CopyNext \/ CopyFails \/ CancelCopy \/ Merged
  BY <1>1, <1>12 DEF ReadNext, NextArchive, Selected, CancelSelection, LeaveDirectory, CloneEntry,
       Judge, ChooseData, ChooseEA, Quiet, Erase, CopyNext, CopyFails, CancelCopy, Merged, Copying
<1>13. CASE UNCHANGED vars  BY <1>1, <1>13 DEF vars
<1>. QED BY <1>4, <1>5, <1>6, <1>7, <1>8, <1>9, <1>10, <1>11, <1>12, <1>13 DEF Next

-----------------------------------------------------------------------------
(* The cursors, the path and the archive: one step. *)

StepOK == Typed /\ FilesLinked /\ Reader /\ CloneOK /\ Cursors
PCs == {"judge", "data", "ea", "apply", "filter", "new", "read", "add"}

\* More inodes: what was named still is.
LEMMA MoreInodes ==
  ASSUME Typed, FilesLinked, NEW inodes \in Seq(Inodes), Len(inodes) >= Len(ino),
         \A k \in 1..Len(ino) : inodes[k].type = ino[k].type
  PROVE  /\ cat \in Seq(Nodes(Len(inodes)))
         /\ Nodes(Len(ino)) \subseteq Nodes(Len(inodes))
         /\ \A k \in DOMAIN corres : corres[k] \in 1..Len(inodes) /\ inodes[corres[k]].type # "dir"
         /\ \A x \in Nodes(Len(ino)) : inodes[x.i].type = ino[x.i].type
<1>1. Len(ino) \in Nat /\ Len(inodes) \in Nat  BY DEF Typed
<1>2. 1..Len(ino) \subseteq 1..Len(inodes)  BY <1>1
<1>3. Nodes(Len(ino)) \subseteq Nodes(Len(inodes))  BY <1>2 DEF Nodes
<1>4. cat \in Seq(Nodes(Len(inodes)))  BY <1>3 DEF Typed
<1>5. \A k \in DOMAIN corres : corres[k] \in 1..Len(ino) /\ ino[corres[k]].type # "dir"
  BY DEF FilesLinked
<1>6. \A x \in Nodes(Len(ino)) : x.i \in 1..Len(ino)  BY DEF Nodes
<1>. QED BY <1>2, <1>3, <1>4, <1>5, <1>6

\* The directory of an entry that is not entered is skipped.
LEMMA LeaveIs ==
  ASSUME Typed, Reader, pc \in AtEntry, it.type # "eod", Leave
  PROVE  /\ pos' \in ent..Len(archs[index]) /\ ent \in 1..Len(archs[index])
         /\ Where(archs[index], pos') = Front(it.path)
         /\ Ahead' = Front(it.path) /\ juillet'.path \in Seq(Names)
         /\ index' = index /\ ent' = ent /\ offset' = offset
<1>1. /\ pos \in 0..Len(archs[index]) /\ Ahead = Where(archs[index], pos)
      /\ juillet.path \in Seq(Names)
      /\ ent \in 1..pos /\ pos = ent /\ juillet.path = it.path
  BY DEF Reader, AtEntry, InConflict, Selecting
<1>2. ent \in 1..Len(archs[index]) /\ it = archs[index][ent]  BY <1>1, EntryFacts
<1>3. Where(archs[index], ent) = IF it.type = "dir" THEN it.path ELSE Front(it.path)
  BY <1>2, OrderFacts
<1>4. CASE EntryIsDir
  <2>1. pos' = AfterDir /\ juillet' = [path |-> juillet.path, init |-> FALSE]
    BY <1>4 DEF Leave, LeaveEntry
  <2>2. AfterDir \in ent..Len(archs[index]) /\ Where(archs[index], AfterDir) = Front(it.path)
    BY <1>2, <1>4, EndOfDirectory
  <2>3. Ahead' = Front(juillet.path)  BY <2>1 DEF Ahead
  <2>. QED BY <1>1, <1>2, <2>1, <2>2, <2>3 DEF Leave
<1>5. CASE ~ EntryIsDir
  <2>1. pos' = pos /\ juillet' = juillet  BY <1>5 DEF Leave, LeaveEntry
  <2>2. Ahead' = Ahead  BY <2>1 DEF Ahead
  <2>3. it.type # "dir"  BY <1>5 DEF EntryIsDir
  <2>4. pos \in ent..Len(archs[index])  BY <1>1
  <2>. QED BY <1>1, <1>2, <1>3, <2>1, <2>2, <2>3, <2>4 DEF Leave
<1>. QED BY <1>4, <1>5

\* Both cursors are where the archive goes on.
LEMMA BackInStep ==
  ASSUME Typed', FilesLinked', pc' = "read", pos' \in 0..Len(archs'[index']),
         Ahead' = Where(archs'[index'], pos'), juillet'.path \in Seq(Names),
         current_add' = Ahead', current_read' = Ahead'
  PROVE  StepOK'
BY DEF StepOK, Reader, CloneOK, Cursors, AtEntry, InConflict, Selecting

\* The next entry is read where both cursors are.
LEMMA ReadNextStep ==
  ASSUME StepOK, ReadNext PROVE StepOK'
<1>. DEFINE x == archs[index][pos + 1]
<1>1. /\ Typed /\ FilesLinked /\ pc = "read" /\ pc' = "filter"
      /\ pos \in 0..Len(archs[index]) /\ pos < Len(archs[index])
      /\ Ahead = Where(archs[index], pos)
      /\ current_add = Ahead /\ current_read = Ahead
      /\ pos' = pos + 1 /\ ent' = pos + 1 /\ juillet' = Enfile(x)
      /\ UNCHANGED <<archs, cat, ino, corres, index, offset, current_add, current_read, dolly>>
  BY DEF StepOK, Reader, Cursors, ReadNext, Selecting, source, result, cursors, clone
<1>2. Len(archs[index]) \in Nat /\ pos + 1 \in 1..Len(archs[index]) /\ (pos + 1) - 1 = pos
  BY <1>1, ArchiveFacts DEF Typed
<1>3. /\ x.path \in Seq(Names) \ {<<>>}
      /\ Ahead = IF x.type = "eod" THEN x.path ELSE Front(x.path)
      /\ Where(archs[index], pos + 1) = IF x.type = "dir" THEN x.path ELSE Front(x.path)
  BY <1>1, <1>2, OrderFacts
<1>4. Append(Front(x.path), Last(x.path)) = x.path  BY <1>3, FrontLast
<1>5. it' = x  BY <1>1 DEF it
<1>6. juillet' = IF x.type = "eod" THEN [path |-> Ahead, init |-> FALSE]
                 ELSE [path |-> Append(Ahead, Last(x.path)), init |-> x.type = "dir"]
  BY <1>1 DEF Enfile, Ahead
<1>7. juillet'.path = x.path /\ juillet'.init = (x.type = "dir")
  <2>1. CASE x.type = "eod"
    <3>1. juillet' = [path |-> x.path, init |-> FALSE]  BY <1>3, <1>6, <2>1
    <3>. QED BY <2>1, <3>1
  <2>2. CASE x.type # "eod"
    <3>1. juillet' = [path |-> x.path, init |-> x.type = "dir"]  BY <1>3, <1>4, <1>6, <2>2
    <3>. QED BY <3>1
  <2>. QED BY <2>1, <2>2
<1>8. Ahead' = Where(archs[index], pos + 1)  BY <1>3, <1>7 DEF Ahead
<1>9. Typed' /\ FilesLinked'
  <2>1. pos + 1 \in Nat  BY <1>2
  <2>. QED BY <1>1, <2>1 DEF Typed, FilesLinked
<1>10. Reader'
  <2>1. pos' \in 0..Len(archs'[index']) /\ ent' \in 1..pos' /\ pos' = ent'
    BY <1>1, <1>2
  <2>2. Ahead' = Where(archs'[index'], pos')  BY <1>1, <1>8
  <2>. QED BY <1>1, <1>3, <1>5, <1>7, <2>1, <2>2 DEF Reader, AtEntry, InConflict, Selecting
<1>11. CloneOK'  BY <1>1 DEF CloneOK, InConflict
<1>12. Cursors'  BY <1>1, <1>3, <1>5 DEF Cursors, InConflict
<1>. QED BY <1>9, <1>10, <1>11, <1>12 DEF StepOK

\* Both cursors go back to the root with the reader.
LEMMA NextArchiveStep ==
  ASSUME StepOK, NextArchive PROVE StepOK'
<1>1. /\ Typed /\ FilesLinked /\ pc' = "read" /\ index < Len(archs)
      /\ index' = index + 1 /\ pos' = 0 /\ juillet' = [path |-> <<>>, init |-> TRUE]
      /\ offset' = Cardinality(DOMAIN corres)
      /\ current_add' = <<>> /\ current_read' = <<>>
      /\ UNCHANGED <<archs, cat, ino, corres>>
  BY DEF StepOK, NextArchive, source, result
<1>2. offset' \in Nat  BY <1>1, FS_CardinalityType DEF FilesLinked
<1>3. index' \in 1..Len(archs) /\ Len(archs[index + 1]) \in Nat
  BY <1>1, ArchiveFacts DEF Typed
<1>4. Typed' /\ FilesLinked'  BY <1>1, <1>2, <1>3 DEF Typed, FilesLinked
<1>5. Ahead' = <<>> /\ Where(archs'[index'], pos') = <<>> /\ <<>> \in Seq(Names)
  BY <1>1 DEF Ahead, Where
<1>6. pos' \in 0..Len(archs'[index'])  BY <1>1, <1>3
<1>. QED BY <1>1, <1>4, <1>5, <1>6, BackInStep

\* Step 2 moves no cursor.
LEMMA CopyStep ==
  ASSUME StepOK, Selected \/ CancelSelection \/ CopyNext, pc' # "end" PROVE StepOK'
<1>1. Typed /\ FilesLinked /\ pc' = "copy" /\ pos' \in Nat /\ UNCHANGED <<archs, index, offset, cat, ino, corres>>
  BY DEF StepOK, Selected, CancelSelection, CopyNext, Copying, source, result, reader, Stop, Typed
<1>2. Typed' /\ FilesLinked'  BY <1>1 DEF Typed, FilesLinked
<1>. QED BY <1>1, <1>2 DEF StepOK, Reader, CloneOK, Cursors, AtEntry, InConflict, Selecting

\* The end of a directory takes the reader and both cursors out of it.
LEMMA LeaveDirectoryStep ==
  ASSUME StepOK, LeaveDirectory, pc' # "end" PROVE StepOK'
<1>1. /\ Typed /\ FilesLinked /\ pc = "filter" /\ it.type = "eod" /\ pc' = "read"
      /\ current_add' = Front(current_add) /\ current_read' = Front(current_read)
      /\ current_add = it.path /\ current_read = it.path
      /\ pos \in 0..Len(archs[index]) /\ Ahead = Where(archs[index], pos)
      /\ juillet.path \in Seq(Names)
      /\ ent \in 1..pos /\ pos = ent
      /\ UNCHANGED <<archs, cat, ino, corres, index, pos, ent, offset, juillet>>
  BY DEF StepOK, Reader, Cursors, LeaveDirectory, Stop, AtEntry, Selecting, source, result, reader
<1>2. it = archs[index][ent] /\ ent \in 1..Len(archs[index])  BY <1>1, EntryFacts
<1>3. Ahead = Front(it.path)  BY <1>1, <1>2, OrderFacts
<1>4. Ahead' = Ahead  BY <1>1 DEF Ahead
<1>5. Typed' /\ FilesLinked'  BY <1>1 DEF Typed, FilesLinked
<1>. QED BY <1>1, <1>3, <1>4, <1>5, BackInStep

\* The clone of the entry read, before it is made.
LEMMA DollyIs ==
  ASSUME StepOK, pc = "filter", it.type # "eod"
  PROVE  /\ Typed /\ FilesLinked /\ Reader
         /\ IsEntry(it) /\ it \in Listed /\ index \in Nat
         /\ ent \in 1..pos /\ pos = ent /\ pos \in 0..Len(archs[index])
         /\ it.path \in Seq(Names) \ {<<>>} /\ Front(it.path) \in Seq(Names) /\ juillet.path = it.path
         /\ current_add = Front(it.path) /\ current_read = Front(it.path)
         /\ Append(current_add, Name) = it.path
         /\ Dolly = [path |-> it.path, i |-> IF IsNewInode THEN Len(ino) + 1 ELSE corres[Key(it)],
                     etiq |-> Dolly.etiq, n |-> Dolly.n]
         /\ Dolly.etiq \in Nat /\ Dolly.n \in Nat
         /\ EntryIsDir => IsNewInode
         /\ ~ IsNewInode => Key(it) \in DOMAIN corres
<1>1. /\ Typed /\ FilesLinked /\ Reader
      /\ current_add = Front(it.path) /\ current_read = Front(it.path)
      /\ pos \in 0..Len(archs[index]) /\ ent \in 1..pos /\ pos = ent /\ juillet.path = it.path
  BY DEF StepOK, Reader, Cursors, AtEntry, Selecting
<1>2. /\ it.path \in Seq(Names) \ {<<>>} /\ Front(it.path) \in Seq(Names)
      /\ IsEntry(it) /\ it \in Listed /\ Append(Front(it.path), Name) = it.path
  BY <1>1, EntryFacts
<1>3. /\ index \in Nat /\ \A j \in 1..Len(archs) : Len(archs[j]) \in Nat
      /\ Len(archs) \in {1, 2} /\ index \in 1..Len(archs)
  BY <1>1, ArchiveFacts DEF Typed
<1>4. it.etiq \in Nat /\ offset \in Nat /\ ent \in Nat  BY <1>1, <1>2 DEF IsEntry, Typed
<1>5. Dolly.etiq \in Nat  BY <1>4 DEF Dolly, Key
<1>6. Dolly.n \in Nat  BY <1>3, <1>4 DEF Dolly
<1>7. EntryIsDir => IsNewInode  BY <1>2 DEF IsNewInode, EntryIsDir, IsEntry
<1>8. ~ IsNewInode => Key(it) \in DOMAIN corres  BY DEF IsNewInode
<1>9. Dolly = [path |-> it.path, i |-> IF IsNewInode THEN Len(ino) + 1 ELSE corres[Key(it)],
               etiq |-> Dolly.etiq, n |-> Dolly.n]
  BY <1>1, <1>2 DEF Dolly
<1>. QED BY <1>1, <1>2, <1>3, <1>5, <1>6, <1>7, <1>8, <1>9

\* What the mask leaves out is skipped with all it holds, and an empty
\* directory is added and left at once.
LEMMA ExcludeStep ==
  ASSUME StepOK, Exclude PROVE StepOK'
<1>1. /\ pc = "filter" /\ it.type # "eod" /\ pc' = "read" /\ Leave
      /\ UNCHANGED <<archs, corres, current_add, current_read>>
  BY DEF Exclude, source, cursors
<1>2. /\ Typed /\ FilesLinked /\ Reader /\ IsEntry(it) /\ it \in Listed /\ index \in Nat
      /\ current_add = Front(it.path) /\ current_read = Front(it.path)
      /\ it.path \in Seq(Names) \ {<<>>}
      /\ Dolly = [path |-> it.path, i |-> Dolly.i, etiq |-> Dolly.etiq, n |-> Dolly.n]
      /\ Dolly.etiq \in Nat /\ Dolly.n \in Nat
  BY <1>1, DollyIs
<1>3. /\ pos' \in ent..Len(archs[index]) /\ ent \in 1..Len(archs[index])
      /\ Where(archs[index], pos') = Front(it.path)
      /\ Ahead' = Front(it.path) /\ juillet'.path \in Seq(Names)
      /\ index' = index /\ offset' = offset
  BY <1>1, <1>2, LeaveIs DEF AtEntry
<1>4. Len(ino) \in Nat /\ ino \in Seq(Inodes)  BY <1>2 DEF Typed
<1>5. /\ ino' \in Seq(Inodes) /\ Len(ino') >= Len(ino) /\ \A k \in 1..Len(ino) : ino'[k].type = ino[k].type
      /\ cat' \in Seq(Nodes(Len(ino')))
  <2>1. CASE EntryIsDir /\ opts.emptydir
    <3>. DEFINE x == [InodeOf(it) EXCEPT !.type = "igndir"]
                n == [Dolly EXCEPT !.i = Len(ino) + 1]
    <3>1. cat' = AddChild(n) /\ ino' = Append(ino, x)  BY <2>1 DEF Exclude
    <3>2. x \in Inodes
      <4>1. InodeOf(it) \in Inodes  BY <1>2, InodeOfIs
      <4>2. \A y \in Inodes : [y EXCEPT !.type = "igndir"] \in Inodes  BY DEF Inodes, Types
      <4>. QED BY <4>1, <4>2
    <3>. HIDE DEF x
    <3>3. /\ ino' \in Seq(Inodes) /\ Len(ino') = Len(ino) + 1
          /\ \A k \in 1..Len(ino) : ino'[k] = ino[k]
      BY <1>4, <3>1, <3>2
    <3>4. cat \in Seq(Nodes(Len(ino')))  BY <1>2, <1>4, <3>3, MoreInodes
    <3>5. n = [path |-> it.path, i |-> Len(ino) + 1, etiq |-> Dolly.etiq, n |-> Dolly.n]
      BY <1>2
    <3>6. n \in Nodes(Len(ino'))
      <4>1. Len(ino) + 1 \in 1..Len(ino')  BY <1>4, <3>3
      <4>. QED BY <1>2, <3>5, <4>1 DEF Nodes
    <3>. HIDE DEF n
    <3>7. cat' \in Seq(Nodes(Len(ino')))  BY <3>1, <3>4, <3>6, AddChildIs
    <3>. QED BY <1>4, <3>3, <3>7
  <2>2. CASE ~ (EntryIsDir /\ opts.emptydir)
    <3>1. cat' = cat /\ ino' = ino  BY <2>2 DEF Exclude
    <3>. QED BY <1>2, <1>4, <3>1 DEF Typed
  <2>. QED BY <2>1, <2>2
<1>6. FilesLinked'  BY <1>1, <1>2, <1>5, MoreInodes DEF FilesLinked
<1>7. pos' \in Nat /\ pos' \in 0..Len(archs[index])  BY <1>3
<1>8. Typed'  BY <1>1, <1>2, <1>3, <1>5, <1>7 DEF Typed
<1>. QED BY <1>1, <1>2, <1>3, <1>6, <1>7, <1>8, BackInStep

\* A clone is made; the cursor that reads enters the directory of the same name,
\* when there is one, whatever the entry is.
LEMMA CloneEntryStep ==
  ASSUME StepOK, CloneEntry, pc' # "end" PROVE StepOK'
<1>1. /\ pc = "filter" /\ it.type # "eod" /\ MakeClone /\ here' = Place
      /\ pc' = (IF Conflicts THEN "judge" ELSE "new")
      /\ current_read' = (IF Conflicts /\ IsDirAt(There) THEN Place ELSE current_read)
      /\ UNCHANGED <<archs, cat, index, pos, ent, offset, juillet, current_add>>
  BY DEF CloneEntry, Stop, source, reader
<1>2. /\ Typed /\ FilesLinked /\ Reader
      /\ IsEntry(it) /\ it \in Listed /\ index \in Nat
      /\ it.path \in Seq(Names) \ {<<>>} /\ juillet.path = it.path
      /\ current_add = Front(it.path) /\ current_read = Front(it.path)
      /\ Append(current_add, Name) = it.path
      /\ Dolly = [path |-> it.path, i |-> IF IsNewInode THEN Len(ino) + 1 ELSE corres[Key(it)],
                  etiq |-> Dolly.etiq, n |-> Dolly.n]
      /\ Dolly.etiq \in Nat /\ Dolly.n \in Nat
      /\ EntryIsDir => IsNewInode
      /\ ~ IsNewInode => Key(it) \in DOMAIN corres
  BY <1>1, DollyIs
<1>3. Place = it.path  BY <1>2 DEF Place
<1>4. it' = it /\ EntryIsDir' = EntryIsDir  BY <1>1 DEF it, EntryIsDir
<1>5. Len(ino) \in Nat /\ ino \in Seq(Inodes)  BY <1>2 DEF Typed
<1>6. /\ dolly' = Dolly
      /\ ino' = IF IsNewInode THEN Append(ino, InodeOf(it)) ELSE ino
      /\ corres' = IF it.etiq # 0 /\ IsNewInode
                   THEN [k \in DOMAIN corres \cup {Key(it)} |-> IF k = Key(it) THEN Len(ino) + 1 ELSE corres[k]]
                   ELSE corres
  BY <1>1 DEF MakeClone
<1>7. /\ ino' \in Seq(Inodes) /\ Len(ino') >= Len(ino) /\ \A k \in 1..Len(ino) : ino'[k] = ino[k]
      /\ dolly' \in Nodes(Len(ino')) /\ dolly'.path = it.path
      /\ ino'[dolly'.i].type = "dir" <=> EntryIsDir
  <2>1. CASE IsNewInode
    <3>1. InodeOf(it) \in Inodes /\ InodeOf(it).type = it.type  BY <1>2, InodeOfIs
    <3>2. ino' = Append(ino, InodeOf(it))  BY <1>6, <2>1
    <3>3. /\ ino' \in Seq(Inodes) /\ Len(ino') = Len(ino) + 1
          /\ \A k \in 1..Len(ino) : ino'[k] = ino[k]
          /\ ino'[Len(ino) + 1] = InodeOf(it)
      BY <1>5, <3>1, <3>2
    <3>4. dolly' = [path |-> it.path, i |-> Len(ino) + 1, etiq |-> Dolly.etiq, n |-> Dolly.n]
      BY <1>2, <1>6, <2>1
    <3>5. Len(ino) + 1 \in 1..Len(ino')  BY <1>5, <3>3
    <3>6. dolly' \in Nodes(Len(ino')) /\ dolly'.path = it.path /\ dolly'.i = Len(ino) + 1
      BY <1>2, <3>4, <3>5 DEF Nodes
    <3>. QED BY <1>5, <3>1, <3>3, <3>6 DEF EntryIsDir
  <2>2. CASE ~ IsNewInode
    <3>1. corres[Key(it)] \in 1..Len(ino) /\ ino[corres[Key(it)]].type # "dir"
      BY <1>2, <2>2 DEF FilesLinked
    <3>2. dolly' = [path |-> it.path, i |-> corres[Key(it)], etiq |-> Dolly.etiq, n |-> Dolly.n]
      BY <1>2, <1>6, <2>2
    <3>3. ino' = ino  BY <1>6, <2>2
    <3>4. dolly' \in Nodes(Len(ino')) /\ dolly'.path = it.path /\ dolly'.i = corres[Key(it)]
      BY <1>2, <3>1, <3>2, <3>3 DEF Nodes
    <3>. QED BY <1>2, <1>5, <2>2, <3>1, <3>3, <3>4
  <2>. QED BY <2>1, <2>2
<1>8. FilesLinked'
  <2>1. /\ DOMAIN corres \subseteq Nat \ {0} /\ IsFiniteSet(DOMAIN corres)
        /\ \A k \in DOMAIN corres : corres[k] \in 1..Len(ino') /\ ino'[corres[k]].type # "dir"
    BY <1>2, <1>7, MoreInodes DEF FilesLinked
  <2>2. CASE it.etiq # 0 /\ IsNewInode
    <3>1. Key(it) \in Nat \ {0}
      <4>1. it.etiq \in Nat /\ it.etiq # 0  BY <1>2, <2>2 DEF IsEntry
      <4>2. offset \in Nat  BY <1>2 DEF Typed
      <4>. QED BY <4>1, <4>2 DEF Key
    <3>2. DOMAIN corres' = DOMAIN corres \cup {Key(it)}
          /\ \A k \in DOMAIN corres' : corres'[k] = IF k = Key(it) THEN Len(ino) + 1 ELSE corres[k]
      BY <1>6, <2>2
    <3>3. ~ EntryIsDir  BY <1>2, <2>2 DEF EntryIsDir, IsEntry
    <3>4. dolly'.i = Len(ino) + 1 /\ dolly'.i \in 1..Len(ino')
      BY <1>2, <1>6, <1>7, <2>2 DEF Nodes
    <3>5. IsFiniteSet(DOMAIN corres')  BY <2>1, <3>2, FS_AddElement
    <3>. QED BY <1>7, <2>1, <3>1, <3>2, <3>3, <3>4, <3>5 DEF FilesLinked
  <2>3. CASE ~ (it.etiq # 0 /\ IsNewInode)
    <3>1. corres' = corres  BY <1>6, <2>3
    <3>. QED BY <2>1, <3>1 DEF FilesLinked
  <2>. QED BY <2>2, <2>3
<1>9. Typed'  BY <1>1, <1>2, <1>7, MoreInodes DEF Typed
<1>10. Reader'
  <2>1. Ahead' = Ahead  BY <1>1 DEF Ahead
  <2>. QED BY <1>1, <1>2, <1>4, <2>1 DEF Reader, AtEntry, InConflict, Selecting
<1>11. CloneOK'
  <2>1. IsDirAt(dolly)' = (ino'[dolly'.i].type = "dir")  BY DEF IsDirAt
  <2>. QED BY <1>1, <1>4, <1>7, <2>1 DEF CloneOK, InConflict
<1>12. Cursors'
  <2>1. At(here)' = At(Place) /\ NodeAt(here)' = NodeAt(Place)
    BY <1>1 DEF At, NodeAt
  <2>2. CASE Conflicts
    <3>1. At(Place) # {}  BY <2>2 DEF Conflicts
    <3>2. PICK k \in DOMAIN cat : There = cat[k]
      BY <3>1 DEF There, NodeAt, At
    <3>3. There.i \in 1..Len(ino)
      <4>1. cat[k] \in Nodes(Len(ino))  BY <1>2, <3>2 DEF Typed
      <4>. QED BY <3>2, <4>1 DEF Nodes
    <3>4. HereIsDir' = IsDirAt(There)
      <4>1. Here' = There  BY <2>1 DEF Here, There
      <4>. QED BY <1>7, <3>3, <4>1 DEF HereIsDir, IsDirAt
    <3>. QED BY <1>1, <1>2, <1>3, <1>4, <2>1, <2>2, <3>1, <3>4 DEF Cursors, InConflict
  <2>3. CASE ~ Conflicts
    BY <1>1, <1>2, <1>4, <2>3 DEF Cursors, InConflict
  <2>. QED BY <2>2, <2>3
<1>. QED BY <1>8, <1>9, <1>10, <1>11, <1>12 DEF StepOK

\* What is known while a conflict is solved.
LEMMA ConflictIs ==
  ASSUME StepOK, pc \in InConflict
  PROVE  /\ Typed /\ FilesLinked /\ Reader /\ IsEntry(it) /\ it \in Listed
         /\ it.type # "eod" /\ it.path \in Seq(Names) \ {<<>>} /\ Front(it.path) \in Seq(Names)
         /\ pos = ent /\ ent \in 1..pos /\ pos \in 0..Len(archs[index]) /\ juillet.path = it.path
         /\ juillet.path \in Seq(Names)
         /\ Ahead = Where(archs[index], pos)
         /\ Where(archs[index], pos) = IF EntryIsDir THEN it.path ELSE Front(it.path)
         /\ current_add = Front(it.path) /\ Append(current_add, Name) = it.path
         /\ here = it.path /\ At(here) # {}
         /\ current_read = IF HereIsDir THEN it.path ELSE Front(it.path)
         /\ dolly \in Nodes(Len(ino)) /\ dolly.path = it.path /\ dolly.i \in 1..Len(ino)
         /\ IsDirAt(dolly) <=> EntryIsDir
         /\ Here \in InCat /\ Here.path = it.path
         /\ Here \in Nodes(Len(ino)) /\ Here.i \in 1..Len(ino)
<1>1. /\ Typed /\ FilesLinked /\ Reader /\ it.type # "eod" /\ pos = ent /\ ent \in 1..pos
      /\ pos \in 0..Len(archs[index]) /\ juillet.path = it.path /\ juillet.path \in Seq(Names)
      /\ Ahead = Where(archs[index], pos) /\ current_add = Front(it.path)
      /\ here = it.path /\ At(here) # {}
      /\ current_read = IF HereIsDir THEN it.path ELSE Front(it.path)
      /\ dolly \in Nodes(Len(ino)) /\ dolly.path = it.path
      /\ IsDirAt(dolly) <=> EntryIsDir
  BY DEF StepOK, Reader, CloneOK, Cursors, AtEntry, InConflict, Selecting
<1>2. /\ it.path \in Seq(Names) \ {<<>>} /\ Front(it.path) \in Seq(Names)
      /\ IsEntry(it) /\ it \in Listed /\ Append(Front(it.path), Name) = it.path
      /\ it = archs[index][ent] /\ ent \in 1..Len(archs[index])
  BY <1>1, EntryFacts
<1>3. Where(archs[index], pos) = IF EntryIsDir THEN it.path ELSE Front(it.path)
  BY <1>1, <1>2, OrderFacts DEF EntryIsDir
<1>4. PICK k \in DOMAIN cat : Here = cat[k] /\ cat[k].path = here
  BY <1>1 DEF Here, NodeAt, At
<1>5. Here \in InCat /\ Here.path = it.path  BY <1>1, <1>4 DEF InCat
<1>6. Here \in Nodes(Len(ino))
  <2>1. cat[k] \in Nodes(Len(ino))  BY <1>1, <1>4 DEF Typed
  <2>. QED BY <1>4, <2>1
<1>7. Here.i \in 1..Len(ino) /\ dolly.i \in 1..Len(ino)  BY <1>1, <1>6 DEF Nodes
<1>. QED BY <1>1, <1>2, <1>3, <1>5, <1>6, <1>7

\* The policy is asked, or the user.
LEMMA JudgeStep ==
  ASSUME StepOK, Judge \/ ChooseData \/ ChooseEA PROVE StepOK'
<1>1. /\ pc \in InConflict /\ pc' \in InConflict
      /\ UNCHANGED <<archs, cat, ino, corres, index, pos, ent, offset, juillet, current_add,
                     current_read, dolly, here>>
  BY DEF Judge, ChooseData, ChooseEA, Quiet, InConflict, source, result, reader, cursors
<1>2. Typed' /\ FilesLinked'  BY <1>1 DEF StepOK, Typed, FilesLinked, InConflict
<1>3. it' = it /\ EntryIsDir' = EntryIsDir /\ Ahead' = Ahead /\ IsDirAt(dolly)' = IsDirAt(dolly)
      /\ HereIsDir' = HereIsDir /\ At(here)' = At(here)
  BY <1>1 DEF it, EntryIsDir, Ahead, IsDirAt, HereIsDir, Here, NodeAt, At
<1>4. Reader'  BY <1>1, <1>3 DEF StepOK, Reader, AtEntry, InConflict, Selecting
<1>5. CloneOK'  BY <1>1, <1>3 DEF StepOK, CloneOK, InConflict
<1>6. Cursors'  BY <1>1, <1>3 DEF StepOK, Cursors, InConflict
<1>. QED BY <1>2, <1>4, <1>5, <1>6 DEF StepOK

\* A map that has no more than the one there was.
PartOf(m, c) == DOMAIN m \subseteq DOMAIN c /\ \A k \in DOMAIN m : m[k] = c[k]

\* What the removal of a node, or of a clone, does of the map.
LEMMA CleanIs ==
  ASSUME NEW n PROVE PartOf(Clean(n), corres)
BY DEF PartOf, Clean, Without

\* A map with fewer etiquettes has files only, when inodes keep their kind.
LEMMA LinkedStill ==
  ASSUME Typed, FilesLinked, NEW m, PartOf(m, corres), NEW inodes \in Seq(Inodes),
         Len(inodes) >= Len(ino), \A k \in 1..Len(ino) : inodes[k].type = ino[k].type
  PROVE  /\ DOMAIN m \subseteq Nat \ {0} /\ IsFiniteSet(DOMAIN m)
         /\ \A k \in DOMAIN m : m[k] \in 1..Len(inodes) /\ inodes[m[k]].type # "dir"
<1>1. \A k \in DOMAIN corres : corres[k] \in 1..Len(inodes) /\ inodes[corres[k]].type # "dir"
  BY MoreInodes
<1>2. IsFiniteSet(DOMAIN m)  BY FS_Subset DEF FilesLinked, PartOf
<1>. QED BY <1>1, <1>2 DEF FilesLinked, PartOf

\* After a conflict, both directories are entered or neither is.
LEMMA SolvedInStep ==
  ASSUME StepOK, pc \in InConflict, pc' = "read", UNCHANGED archs,
         ino' \in Seq(Inodes), Len(ino') >= Len(ino), \A k \in 1..Len(ino) : ino'[k].type = ino[k].type,
         cat' \in Seq(Nodes(Len(ino'))), PartOf(corres', corres),
         \/ /\ BothDirs /\ UNCHANGED reader
            /\ current_add' = it.path /\ current_read' = it.path
         \/ /\ Leave
            /\ current_add' = Front(it.path) /\ current_read' = Front(it.path)
  PROVE  StepOK'
<1>1. /\ Typed /\ FilesLinked /\ Reader /\ it.type # "eod" /\ pos \in 0..Len(archs[index])
      /\ juillet.path \in Seq(Names) /\ Ahead = Where(archs[index], pos)
      /\ Where(archs[index], pos) = IF EntryIsDir THEN it.path ELSE Front(it.path)
  BY ConflictIs
<1>2. /\ pos' \in 0..Len(archs[index]) /\ index' = index /\ offset' = offset
      /\ Ahead' = Where(archs[index], pos') /\ juillet'.path \in Seq(Names)
      /\ current_add' = Ahead' /\ current_read' = Ahead'
  <2>1. CASE BothDirs /\ UNCHANGED reader /\ current_add' = it.path /\ current_read' = it.path
    <3>1. UNCHANGED <<index, pos, ent, offset, juillet>> /\ Ahead' = Ahead
      BY <2>1 DEF reader, Ahead
    <3>2. EntryIsDir  BY <2>1 DEF BothDirs
    <3>. QED BY <1>1, <2>1, <3>1, <3>2
  <2>2. CASE Leave /\ current_add' = Front(it.path) /\ current_read' = Front(it.path)
    <3>1. /\ pos' \in ent..Len(archs[index]) /\ ent \in 1..Len(archs[index])
          /\ Where(archs[index], pos') = Front(it.path)
          /\ Ahead' = Front(it.path) /\ juillet'.path \in Seq(Names)
          /\ index' = index /\ offset' = offset
      BY <1>1, <2>2, LeaveIs DEF AtEntry
    <3>. QED BY <2>2, <3>1
  <2>. QED BY <2>1, <2>2
<1>3. FilesLinked'  BY <1>1, LinkedStill DEF FilesLinked
<1>4. Typed'  BY <1>1, <1>2 DEF Typed
<1>. QED BY <1>2, <1>3, <1>4, BackInStep

\* Only the saved status and the EA of an inode change: its kind does not.
LEMMA MarkedKinds ==
  ASSUME ino \in Seq(Inodes), NEW i \in 1..Len(ino), NEW x \in Inodes, NEW y \in Inodes, x.type = ino[i].type
  PROVE  SameKinds(ino, [ino EXCEPT ![i] = [x EXCEPT !.saved = y.saved]])
<1>1. [x EXCEPT !.saved = y.saved] \in Inodes /\ [x EXCEPT !.saved = y.saved].type = x.type
  BY DEF Inodes
<1>. QED BY <1>1, UpdatedKinds

\* The entry in place stays: what becomes of its EA.
LEMMA KeptEA ==
  ASSUME ino \in Seq(Inodes), NEW i \in 1..Len(ino), NEW j \in 1..Len(ino), NEW x
  PROVE  LET new == CASE act.ea \in Moves -> Transfer(act.ea, i, j)[i]
                      [] act.ea = "preserve_mark_saved" -> EAOfInode(i, "partial")[i]
                      [] act.ea = "clear" -> IF IsInode(x) /\ x.ea # "none" THEN Drop(ino[i], "none") ELSE ino[i]
                      [] OTHER -> ino[i]
         IN new \in Inodes /\ new.type = ino[i].type
<1>. DEFINE new == CASE act.ea \in Moves -> Transfer(act.ea, i, j)[i]
                     [] act.ea = "preserve_mark_saved" -> EAOfInode(i, "partial")[i]
                     [] act.ea = "clear" -> IF IsInode(x) /\ x.ea # "none" THEN Drop(ino[i], "none") ELSE ino[i]
                     [] OTHER -> ino[i]
<1>1. ino[i] \in Inodes /\ "none" \in EAStates /\ "partial" \in EAStates  BY DEF EAStates
<1>2. "preserve_mark_saved" \notin Moves /\ "clear" \notin Moves  BY DEF Moves
<1>3. CASE act.ea \in Moves
  <2>1. new = Transfer(act.ea, i, j)[i]  BY <1>2, <1>3
  <2>2. SameKinds(ino, Transfer(act.ea, i, j))  BY <1>3, TransferKinds
  <2>3. Transfer(act.ea, i, j)[i] \in Inodes /\ Transfer(act.ea, i, j)[i].type = ino[i].type
    BY <2>2 DEF SameKinds
  <2>. QED BY <2>1, <2>3
<1>4. CASE act.ea = "preserve_mark_saved"
  <2>1. new = EAOfInode(i, "partial")[i]  BY <1>2, <1>4
  <2>2. SameKinds(ino, EAOfInode(i, "partial"))  BY <1>1, EAOfInodeKinds
  <2>3. EAOfInode(i, "partial")[i] \in Inodes /\ EAOfInode(i, "partial")[i].type = ino[i].type
    BY <2>2 DEF SameKinds
  <2>. QED BY <2>1, <2>3
<1>5. CASE act.ea = "clear"
  <2>1. new \in {Drop(ino[i], "none"), ino[i]}  BY <1>2, <1>5
  <2>. QED BY <1>1, <2>1, DropIs
<1>6. CASE act.ea \notin Moves \cup {"preserve_mark_saved", "clear"}
  <2>1. new = ino[i]  BY <1>6
  <2>. QED BY <1>1, <2>1
<1>. QED BY <1>3, <1>4, <1>5, <1>6

\* The clone replaces the entry: what becomes of its EA.
LEMMA ReplacedEA ==
  ASSUME ino \in Seq(Inodes), NEW i \in 1..Len(ino), NEW j \in 1..Len(ino)
  PROVE  LET new == CASE act.ea \in DOMAIN Swapped -> Transfer(Swapped[act.ea], i, j)[i]
                      [] act.ea = "overwrite_mark_saved" -> EAOfInode(i, "partial")[i]
                      [] act.ea = "clear" -> IF ino[j].ea # "none" THEN Drop(ino[i], "none") ELSE ino[i]
                      [] OTHER -> ino[i]
         IN new \in Inodes /\ new.type = ino[i].type
<1>. DEFINE new == CASE act.ea \in DOMAIN Swapped -> Transfer(Swapped[act.ea], i, j)[i]
                     [] act.ea = "overwrite_mark_saved" -> EAOfInode(i, "partial")[i]
                     [] act.ea = "clear" -> IF ino[j].ea # "none" THEN Drop(ino[i], "none") ELSE ino[i]
                     [] OTHER -> ino[i]
<1>1. ino[i] \in Inodes /\ "none" \in EAStates /\ "partial" \in EAStates  BY DEF EAStates
<1>2. /\ "overwrite_mark_saved" \notin DOMAIN Swapped /\ "clear" \notin DOMAIN Swapped
      /\ \A a \in DOMAIN Swapped : Swapped[a] \in Moves
  BY DEF Moves, Swapped
<1>3. CASE act.ea \in DOMAIN Swapped
  <2>1. new = Transfer(Swapped[act.ea], i, j)[i]  BY <1>2, <1>3
  <2>2. SameKinds(ino, Transfer(Swapped[act.ea], i, j))  BY <1>2, <1>3, TransferKinds
  <2>3. /\ Transfer(Swapped[act.ea], i, j)[i] \in Inodes
        /\ Transfer(Swapped[act.ea], i, j)[i].type = ino[i].type
    BY <2>2 DEF SameKinds
  <2>. QED BY <2>1, <2>3
<1>4. CASE act.ea = "overwrite_mark_saved"
  <2>1. new = EAOfInode(i, "partial")[i]  BY <1>2, <1>4
  <2>2. SameKinds(ino, EAOfInode(i, "partial"))  BY <1>1, EAOfInodeKinds
  <2>3. EAOfInode(i, "partial")[i] \in Inodes /\ EAOfInode(i, "partial")[i].type = ino[i].type
    BY <2>2 DEF SameKinds
  <2>. QED BY <2>1, <2>3
<1>5. CASE act.ea = "clear"
  <2>1. new \in {Drop(ino[i], "none"), ino[i]}  BY <1>2, <1>5
  <2>. QED BY <1>1, <2>1, DropIs
<1>6. CASE act.ea \notin DOMAIN Swapped \cup {"overwrite_mark_saved", "clear"}
  <2>1. new = ino[i]  BY <1>6
  <2>. QED BY <1>1, <2>1
<1>. QED BY <1>3, <1>4, <1>5, <1>6

\* What Preserve does when it neither fails nor stops.
LEMMA PreserveIs ==
  ASSUME StepOK, StatsOK, Preserve, pc' # "end", st'.errored = 0
  PROVE  /\ SameKinds(ino, ino') /\ corres' = Clean(dolly) /\ dolly' = NoDolly /\ pc' = "read"
         /\ UNCHANGED <<archs, cat>>
         /\ \/ BothDirs /\ current_add' = it.path /\ UNCHANGED <<reader, current_read>>
            \/ /\ ~ BothDirs /\ Leave /\ UNCHANGED current_add
               /\ current_read' = IF HereIsDir THEN Front(current_read) ELSE current_read
<1>1. /\ Typed /\ Here.i \in 1..Len(ino) /\ dolly.i \in 1..Len(ino)
      /\ Append(current_add, Name) = it.path /\ pc = "apply"
  BY ConflictIs DEF Preserve, InConflict
<1>. DEFINE h == Here
            x == DropData(h.i, "preserve_mark_saved")[h.i]
            lost == act.ea = "clear" /\ IsInode(x) /\ x.ea = "full"
            new == CASE act.ea \in Moves -> Transfer(act.ea, h.i, dolly.i)[h.i]
                     [] act.ea = "preserve_mark_saved" -> EAOfInode(h.i, "partial")[h.i]
                     [] act.ea = "clear" -> IF IsInode(x) /\ x.ea # "none" THEN Drop(ino[h.i], "none") ELSE ino[h.i]
                     [] OTHER -> ino[h.i]
<1>2. new \in Inodes /\ new.type = ino[h.i].type
  BY <1>1, KeptEA DEF Typed
<1>3. x \in Inodes
  <2>1. SameKinds(ino, DropData(h.i, "preserve_mark_saved"))  BY <1>1, DropDataKinds DEF Typed
  <2>. QED BY <1>1, <2>1 DEF SameKinds
<1>4. ~ (act.ea = "clear" /\ ~ IsInode(x))
  BY DEF Preserve, Stop
<1>5. ~ (lost /\ st.ea_treated = 0)
  <2>1. ASSUME lost /\ st.ea_treated = 0 PROVE \E inodes : Abandon(st, inodes)
    BY <1>4, <2>1 DEF Preserve
  <2>2. \A inodes : ~ Abandon(st, inodes)  BY AbandonCounts DEF CountedError
  <2>. QED BY <2>1, <2>2
<1>6. /\ ino' = [ino EXCEPT ![h.i] = [new EXCEPT !.saved = x.saved]]
      /\ IF BothDirs
         THEN /\ current_add' = Append(current_add, Name)
              /\ pc' = "read"
              /\ UNCHANGED <<reader, current_read, verdict>>
         ELSE /\ current_read' = IF HereIsDir THEN Front(current_read) ELSE current_read
              /\ Leave /\ UNCHANGED current_add
              /\ pc' = "read" /\ UNCHANGED verdict
      /\ corres' = Clean(dolly) /\ dolly' = NoDolly
      /\ UNCHANGED cat
  BY <1>4, <1>5 DEF Preserve
<1>7. SameKinds(ino, ino')
  <2>. HIDE DEF new, x
  <2>. QED BY <1>1, <1>2, <1>3, <1>6, MarkedKinds DEF Typed
<1>8. UNCHANGED archs  BY DEF Preserve, source
<1>. QED BY <1>1, <1>6, <1>7, <1>8

\* The entry in place is kept: a directory is entered by both cursors, or by
\* neither when what was read is not a directory.
LEMMA PreserveStep ==
  ASSUME StepOK, StatsOK, Preserve, pc' # "end", st'.errored = 0 PROVE StepOK'
<1>1. pc \in InConflict  BY DEF Preserve, InConflict
<1>2. /\ Typed /\ current_add = Front(it.path)
      /\ current_read = IF HereIsDir THEN it.path ELSE Front(it.path)
  BY <1>1, ConflictIs
<1>3. /\ SameKinds(ino, ino') /\ corres' = Clean(dolly) /\ pc' = "read" /\ UNCHANGED <<archs, cat>>
      /\ \/ BothDirs /\ current_add' = it.path /\ UNCHANGED <<reader, current_read>>
         \/ /\ ~ BothDirs /\ Leave /\ UNCHANGED current_add
            /\ current_read' = IF HereIsDir THEN Front(current_read) ELSE current_read
  BY PreserveIs
<1>4. /\ ino' \in Seq(Inodes) /\ Len(ino') >= Len(ino) /\ \A k \in 1..Len(ino) : ino'[k].type = ino[k].type
      /\ cat' \in Seq(Nodes(Len(ino')))
  BY <1>2, <1>3 DEF SameKinds, Typed
<1>5. PartOf(corres', corres)  BY <1>3, CleanIs
<1>6. \/ /\ BothDirs /\ UNCHANGED reader
         /\ current_add' = it.path /\ current_read' = it.path
      \/ /\ Leave
         /\ current_add' = Front(it.path) /\ current_read' = Front(it.path)
  BY <1>2, <1>3 DEF BothDirs
<1>. QED BY <1>1, <1>3, <1>4, <1>5, <1>6, SolvedInStep

\* What a directory that goes takes out of the map.
LEMMA LeaveMapIs ==
  ASSUME NEW p, NEW m, PartOf(m, corres)
  PROVE  PartOf(LeaveMap(p, m), corres)
BY DEF PartOf, LeaveMap

\* The node that replaces a directory that goes.
Emptied(h, inodes) == [h EXCEPT !.i = Len(inodes) + 1]

\* What the removal of the entry in conflict does.
LEMMA RemovalIs ==
  ASSUME StepOK, pc = "apply", NEW m, PartOf(m, corres), NEW inodes, SameKinds(ino, inodes),
         Removal(m, inodes)
  PROVE  /\ ino' \in Seq(Inodes) /\ Len(ino') >= Len(ino) /\ \A k \in 1..Len(ino) : ino'[k].type = ino[k].type
         /\ cat' \in Seq(Nodes(Len(ino')))
         /\ InCat' = {x \in InCat : ~ (x.path = it.path \/ Below(it.path, x.path))}
                       \cup (IF HereIsDir /\ opts.emptydir THEN {Emptied(Here, inodes)} ELSE {})
         /\ Len(inodes) = Len(ino)
         /\ HereIsDir /\ opts.emptydir => Emptied(Here, inodes) \in Nodes(Len(ino'))
         /\ PartOf(corres', corres)
         /\ current_add' = Front(it.path) /\ current_read' = Front(it.path)
         /\ UNCHANGED archs
<1>1. /\ Typed /\ FilesLinked /\ current_add = Front(it.path) /\ Here.path = it.path
      /\ current_read = IF HereIsDir THEN it.path ELSE Front(it.path)
      /\ Here \in Nodes(Len(ino)) /\ Here.i \in 1..Len(ino)
  BY ConflictIs DEF InConflict
<1>2. /\ UNCHANGED <<archs, current_add>>
      /\ current_read' = IF HereIsDir THEN Front(current_read) ELSE current_read
  BY DEF Removal, source
<1>3. PartOf(corres', corres)
  <2>. DEFINE c == IF Hard(Here) /\ Linked(Here.i) = {Here.n} THEN Without(m, Here.etiq) ELSE m
  <2>1. corres' = IF HereIsDir THEN LeaveMap(Here.path, c) ELSE c  BY DEF Removal
  <2>2. PartOf(c, corres)  BY DEF PartOf, Without
  <2>. QED BY <2>1, <2>2, LeaveMapIs
<1>4. /\ inodes \in Seq(Inodes) /\ Len(inodes) = Len(ino) /\ Len(ino) \in Nat
      /\ \A k \in 1..Len(ino) : inodes[k].type = ino[k].type
  BY <1>1 DEF SameKinds, Typed
<1>5. InCat' = Elements(cat')  BY DEF InCat, Elements
<1>6. CASE HereIsDir /\ opts.emptydir
  <2>. DEFINE x == [inodes[Here.i] EXCEPT !.type = "igndir"]
              n == Emptied(Here, inodes)
  <2>1. /\ ino' = Append(inodes, x)
        /\ cat' = Replaced(n, Here.path, Front(Here.path))
    BY <1>6 DEF Removal, Emptied, Replaced
  <2>2. x \in Inodes
    <3>1. inodes[Here.i] \in Inodes  BY <1>1, <1>4
    <3>. QED BY <3>1 DEF Inodes, Types
  <2>. HIDE DEF x
  <2>3. /\ ino' \in Seq(Inodes) /\ Len(ino') = Len(ino) + 1
        /\ \A k \in 1..Len(ino) : ino'[k] = inodes[k]
    BY <1>4, <2>1, <2>2
  <2>4. \A k \in 1..Len(ino) : ino'[k].type = ino[k].type  BY <1>4, <2>3
  <2>5. Len(ino') >= Len(ino)  BY <1>4, <2>3
  <2>6. cat \in Seq(Nodes(Len(ino'))) /\ Nodes(Len(ino)) \subseteq Nodes(Len(ino'))
    BY <1>1, <2>3, <2>4, <2>5, MoreInodes
  <2>7. n \in Nodes(Len(ino'))
    <3>1. Len(inodes) + 1 \in 1..Len(ino')  BY <1>4, <2>3
    <3>2. Here \in Nodes(Len(ino'))  BY <1>1, <2>6
    <3>. QED BY <3>1, <3>2 DEF Nodes, Emptied
  <2>8. /\ cat' \in Seq(Nodes(Len(ino')))
        /\ Elements(cat') = {y \in InCat : ~ (y.path = Here.path \/ Below(Here.path, y.path))} \cup {n}
    <3>. HIDE DEF n
    <3>. QED BY <2>1, <2>6, <2>7, ReplacedIs
  <2>. QED BY <1>1, <1>2, <1>3, <1>4, <1>5, <1>6, <2>3, <2>4, <2>5, <2>7, <2>8
<1>7. CASE ~ (HereIsDir /\ opts.emptydir)
  <2>1. ino' = inodes /\ cat' = Pruned(Here.path)  BY <1>7 DEF Removal
  <2>2. cat \in Seq(Nodes(Len(ino')))  BY <1>1, <1>4, <2>1 DEF Typed
  <2>3. /\ cat' \in Seq(Nodes(Len(ino')))
        /\ Elements(cat') = {y \in InCat : ~ (y.path = Here.path \/ Below(Here.path, y.path))}
    BY <2>1, <2>2, PrunedIs
  <2>. QED BY <1>1, <1>2, <1>3, <1>4, <1>5, <1>7, <2>1, <2>3
<1>. QED BY <1>6, <1>7

\* The entry in place is removed: both cursors are where it was.
LEMMA RemoveStep ==
  ASSUME StepOK, StatsOK, Remove, pc' # "end", st'.errored = 0 PROVE StepOK'
<1>1. pc = "apply" /\ pc \in InConflict  BY DEF Remove, InConflict
<1>2. Removal(Clean(dolly), ino) /\ Leave /\ pc' = "read"
  <2>1. Left.fails => CountedError  BY ErrorIs, LeftIs DEF Remove, CountedError, StatsOK
  <2>. QED BY <2>1 DEF Remove, CountedError
<1>3. SameKinds(ino, ino)  BY DEF StepOK, Typed, SameKinds
<1>4. PartOf(Clean(dolly), corres)  BY CleanIs
<1>. QED BY <1>1, <1>2, <1>3, <1>4, RemovalIs, SolvedInStep

\* The inodes once the clone has what it takes of the entry it replaces, and what
\* Overwrite does when it neither fails nor stops.
LEMMA OverwriteIs ==
  ASSUME StepOK, StatsOK, Overwrite, pc' # "end", st'.errored = 0
  PROVE  \E inodes :
           /\ SameKinds(ino, inodes)
           /\ IF BothDirs
              THEN /\ ino' = [inodes EXCEPT ![Here.i] = inodes[dolly.i]]
                   /\ current_add' = it.path
                   /\ dolly' = NoDolly /\ pc' = "read"
                   /\ UNCHANGED <<archs, cat, corres, reader, current_read>>
              ELSE /\ Removal(corres, inodes) /\ pc' = "add"
                   /\ UNCHANGED <<reader, dolly>>
<1>1. /\ Typed /\ Here.i \in 1..Len(ino) /\ dolly.i \in 1..Len(ino)
      /\ Append(current_add, Name) = it.path /\ pc = "apply"
  BY ConflictIs DEF Overwrite, InConflict
<1>. DEFINE h == Here
            x == DropData(dolly.i, "overwrite_mark_saved")[dolly.i]
            new == CASE act.ea \in DOMAIN Swapped -> Transfer(Swapped[act.ea], dolly.i, h.i)[dolly.i]
                     [] act.ea = "overwrite_mark_saved" -> EAOfInode(dolly.i, "partial")[dolly.i]
                     [] act.ea = "clear" -> IF ino[h.i].ea # "none" THEN Drop(ino[dolly.i], "none") ELSE ino[dolly.i]
                     [] OTHER -> ino[dolly.i]
            inodes == [ino EXCEPT ![dolly.i] = [new EXCEPT !.saved = x.saved]]
<1>2. new \in Inodes /\ new.type = ino[dolly.i].type
  BY <1>1, ReplacedEA DEF Typed
<1>3. x \in Inodes
  <2>1. SameKinds(ino, DropData(dolly.i, "overwrite_mark_saved"))  BY <1>1, DropDataKinds DEF Typed
  <2>. QED BY <1>1, <2>1 DEF SameKinds
<1>4. SameKinds(ino, inodes)
  <2>. HIDE DEF new, x
  <2>. QED BY <1>1, <1>2, <1>3, MarkedKinds DEF Typed
<1>5. ~ (act.ea = "clear" /\ (~ IsInodeAt(h) \/ (ino[h.i].ea # "none" /\ ~ IsInodeAt(dolly))))
  BY DEF Overwrite, Stop
<1>6. IF BothDirs
      THEN /\ ino' = [inodes EXCEPT ![h.i] = inodes[dolly.i]]
           /\ current_add' = Append(current_add, Name)
           /\ dolly' = NoDolly /\ pc' = "read"
           /\ UNCHANGED <<source, cat, corres, reader, current_read, st, here, act, copies, abort, verdict>>
      ELSE IF Left.fails THEN Abandon(Left.stats, inodes) /\ UNCHANGED verdict
      ELSE /\ Removal(corres, inodes)
           /\ pc' = "add"
           /\ UNCHANGED <<reader, dolly>>
  BY <1>5 DEF Overwrite
<1>7. ~ Abandon(Left.stats, inodes)  BY AbandonCounts DEF CountedError
<1>. HIDE DEF inodes
<1>8. IF BothDirs
      THEN /\ ino' = [inodes EXCEPT ![Here.i] = inodes[dolly.i]]
           /\ current_add' = it.path
           /\ dolly' = NoDolly /\ pc' = "read"
           /\ UNCHANGED <<archs, cat, corres, reader, current_read>>
      ELSE /\ Removal(corres, inodes) /\ pc' = "add"
           /\ UNCHANGED <<reader, dolly>>
  BY <1>1, <1>6, <1>7 DEF source
<1>. QED BY <1>4, <1>8

\* The clone takes the place of the entry: the cursors enter both directories, or
\* the one that was read.
LEMMA OverwriteStep ==
  ASSUME StepOK, StatsOK, Overwrite, pc' # "end", st'.errored = 0 PROVE StepOK'
<1>1. pc = "apply" /\ pc \in InConflict  BY DEF Overwrite, InConflict
<1>2. PICK inodes :
           /\ SameKinds(ino, inodes)
           /\ IF BothDirs
              THEN /\ ino' = [inodes EXCEPT ![Here.i] = inodes[dolly.i]]
                   /\ current_add' = it.path
                   /\ dolly' = NoDolly /\ pc' = "read"
                   /\ UNCHANGED <<archs, cat, corres, reader, current_read>>
              ELSE /\ Removal(corres, inodes) /\ pc' = "add"
                   /\ UNCHANGED <<reader, dolly>>
  BY OverwriteIs
<1>3. /\ Typed /\ FilesLinked /\ Reader /\ it.type # "eod" /\ it.path \in Seq(Names) \ {<<>>}
      /\ pos = ent /\ ent \in 1..pos /\ pos \in 0..Len(archs[index])
      /\ juillet.path \in Seq(Names) /\ Ahead = Where(archs[index], pos)
      /\ Where(archs[index], pos) = IF EntryIsDir THEN it.path ELSE Front(it.path)
      /\ current_read = IF HereIsDir THEN it.path ELSE Front(it.path)
      /\ dolly \in Nodes(Len(ino)) /\ dolly.path = it.path /\ dolly.i \in 1..Len(ino)
      /\ IsDirAt(dolly) <=> EntryIsDir
      /\ Here.i \in 1..Len(ino)
  BY <1>1, ConflictIs
<1>4. CASE BothDirs
  <2>1. inodes[dolly.i] \in Inodes /\ inodes[dolly.i].type = inodes[Here.i].type
    <3>1. ino[dolly.i].type = "dir" /\ ino[Here.i].type = "dir"
      BY <1>3, <1>4 DEF BothDirs, HereIsDir, IsDirAt
    <3>. QED BY <1>2, <1>3, <3>1 DEF SameKinds
  <2>2. SameKinds(inodes, ino')
    <3>1. inodes \in Seq(Inodes) /\ Here.i \in 1..Len(inodes)  BY <1>2, <1>3 DEF SameKinds
    <3>2. ino' = [inodes EXCEPT ![Here.i] = inodes[dolly.i]]  BY <1>2, <1>4
    <3>. QED BY <2>1, <3>1, <3>2, UpdatedKinds
  <2>3. SameKinds(ino, ino')  BY <1>2, <2>2, SameKindsAgain
  <2>4. /\ ino' \in Seq(Inodes) /\ Len(ino') >= Len(ino) /\ \A k \in 1..Len(ino) : ino'[k].type = ino[k].type
        /\ cat' \in Seq(Nodes(Len(ino')))
    BY <1>2, <1>3, <1>4, <2>3 DEF SameKinds, Typed
  <2>5. PartOf(corres', corres)  BY <1>2, <1>4 DEF PartOf
  <2>6. BothDirs /\ UNCHANGED reader /\ current_add' = it.path /\ current_read' = it.path
    BY <1>2, <1>3, <1>4 DEF BothDirs
  <2>. QED BY <1>1, <1>2, <1>4, <2>4, <2>5, <2>6, SolvedInStep
<1>5. CASE ~ BothDirs
  <2>1. Removal(corres, inodes) /\ pc' = "add" /\ UNCHANGED <<index, pos, ent, offset, juillet, dolly>>
    BY <1>2, <1>5 DEF reader
  <2>2. PartOf(corres, corres)  BY DEF PartOf
  <2>3. /\ ino' \in Seq(Inodes) /\ Len(ino') >= Len(ino) /\ \A k \in 1..Len(ino) : ino'[k].type = ino[k].type
        /\ cat' \in Seq(Nodes(Len(ino'))) /\ PartOf(corres', corres)
        /\ current_add' = Front(it.path) /\ current_read' = Front(it.path)
        /\ UNCHANGED archs
    BY <1>1, <1>2, <2>1, <2>2, RemovalIs
  <2>4. FilesLinked'  BY <1>3, <2>3, LinkedStill DEF FilesLinked
  <2>5. Typed'  BY <1>3, <2>1, <2>3 DEF Typed
  <2>6. it' = it /\ EntryIsDir' = EntryIsDir /\ Ahead' = Ahead
    BY <2>1, <2>3 DEF it, EntryIsDir, Ahead
  <2>7. IsDirAt(dolly)' <=> EntryIsDir  BY <1>3, <2>1, <2>3 DEF IsDirAt
  <2>8. Reader'
    BY <1>3, <2>1, <2>3, <2>6 DEF Reader, AtEntry, InConflict, Selecting
  <2>9. CloneOK'
    <3>1. dolly' \in Nodes(Len(ino'))  BY <1>3, <2>1, <2>3, MoreInodes
    <3>. QED BY <1>3, <2>1, <2>3, <2>6, <2>7, <3>1 DEF CloneOK, InConflict
  <2>10. Cursors'  BY <2>1, <2>3, <2>6 DEF Cursors, InConflict
  <2>. QED BY <2>4, <2>5, <2>8, <2>9, <2>10 DEF StepOK
<1>. QED BY <1>4, <1>5

\* The entry read, and its clone, when nothing of that name was there.
LEMMA NewIs ==
  ASSUME StepOK, pc \in {"new", "add"}
  PROVE  /\ Typed /\ FilesLinked /\ Reader /\ it.type # "eod"
         /\ it.path \in Seq(Names) \ {<<>>} /\ IsEntry(it) /\ it \in Listed
         /\ pos \in 0..Len(archs[index]) /\ Ahead = Where(archs[index], pos)
         /\ juillet.path \in Seq(Names)
         /\ current_add = Front(it.path) /\ current_read = Front(it.path)
         /\ dolly \in Nodes(Len(ino)) /\ dolly.path = it.path /\ dolly.i \in 1..Len(ino)
         /\ Where(archs[index], pos) = IF IsDirAt(dolly) THEN it.path ELSE Front(it.path)
         /\ pc = "new" => (IsDirAt(dolly) <=> EntryIsDir)
<1>1. /\ Typed /\ FilesLinked /\ Reader /\ it.type # "eod"
      /\ pos \in 0..Len(archs[index]) /\ Ahead = Where(archs[index], pos)
      /\ juillet.path \in Seq(Names) /\ ent \in 1..pos
      /\ current_add = Front(it.path) /\ current_read = Front(it.path)
      /\ dolly \in Nodes(Len(ino)) /\ dolly.path = it.path
  BY DEF StepOK, Reader, CloneOK, Cursors, AtEntry, InConflict, Selecting
<1>2. /\ it.path \in Seq(Names) \ {<<>>} /\ IsEntry(it) /\ it \in Listed
      /\ it = archs[index][ent] /\ ent \in 1..Len(archs[index])
  BY <1>1, EntryFacts
<1>3. Where(archs[index], ent) = IF EntryIsDir THEN it.path ELSE Front(it.path)
  BY <1>1, <1>2, OrderFacts DEF EntryIsDir
<1>4. CASE pc = "new"
  <2>1. pos = ent /\ (IsDirAt(dolly) <=> EntryIsDir)
    BY <1>4 DEF StepOK, Reader, CloneOK, AtEntry, InConflict
  <2>. QED BY <1>1, <1>2, <1>3, <2>1 DEF Nodes
<1>5. CASE pc = "add"
  <2>1. IF IsDirAt(dolly) THEN EntryIsDir /\ pos = ent ELSE Where(archs[index], pos) = Front(it.path)
    BY <1>5 DEF StepOK, CloneOK
  <2>. QED BY <1>1, <1>2, <1>3, <1>5, <2>1 DEF Nodes
<1>. QED BY <1>4, <1>5

\* The entry read is not wanted, and nothing was in its place.
LEMMA EraseStep ==
  ASSUME StepOK, Erase PROVE StepOK'
<1>. DEFINE x == [InodeOf(it) EXCEPT !.type = "detruit", !.saved = "none", !.ea = "none",
                                     !.eas = {}, !.id = "detruit"]
<1>1. /\ pc = "new" /\ pc' = "add" /\ Leave /\ corres' = Clean(dolly) /\ ino' = Append(ino, x)
      /\ dolly' = [dolly EXCEPT !.i = Len(ino) + 1, !.etiq = 0]
      /\ UNCHANGED <<archs, cat, current_add, current_read>>
  BY DEF Erase, source, cursors
<1>2. /\ Typed /\ FilesLinked /\ Reader /\ it.type # "eod"
      /\ it.path \in Seq(Names) \ {<<>>} /\ IsEntry(it) /\ it \in Listed
      /\ current_add = Front(it.path) /\ current_read = Front(it.path)
      /\ dolly \in Nodes(Len(ino)) /\ dolly.path = it.path
  BY <1>1, NewIs
<1>3. /\ pos' \in ent..Len(archs[index]) /\ ent \in 1..Len(archs[index])
      /\ Where(archs[index], pos') = Front(it.path)
      /\ Ahead' = Front(it.path) /\ juillet'.path \in Seq(Names)
      /\ index' = index /\ ent' = ent /\ offset' = offset
  BY <1>1, <1>2, LeaveIs DEF AtEntry
<1>4. x \in Inodes
  <2>1. InodeOf(it) \in Inodes
    <3>1. index \in Nat  BY <1>2, ArchiveFacts
    <3>. QED BY <1>2, <3>1, InodeOfIs
  <2>. QED BY <2>1 DEF Inodes, Types, SavedStates, EAStates, Ids
<1>5. Len(ino) \in Nat /\ ino \in Seq(Inodes)  BY <1>2 DEF Typed
<1>6. /\ ino' \in Seq(Inodes) /\ Len(ino') = Len(ino) + 1
      /\ \A k \in 1..Len(ino) : ino'[k] = ino[k]
      /\ ino'[Len(ino) + 1] = x
  <2>. HIDE DEF x
  <2>. QED BY <1>1, <1>4, <1>5
<1>7. Len(ino') >= Len(ino) /\ \A k \in 1..Len(ino) : ino'[k].type = ino[k].type  BY <1>5, <1>6
<1>8. cat \in Seq(Nodes(Len(ino'))) /\ dolly \in Nodes(Len(ino'))
  BY <1>2, <1>6, <1>7, MoreInodes
<1>9. dolly' \in Nodes(Len(ino')) /\ dolly'.path = it.path /\ dolly'.i = Len(ino) + 1
  <2>1. Len(ino) + 1 \in 1..Len(ino')  BY <1>5, <1>6
  <2>. QED BY <1>1, <1>2, <1>8, <2>1 DEF Nodes
<1>10. ~ IsDirAt(dolly)'
  <2>1. x.type = "detruit"  BY <1>4 DEF InodeOf
  <2>. QED BY <1>6, <1>9, <2>1 DEF IsDirAt
<1>11. FilesLinked'
  <2>1. PartOf(corres', corres)  BY <1>1, CleanIs
  <2>. QED BY <1>2, <1>6, <1>7, <2>1, LinkedStill DEF FilesLinked
<1>12. Typed'  BY <1>1, <1>2, <1>3, <1>6, <1>8 DEF Typed
<1>13. it' = it  BY <1>1, <1>3 DEF it
<1>14. Reader'
  <2>1. pos' \in 0..Len(archs[index]) /\ ent' \in 1..pos'  BY <1>3
  <2>. QED BY <1>1, <1>2, <1>3, <1>13, <2>1 DEF Reader, AtEntry, InConflict, Selecting
<1>15. CloneOK'  BY <1>1, <1>2, <1>3, <1>9, <1>10, <1>13 DEF CloneOK, InConflict
<1>16. Cursors'  BY <1>1, <1>2, <1>13 DEF Cursors, InConflict
<1>. QED BY <1>11, <1>12, <1>14, <1>15, <1>16 DEF StepOK

\* The clone is added: both cursors enter it when it is a directory.
LEMMA AddStep ==
  ASSUME StepOK, Add, pc' # "end" PROVE StepOK'
<1>1. pc \in {"new", "add"}  BY DEF Add
<1>2. /\ Typed /\ FilesLinked /\ pos \in 0..Len(archs[index]) /\ Ahead = Where(archs[index], pos)
      /\ juillet.path \in Seq(Names)
      /\ current_add = Front(it.path) /\ current_read = Front(it.path)
      /\ dolly \in Nodes(Len(ino)) /\ dolly.path = it.path
      /\ Where(archs[index], pos) = IF IsDirAt(dolly) THEN it.path ELSE Front(it.path)
  BY <1>1, NewIs
<1>3. /\ cat' = AddChild(dolly) /\ pc' = "read"
      /\ current_add' = IF IsDirAt(dolly) THEN dolly.path ELSE current_add
      /\ current_read' = IF IsDirAt(dolly) THEN dolly.path ELSE current_read
      /\ UNCHANGED <<archs, ino, corres, index, pos, offset, juillet>>
  BY DEF Add, Stop, source, reader
<1>4. cat' \in Seq(Nodes(Len(ino')))
  <2>1. cat \in Seq(Nodes(Len(ino)))  BY <1>2 DEF Typed
  <2>. QED BY <1>2, <1>3, <2>1, AddChildIs
<1>5. Typed' /\ FilesLinked'  BY <1>2, <1>3, <1>4 DEF Typed, FilesLinked
<1>6. Ahead' = Ahead  BY <1>3 DEF Ahead
<1>. QED BY <1>2, <1>3, <1>5, <1>6, BackInStep

\* What is left of an entry that could not be merged: an error.
LEMMA FailureCounts ==
  ASSUME StepOK, StatsOK, Refuse \/ Unreadable \/ LoseDirectory
  PROVE  st'.errored # 0
<1>1. CASE Refuse  BY <1>1, AbandonCounts DEF Refuse, CountedError
<1>2. CASE Unreadable
  BY <1>2, AbandonCounts DEF Unreadable, CountedError
<1>3. CASE LoseDirectory
  BY <1>3, ErrorIs DEF LoseDirectory, StatsOK
<1>. QED BY <1>1, <1>2, <1>3

-----------------------------------------------------------------------------
(* The cursors are in step: the invariant, and the property. *)

\* A merging starts at the root of the first archive, with both cursors there.
THEOREM StepInit == Init => StepInv
<1>1. ASSUME Init PROVE StepInv
  <2>1. StatsOK  BY <1>1 DEF Init, StatsOK, NoStats, Counters
  <2>2. ino = <<>> /\ cat = <<>> /\ archs \in ArchiveSets /\ index = 1  BY <1>1 DEF Init
  <2>3. Len(archs) \in {1, 2} /\ \A j \in 1..Len(archs) : Len(archs[j]) \in Nat
    <3>1. archs \in Seq({archs[j] : j \in DOMAIN archs}) /\ Len(archs) \in {1, 2}
          /\ \A j \in DOMAIN archs : archs[j] \in Seq({archs[j][k] : k \in DOMAIN archs[j]})
      BY <2>2, ArchivesAreTrees
    <3>. QED BY <3>1
  <2>4. Typed  BY <1>1, <2>2, <2>3 DEF Init, Typed
  <2>5. FilesLinked  BY <1>1, FS_EmptySet DEF Init, FilesLinked
  <2>6. Ahead = <<>> /\ Where(archs[index], pos) = <<>> /\ <<>> \in Seq(Names)
    BY <1>1 DEF Init, Ahead, Where
  <2>7. Reader
    BY <1>1, <2>2, <2>3, <2>6 DEF Init, Reader, AtEntry, InConflict, Selecting
  <2>8. CloneOK /\ Cursors  BY <1>1, <2>6 DEF Init, CloneOK, Cursors, InConflict
  <2>. QED BY <2>1, <2>4, <2>5, <2>7, <2>8 DEF StepInv
<1>. QED BY <1>1

\* Every step keeps the reader and both cursors in step.
THEOREM StepNext == StepInv /\ [Next]_vars => StepInv'
<1>. SUFFICES ASSUME StepInv, [Next]_vars PROVE StepInv'
  OBVIOUS
<1>1. StatsOK /\ StatsOK' /\ (st'.errored = 0 => st.errored = 0)
  BY ErrorsStay DEF StepInv, Counted
<1>2. CASE UNCHANGED vars
  <2>1. UNCHANGED <<archs, index, pos, ent, offset, juillet, cat, ino, corres, current_add, current_read,
                    st, dolly, here, pc>>
    BY <1>2 DEF vars, source, result, reader, cursors, clone
  <2>2. it' = it /\ EntryIsDir' = EntryIsDir /\ Ahead' = Ahead /\ IsDirAt(dolly)' = IsDirAt(dolly)
        /\ HereIsDir' = HereIsDir /\ At(here)' = At(here)
    BY <2>1 DEF it, EntryIsDir, Ahead, IsDirAt, HereIsDir, Here, NodeAt, At
  <2>3. Sane' => Sane  BY <2>1 DEF Sane
  <2>4. StepOK => StepOK'
    BY <2>1, <2>2 DEF StepOK, Typed, FilesLinked, Reader, CloneOK, Cursors
  <2>. QED BY <1>1, <2>3, <2>4 DEF StepInv, StepOK
<1>3. CASE Next
  <2>. SUFFICES ASSUME Sane' PROVE StepOK'
    BY <1>1 DEF StepInv, StepOK
  <2>1. pc # "end"
    BY <1>3 DEF Next, ReadNext, NextArchive, Selected, CancelSelection, LeaveDirectory, Exclude,
         CloneEntry, Judge, ChooseData, ChooseEA, Refuse, Unreadable, LoseDirectory, Preserve,
         Remove, Overwrite, Erase, Add, CopyNext, CopyFails, CancelCopy, Merged
  <2>2. st'.errored = 0 /\ pc' # "end"  BY DEF Sane
  <2>3. StepOK  BY <1>1, <2>1, <2>2 DEF StepInv, StepOK, Sane
  <2>4. CASE ReadNext  BY <2>3, <2>4, ReadNextStep
  <2>5. CASE NextArchive  BY <2>3, <2>5, NextArchiveStep
  <2>6. CASE Selected \/ CancelSelection \/ CopyNext  BY <2>2, <2>3, <2>6, CopyStep
  <2>7. CASE LeaveDirectory  BY <2>2, <2>3, <2>7, LeaveDirectoryStep
  <2>8. CASE Exclude  BY <2>3, <2>8, ExcludeStep
  <2>9. CASE CloneEntry  BY <2>2, <2>3, <2>9, CloneEntryStep
  <2>10. CASE Judge \/ ChooseData \/ ChooseEA  BY <2>3, <2>10, JudgeStep
  <2>11. CASE Refuse \/ Unreadable \/ LoseDirectory  BY <1>1, <2>2, <2>3, <2>11, FailureCounts
  <2>12. CASE Preserve  BY <1>1, <2>2, <2>3, <2>12, PreserveStep
  <2>13. CASE Remove  BY <1>1, <2>2, <2>3, <2>13, RemoveStep
  <2>14. CASE Overwrite  BY <1>1, <2>2, <2>3, <2>14, OverwriteStep
  <2>15. CASE Erase  BY <2>3, <2>15, EraseStep
  <2>16. CASE Add  BY <2>2, <2>3, <2>16, AddStep
  <2>17. CASE CopyFails \/ CancelCopy \/ Merged
    BY <2>2, <2>17 DEF CopyFails, CancelCopy, Merged, Stop
  <2>. QED BY <1>3, <2>4, <2>5, <2>6, <2>7, <2>8, <2>9, <2>10, <2>11, <2>12, <2>13, <2>14, <2>15,
              <2>16, <2>17 DEF Next
<1>. QED BY <1>2, <1>3

\* The reader and both cursors are in step in every state, until an error.
THEOREM StepTheorem == MergeSpec => []StepInv
<1>. QED BY StepInit, StepNext, PTL DEF MergeSpec

\* The next entry is read where the cursors of the catalogue under construction
\* are, whatever conflicts were solved, by whatever policy, in between.
THEOREM CursorsTheorem == MergeSpec => []CursorsInStep
<1>1. StepInv => CursorsInStep
  BY DEF StepInv, Sane, Cursors, CursorsInStep, Ahead
<1>. QED BY <1>1, StepTheorem, PTL

-----------------------------------------------------------------------------
(* Paths: what is in what. *)

\* A directory a path is in.
LEMMA PrefixIs ==
  ASSUME NEW p \in Seq(Names), NEW k \in 1..Len(p)
  PROVE  /\ SubSeq(p, 1, k) \in Seq(Names) /\ Len(SubSeq(p, 1, k)) = k
         /\ \A j \in 1..k : SubSeq(SubSeq(p, 1, k), 1, j) = SubSeq(p, 1, j)
         /\ SubSeq(p, 1, Len(p)) = p
<1>1. Len(p) \in Nat  BY LenProperties
<1>2. \A j \in 1..Len(p) : /\ SubSeq(p, 1, j) \in Seq(Names) /\ Len(SubSeq(p, 1, j)) = j
                           /\ \A i \in 1..j : SubSeq(p, 1, j)[i] = p[i]
  BY <1>1
<1>. DEFINE r == SubSeq(p, 1, k)
<1>3. /\ r \in Seq(Names) /\ Len(r) = k
      /\ \A i \in 1..k : r[i] = p[i]
  BY <1>2
<1>. HIDE DEF r
<1>4. ASSUME NEW j \in 1..k PROVE SubSeq(r, 1, j) = SubSeq(p, 1, j)
  <2>1. /\ SubSeq(r, 1, j) \in Seq(Names) /\ Len(SubSeq(r, 1, j)) = j
        /\ \A i \in 1..j : SubSeq(r, 1, j)[i] = r[i]
    BY <1>1, <1>3
  <2>2. /\ SubSeq(p, 1, j) \in Seq(Names) /\ Len(SubSeq(p, 1, j)) = j
        /\ \A i \in 1..j : SubSeq(p, 1, j)[i] = p[i]
    BY <1>1, <1>2
  <2>. HIDE DEF r
  <2>3. \A i \in 1..j : SubSeq(r, 1, j)[i] = SubSeq(p, 1, j)[i]  BY <1>1, <1>3, <2>1, <2>2
  <2>. QED BY <2>1, <2>2, <2>3, SeqEqual
<1>5. SubSeq(p, 1, Len(p)) = p
  <2>1. CASE Len(p) = 0  BY <1>1, <2>1
  <2>2. CASE Len(p) # 0
    <3>1. /\ SubSeq(p, 1, Len(p)) \in Seq(Names) /\ Len(SubSeq(p, 1, Len(p))) = Len(p)
          /\ \A i \in 1..Len(p) : SubSeq(p, 1, Len(p))[i] = p[i]
      BY <1>1, <1>2, <2>2
    <3>. QED BY <3>1, SeqEqual
  <2>. QED BY <2>1, <2>2
<1>. QED BY <1>3, <1>4, <1>5 DEF r

\* What is above a path is not below it.
LEMMA AboveIs ==
  ASSUME NEW p \in Seq(Names) \ {<<>>}
  PROVE  /\ UpTo(Front(p)) = Above(p) /\ UpTo(p) = Above(p) \cup {p}
         /\ \A q \in Above(p) : q \in Seq(Names) /\ q # p /\ ~ Below(p, q)
<1>1. /\ Front(p) \in Seq(Names) /\ Len(Front(p)) = Len(p) - 1 /\ Len(p) \in Nat \ {0}
      /\ \A n \in 0..(Len(p) - 1) : SubSeq(Front(p), 1, n) = SubSeq(p, 1, n)
  BY FrontLast
<1>2. UpTo(Front(p)) = Above(p)  BY <1>1 DEF UpTo, Above
<1>3. SubSeq(p, 1, Len(p)) = p
  <2>1. 1 \in 1..Len(p)  BY <1>1
  <2>. QED BY <2>1, PrefixIs
<1>4. UpTo(p) = Above(p) \cup {p}
  <2>1. 1..Len(p) = (1..(Len(p) - 1)) \cup {Len(p)}  BY <1>1
  <2>. QED BY <1>3, <2>1 DEF UpTo, Above
<1>5. ASSUME NEW q \in Above(p) PROVE q \in Seq(Names) /\ q # p /\ ~ Below(p, q)
  <2>1. PICK k \in 1..(Len(p) - 1) : q = SubSeq(p, 1, k)  BY DEF Above
  <2>2. q \in Seq(Names) /\ Len(q) = k  BY <1>1, <2>1, PrefixIs
  <2>. QED BY <1>1, <2>2 DEF Below
<1>. QED BY <1>2, <1>4, <1>5

\* A path below another is in it.
LEMMA BelowIs ==
  ASSUME NEW p \in Seq(Names) \ {<<>>}, NEW q \in Seq(Names), Below(p, q)
  PROVE  p \in Above(q)
<1>1. Len(p) \in Nat \ {0}  BY FrontLast
<1>2. Len(q) \in Nat  BY LenProperties
<1>3. Len(p) \in 1..(Len(q) - 1) /\ SubSeq(q, 1, Len(p)) = p  BY <1>1, <1>2 DEF Below
<1>. QED BY <1>3 DEF Above

\* Nor is what it is in below, or the same, when it is not.
LEMMA OutsideIs ==
  ASSUME NEW p \in Seq(Names) \ {<<>>}, NEW q \in Seq(Names), ~ (q = p \/ Below(p, q)), NEW r \in Above(q)
  PROVE  ~ (r = p \/ Below(p, r))
<1>1. Len(p) \in Nat \ {0}  BY FrontLast
<1>2. Len(q) \in Nat  BY LenProperties
<1>3. PICK k \in 1..(Len(q) - 1) : r = SubSeq(q, 1, k)  BY DEF Above
<1>4. /\ Len(r) = k /\ k \in 1..Len(q) /\ k < Len(q)
      /\ \A j \in 1..k : SubSeq(r, 1, j) = SubSeq(q, 1, j)
  BY <1>2, <1>3, PrefixIs
<1>5. ASSUME r = p PROVE FALSE
  <2>1. Len(p) = k /\ SubSeq(q, 1, Len(p)) = p  BY <1>3, <1>4, <1>5
  <2>. QED BY <1>1, <1>2, <1>4, <2>1 DEF Below
<1>6. ASSUME Below(p, r) PROVE FALSE
  <2>1. k > Len(p) /\ SubSeq(r, 1, Len(p)) = p  BY <1>4, <1>6 DEF Below
  <2>2. SubSeq(q, 1, Len(p)) = p  BY <1>1, <1>4, <2>1
  <2>3. Len(q) > Len(p)  BY <1>1, <1>2, <1>4, <2>1
  <2>. QED BY <2>2, <2>3 DEF Below
<1>. QED BY <1>5, <1>6

-----------------------------------------------------------------------------
(* The tree under construction. *)

\* What a node of the catalogue is made of.
LEMMA NodeIs ==
  ASSUME Typed, NEW x \in InCat
  PROVE  /\ x \in Nodes(Len(ino)) /\ x.path \in Seq(Names) \ {<<>>} /\ x.i \in 1..Len(ino)
         /\ x.n \in Nat /\ x.etiq \in Nat
<1>1. PICK k \in DOMAIN cat : x = cat[k]  BY DEF InCat
<1>2. x \in Nodes(Len(ino))  BY <1>1 DEF Typed
<1>. QED BY <1>2 DEF Nodes

\* Directories are left by a removal but those that go, and what is in these.
LEMMA EnteredStay ==
  ASSUME Typed, UNCHANGED opts, \A k \in 1..Len(ino) : ino'[k].type = ino[k].type,
         NEW p, \A x \in InCat : ~ Gone(p, x) => x \in InCat'
  PROVE  \A q \in Entered : ~ (q = p \/ Below(p, q)) => q \in Entered'
<1>. SUFFICES ASSUME NEW q \in Entered, ~ (q = p \/ Below(p, q)) PROVE q \in Entered'
  OBVIOUS
<1>1. PICK x \in InCat : x.path = q /\ IsDirAt(x) /\ q \in opts.mask  BY DEF Entered
<1>2. x \in InCat'  BY <1>1 DEF Gone
<1>3. x.i \in 1..Len(ino)  BY NodeIs
<1>4. ino'[x.i].type = "dir"  BY <1>1, <1>3 DEF IsDirAt
<1>. QED BY <1>1, <1>2, <1>4 DEF Entered, IsDirAt

\* What stays, and what is above, still is in directories that were retained.
LEMMA TreeStays ==
  ASSUME Typed, UNCHANGED opts, \A k \in 1..Len(ino) : ino'[k].type = ino[k].type,
         NEW p \in Seq(Names) \ {<<>>}, \A x \in InCat : ~ Gone(p, x) => x \in InCat'
  PROVE  /\ \A x \in InCat : Above(x.path) \subseteq Entered /\ ~ Gone(p, x) => Above(x.path) \subseteq Entered'
         /\ Above(p) \subseteq Entered => Above(p) \subseteq Entered'
<1>1. \A q \in Entered : ~ (q = p \/ Below(p, q)) => q \in Entered'  BY EnteredStay
<1>2. ASSUME NEW x \in InCat, Above(x.path) \subseteq Entered, ~ Gone(p, x)
      PROVE  Above(x.path) \subseteq Entered'
  <2>1. x.path \in Seq(Names)  BY NodeIs
  <2>2. \A r \in Above(x.path) : ~ (r = p \/ Below(p, r))  BY <1>2, <2>1, OutsideIs DEF Gone
  <2>. QED BY <1>1, <1>2, <2>2
<1>3. \A r \in Above(p) : ~ (r = p \/ Below(p, r))  BY AboveIs
<1>. QED BY <1>1, <1>2, <1>3

\* The same catalogue.
LEMMA SameTree ==
  ASSUME Typed, UNCHANGED <<opts, cat>>, \A k \in 1..Len(ino) : ino'[k].type = ino[k].type
  PROVE  InCat' = InCat /\ Entered' = Entered
<1>1. InCat' = InCat  BY DEF InCat
<1>2. \A x \in InCat : IsDirAt(x)' = IsDirAt(x)
  <2>1. \A x \in InCat : x.i \in 1..Len(ino)  BY NodeIs
  <2>. QED BY <2>1 DEF IsDirAt
<1>. QED BY <1>1, <1>2 DEF Entered

\* Below what is not a directory there is nothing.
LEMMA NothingBelow ==
  ASSUME Typed, NEW p \in Seq(Names) \ {<<>>}, p \notin Entered,
         \A x \in InCat : Above(x.path) \subseteq Entered
  PROVE  \A x \in InCat : ~ Below(p, x.path)
<1>. SUFFICES ASSUME NEW x \in InCat, Below(p, x.path) PROVE FALSE
  OBVIOUS
<1>1. p \in Above(x.path)
  <2>1. x.path \in Seq(Names)  BY NodeIs
  <2>. QED BY <2>1, BelowIs
<1>. QED BY <1>1

-----------------------------------------------------------------------------
(* The map and the links. *)

\* The numbers of the links to an inode.
LEMMA LinksAre ==
  ASSUME Typed, NEW i
  PROVE  /\ IsFiniteSet(Links(i))
         /\ \A x \in InCat : x.i = i => x.n \in Links(i)
         /\ dolly.i = i => dolly.n \in Links(i)
         /\ \A n \in Links(i) : (\E x \in InCat : x.i = i /\ x.n = n) \/ (dolly.i = i /\ dolly.n = n)
<1>. DEFINE K == {j \in DOMAIN cat : cat[j].i = i}
            A == {cat[k].n : k \in K}
<1>1. IsFiniteSet(K)
  <2>1. DOMAIN cat = 1..Len(cat) /\ Len(cat) \in Nat  BY DEF Typed
  <2>2. IsFiniteSet(DOMAIN cat)  BY <2>1, FS_Interval
  <2>. QED BY <2>2, FS_Subset
<1>2. IsFiniteSet(A)
  <2>. HIDE DEF K
  <2>. DEFINE f == [k \in K |-> cat[k].n]
  <2>1. f \in Surjection(K, A)  BY DEF Surjection
  <2>. HIDE DEF f, A
  <2>. QED BY <1>1, <2>1, FS_Surjection
<1>3. Links(i) = A \cup (IF dolly.i = i THEN {dolly.n} ELSE {})  BY DEF Links
<1>4. IsFiniteSet(Links(i))
  <2>. HIDE DEF A
  <2>1. CASE dolly.i = i  BY <1>2, <1>3, <2>1, FS_AddElement
  <2>2. CASE dolly.i # i  BY <1>2, <1>3, <2>2
  <2>. QED BY <2>1, <2>2
<1>5. \A n \in A : \E x \in InCat : x.i = i /\ x.n = n  BY DEF InCat
<1>6. \A x \in InCat : x.i = i => x.n \in A  BY DEF InCat
<1>. HIDE DEF A
<1>. QED BY <1>3, <1>4, <1>5, <1>6

\* What the map and the nodes say of each other, with d for the clone.
Sound(m, d, S) ==
  /\ PartOf(m, corres)
  /\ \A x \in S : Hard(x) => x.etiq \in DOMAIN m
  /\ \A k \in DOMAIN m : (\E x \in S : Hard(x) /\ x.i = m[k]) \/ d.i = m[k]
  /\ d = NoDolly \/ (d = dolly /\ (Hard(d) => d.etiq \in DOMAIN m))

\* The clone is destroyed.
LEMMA CleanIsSound ==
  ASSUME Typed, FilesLinked, dolly \in Nodes(Len(ino)), Mapped(dolly), Named(dolly),
         \A x \in InCat : Mapped(x) /\ Named(x) /\ x.n # dolly.n, \A k \in DOMAIN corres : Live(k)
  PROVE  /\ Sound(Clean(dolly), NoDolly, InCat)
         /\ \A k \in DOMAIN Clean(dolly) : \E x \in InCat : Hard(x) /\ x.i = Clean(dolly)[k]
<1>. DEFINE m == Clean(dolly)
<1>0. PartOf(m, corres)  BY CleanIs
<1>1. DOMAIN corres \subseteq Nat \ {0}  BY DEF FilesLinked
<1>2. CASE Hard(dolly) /\ RefCount(dolly) = 1
  <2>1. m = Without(corres, dolly.etiq)  BY <1>2 DEF Clean
  <2>2. ASSUME NEW x \in InCat PROVE x.i # dolly.i
    <3>1. IsFiniteSet(Links(dolly.i)) /\ dolly.n \in Links(dolly.i)
          /\ (x.i = dolly.i => x.n \in Links(dolly.i))
      BY LinksAre
    <3>2. PICK e : Links(dolly.i) = {e}  BY <1>2, <3>1, FS_Singleton DEF RefCount
    <3>. QED BY <3>1, <3>2
  <2>3. ASSUME NEW x \in InCat, Hard(x) PROVE x.etiq \in DOMAIN m
    <3>1. x.etiq \in DOMAIN corres /\ corres[x.etiq] = x.i  BY <2>3 DEF Mapped
    <3>2. x.etiq # dolly.etiq  BY <1>2, <2>2, <3>1 DEF Mapped
    <3>. QED BY <2>1, <3>1, <3>2 DEF Without
  <2>4. ASSUME NEW k \in DOMAIN m PROVE \E x \in InCat : Hard(x) /\ x.i = m[k]
    <3>1. k \in DOMAIN corres /\ k # dolly.etiq /\ m[k] = corres[k]  BY <2>1 DEF Without
    <3>2. dolly.i # corres[k]  BY <3>1 DEF Named
    <3>. QED BY <3>1, <3>2 DEF Live
  <2>. QED BY <1>0, <2>3, <2>4 DEF Sound
<1>3. CASE ~ (Hard(dolly) /\ RefCount(dolly) = 1)
  <2>1. m = corres  BY <1>3 DEF Clean
  <2>2. ASSUME NEW k \in DOMAIN m PROVE \E x \in InCat : Hard(x) /\ x.i = m[k]
    <3>1. CASE dolly.i # corres[k]  BY <2>1, <3>1 DEF Live
    <3>2. CASE dolly.i = corres[k]
      <4>1. dolly.etiq = k /\ k # 0  BY <1>1, <2>1, <3>2 DEF Named
      <4>2. Cardinality(Links(dolly.i)) # 1  BY <1>3, <4>1 DEF Hard, RefCount
      <4>3. dolly.n \in Links(dolly.i) /\ Links(dolly.i) # {dolly.n}
        <5>1. Cardinality({dolly.n}) = 1  BY FS_Singleton
        <5>. QED BY <4>2, <5>1, LinksAre
      <4>4. PICK n \in Links(dolly.i) : n # dolly.n  BY <4>3
      <4>5. PICK x \in InCat : x.i = dolly.i  BY <4>4, LinksAre
      <4>6. x.etiq = k  BY <2>1, <3>2, <4>5 DEF Named
      <4>. QED BY <2>1, <3>2, <4>1, <4>5, <4>6 DEF Hard
    <3>. QED BY <3>1, <3>2
  <2>. QED BY <1>0, <2>1, <2>2 DEF Sound, Mapped
<1>. QED BY <1>2, <1>3

\* The links counted when the entry in conflict is removed.
LEMMA LinkedAre ==
  ASSUME Typed, dolly \in Nodes(Len(ino)), \A x \in InCat : x.n # dolly.n,
         NEW d, NEW i \in 1..Len(ino),
         IF act.data = "remove" THEN d = NoDolly ELSE d = dolly
  PROVE  /\ \A x \in InCat : x.i = i => x.n \in Linked(i)
         /\ d.i = i => dolly.n \in Linked(i)
         /\ \A n \in Linked(i) : (\E x \in InCat : x.i = i /\ x.n = n) \/ (d.i = i /\ n = dolly.n)
<1>1. /\ \A x \in InCat : x.i = i => x.n \in Links(i)
      /\ dolly.i = i => dolly.n \in Links(i)
      /\ \A n \in Links(i) : (\E x \in InCat : x.i = i /\ x.n = n) \/ (dolly.i = i /\ dolly.n = n)
  BY LinksAre
<1>2. CASE act.data = "remove"
  <2>1. d.i # i  BY <1>2 DEF NoDolly
  <2>2. Linked(i) = Links(i) \ {dolly.n}  BY <1>2 DEF Linked
  <2>. QED BY <1>1, <2>1, <2>2
<1>3. CASE act.data # "remove"
  <2>1. Linked(i) = Links(i)  BY <1>3 DEF Linked
  <2>. QED BY <1>1, <1>3, <2>1
<1>. QED BY <1>2, <1>3

\* The entry in conflict is removed, with what it holds.
MapLeft(m) ==
  LET c == IF Hard(Here) /\ Linked(Here.i) = {Here.n} THEN Without(m, Here.etiq) ELSE m
  IN IF HereIsDir THEN LeaveMap(Here.path, c) ELSE c

\* What the removal leaves of the map is what has links left in the catalogue.
LEMMA LeftIsSound ==
  ASSUME Typed, FilesLinked, dolly \in Nodes(Len(ino)), Mapped(dolly), Named(dolly),
         \A x \in InCat : Mapped(x) /\ Named(x) /\ x.n # dolly.n, \A x, y \in InCat : Apart(x, y),
         \A x \in InCat : Above(x.path) \subseteq Entered,
         Here \in InCat, HereIsDir \/ Here.path \notin Entered,
         NEW m, NEW d, IF act.data = "remove" THEN d = NoDolly ELSE d = dolly,
         Sound(m, d, InCat)
  PROVE  Sound(MapLeft(m), d, {x \in InCat : ~ Gone(Here.path, x)})
<1>. DEFINE p == Here.path
            S == {x \in InCat : ~ Gone(p, x)}
<1>1. /\ \A x \in InCat : /\ x.i \in 1..Len(ino) /\ x.path \in Seq(Names) \ {<<>>}
      /\ dolly.i \in 1..Len(ino)
  BY NodeIs DEF Nodes
<1>2. ASSUME NEW i \in 1..Len(ino)
      PROVE  /\ \A x \in InCat : x.i = i => x.n \in Linked(i)
             /\ d.i = i => dolly.n \in Linked(i)
             /\ \A n \in Linked(i) : (\E x \in InCat : x.i = i /\ x.n = n) \/ (d.i = i /\ n = dolly.n)
  BY LinkedAre
<1>3. /\ PartOf(m, corres)
      /\ \A x \in InCat : Hard(x) => x.etiq \in DOMAIN m
      /\ \A k \in DOMAIN m : (\E x \in InCat : Hard(x) /\ x.i = m[k]) \/ d.i = m[k]
      /\ d = NoDolly \/ (d = dolly /\ (Hard(d) => d.etiq \in DOMAIN m))
  BY DEF Sound
<1>4. \A k \in DOMAIN m : k # 0 /\ k \in DOMAIN corres /\ m[k] = corres[k] /\ m[k] \in 1..Len(ino)
                          /\ ino[m[k]].type # "dir"
  BY <1>3 DEF PartOf, FilesLinked
<1>5. /\ \A x \in InCat : Hard(x) => x.etiq \in DOMAIN m /\ m[x.etiq] = x.i
      /\ \A x \in InCat : \A k \in DOMAIN m : m[k] = x.i => x.etiq = k /\ Hard(x)
      /\ d = dolly /\ Hard(d) => d.etiq \in DOMAIN m /\ m[d.etiq] = d.i
  <2>1. ASSUME NEW x \in InCat, Hard(x) PROVE x.etiq \in DOMAIN m /\ m[x.etiq] = x.i
    BY <1>3, <1>4, <2>1 DEF Mapped
  <2>2. ASSUME NEW x \in InCat, NEW k \in DOMAIN m, m[k] = x.i PROVE x.etiq = k /\ Hard(x)
    BY <1>4, <2>2 DEF Named, Hard
  <2>3. ASSUME d = dolly, Hard(d) PROVE d.etiq \in DOMAIN m /\ m[d.etiq] = d.i
    BY <1>3, <1>4, <2>3 DEF Mapped, NoDolly, Hard
  <2>. QED BY <2>1, <2>2, <2>3
<1>6. \A x \in InCat : x.path = p => x = Here  BY DEF Apart
<1>7. CASE HereIsDir
  <2>1. ~ Hard(Here)  BY <1>4, <1>5, <1>7 DEF HereIsDir, IsDirAt
  <2>. DEFINE M == LeaveMap(p, m)
  <2>2. MapLeft(m) = M  BY <1>7, <2>1 DEF MapLeft
  <2>3. /\ DOMAIN M = {x \in DOMAIN m : LinkedFrom(p, m[x]) = {} \/ LinkedFrom(p, m[x]) # Linked(m[x])}
        /\ \A k \in DOMAIN M : M[k] = m[k]
    BY DEF LeaveMap
  <2>4. ASSUME NEW i
        PROVE  LinkedFrom(p, i) = {x.n : x \in {y \in InCat : Below(p, y.path) /\ y.i = i /\ Hard(y)}}
    BY DEF LinkedFrom, Under, InCat
  <2>5. PartOf(M, corres)  BY <1>3, <2>3 DEF PartOf
  <2>6. ASSUME NEW k \in DOMAIN M PROVE (\E x \in S : Hard(x) /\ x.i = M[k]) \/ d.i = M[k]
    <3>1. k \in DOMAIN m /\ M[k] = m[k] /\ m[k] \in 1..Len(ino)  BY <1>4, <2>3
    <3>2. CASE d.i = m[k]  BY <3>1, <3>2
    <3>3. CASE d.i # m[k]
      <4>1. PICK y \in InCat : Hard(y) /\ y.i = m[k]  BY <1>3, <3>1, <3>3
      <4>2. CASE ~ Below(p, y.path)
        <5>1. y.path # p  BY <1>6, <2>1, <4>1
        <5>. QED BY <3>1, <4>1, <4>2, <5>1 DEF Gone
      <4>3. CASE Below(p, y.path)
        <5>1. y.n \in LinkedFrom(p, m[k])  BY <2>4, <4>1, <4>3
        <5>2. LinkedFrom(p, m[k]) # Linked(m[k])  BY <2>3, <5>1
        <5>3. LinkedFrom(p, m[k]) \subseteq Linked(m[k])  BY <1>2, <2>4, <3>1
        <5>4. PICK n \in Linked(m[k]) : n \notin LinkedFrom(p, m[k])  BY <5>2, <5>3
        <5>5. PICK z \in InCat : z.i = m[k] /\ z.n = n  BY <1>2, <3>1, <3>3, <5>4
        <5>6. Hard(z)  BY <1>5, <3>1, <5>5
        <5>7. ~ Below(p, z.path)  BY <2>4, <5>4, <5>5, <5>6
        <5>8. z.path # p  BY <1>6, <2>1, <5>6
        <5>. QED BY <3>1, <5>5, <5>6, <5>7, <5>8 DEF Gone
      <4>. QED BY <4>2, <4>3
    <3>. QED BY <3>2, <3>3
  <2>7. ASSUME NEW x \in S, Hard(x) PROVE x.etiq \in DOMAIN M
    <3>1. x \in InCat /\ x.etiq \in DOMAIN m /\ m[x.etiq] = x.i  BY <1>5, <2>7
    <3>2. x.n \in Linked(x.i)  BY <1>1, <1>2, <3>1
    <3>3. x.n \notin LinkedFrom(p, x.i)
      <4>1. ~ Below(p, x.path)  BY DEF Gone
      <4>2. \A y \in InCat : y.n = x.n => y = x  BY <3>1 DEF Apart
      <4>. QED BY <2>4, <4>1, <4>2
    <3>. QED BY <2>3, <3>1, <3>2, <3>3
  <2>8. ASSUME d = dolly, Hard(d) PROVE d.etiq \in DOMAIN M
    <3>1. d.etiq \in DOMAIN m /\ m[d.etiq] = d.i  BY <1>5, <2>8
    <3>2. dolly.n \in Linked(d.i)  BY <1>1, <1>2, <2>8
    <3>3. dolly.n \notin LinkedFrom(p, d.i)  BY <2>4
    <3>. QED BY <2>3, <3>1, <3>2, <3>3
  <2>. HIDE DEF M
  <2>. QED BY <1>3, <2>2, <2>5, <2>6, <2>7, <2>8 DEF Sound
<1>8. CASE ~ HereIsDir
  <2>1. \A x \in InCat : ~ Below(p, x.path)  BY <1>1, <1>8, NothingBelow
  <2>2. \A x \in InCat : x = Here \/ x \in S  BY <1>6, <2>1 DEF Gone
  <2>3. Here \notin S  BY DEF Gone
  <2>4. CASE Hard(Here) /\ Linked(Here.i) = {Here.n}
    <3>1. MapLeft(m) = Without(m, Here.etiq)  BY <1>8, <2>4 DEF MapLeft
    <3>. DEFINE M == Without(m, Here.etiq)
    <3>2. DOMAIN M = DOMAIN m \ {Here.etiq} /\ \A k \in DOMAIN M : M[k] = m[k]  BY DEF Without
    <3>3. PartOf(M, corres)  BY <1>3, <3>2 DEF PartOf
    <3>4. ASSUME NEW k \in DOMAIN M PROVE (\E x \in S : Hard(x) /\ x.i = M[k]) \/ d.i = M[k]
      <4>1. k \in DOMAIN m /\ M[k] = m[k] /\ k # Here.etiq  BY <3>2
      <4>2. m[k] # Here.i  BY <1>5, <4>1
      <4>. QED BY <1>3, <2>2, <4>1, <4>2
    <3>5. ASSUME NEW x \in S, Hard(x) PROVE x.etiq \in DOMAIN M
      <4>1. x \in InCat /\ x.etiq \in DOMAIN m /\ m[x.etiq] = x.i  BY <1>5, <3>5
      <4>2. ASSUME x.etiq = Here.etiq PROVE FALSE
        <5>1. x.i = Here.i  BY <1>5, <2>4, <4>1, <4>2
        <5>2. x.n \in {Here.n}  BY <1>1, <1>2, <2>4, <4>1, <5>1
        <5>3. x = Here  BY <4>1, <5>2 DEF Apart
        <5>. QED BY <2>3, <5>3
      <4>. QED BY <3>2, <4>1, <4>2
    <3>6. ASSUME d = dolly, Hard(d) PROVE d.etiq \in DOMAIN M
      <4>1. d.etiq \in DOMAIN m /\ m[d.etiq] = d.i  BY <1>5, <3>6
      <4>2. ASSUME d.etiq = Here.etiq PROVE FALSE
        <5>1. d.i = Here.i  BY <1>5, <2>4, <4>1, <4>2
        <5>2. dolly.n \in {Here.n}  BY <1>1, <1>2, <2>4, <5>1
        <5>. QED BY <5>2
      <4>. QED BY <3>2, <4>1, <4>2
    <3>. HIDE DEF M
    <3>7. Sound(M, d, S)  BY <1>3, <3>3, <3>4, <3>5, <3>6 DEF Sound
    <3>. QED BY <3>1, <3>7 DEF M
  <2>5. CASE ~ (Hard(Here) /\ Linked(Here.i) = {Here.n})
    <3>1. MapLeft(m) = m  BY <1>8, <2>5 DEF MapLeft
    <3>2. ASSUME NEW k \in DOMAIN m PROVE (\E x \in S : Hard(x) /\ x.i = m[k]) \/ d.i = m[k]
      <4>1. CASE d.i = m[k]  BY <4>1
      <4>2. CASE d.i # m[k]
        <5>1. PICK y \in InCat : Hard(y) /\ y.i = m[k]  BY <1>3, <4>2
        <5>2. CASE y # Here  BY <2>2, <5>1, <5>2
        <5>3. CASE y = Here
          <6>1. Here.n \in Linked(Here.i) /\ Linked(Here.i) # {Here.n}
            BY <1>1, <1>2, <2>5, <5>1, <5>3
          <6>2. PICK n \in Linked(Here.i) : n # Here.n  BY <6>1
          <6>3. PICK z \in InCat : z.i = Here.i /\ z.n = n  BY <1>1, <1>2, <4>2, <5>1, <5>3, <6>2
          <6>4. Hard(z) /\ z # Here  BY <1>5, <5>1, <5>3, <6>2, <6>3
          <6>. QED BY <2>2, <5>1, <5>3, <6>3, <6>4
        <5>. QED BY <5>2, <5>3
      <4>. QED BY <4>1, <4>2
    <3>. QED BY <1>3, <3>1, <3>2 DEF Sound
  <2>. QED BY <2>4, <2>5
<1>. QED BY <1>7, <1>8

-----------------------------------------------------------------------------
(* The tree and the map: one step. *)

\* What MapInv says while it says something, and what it says of the nodes.
LinkOK == CatOK /\ MapOK
NodesOK ==
  /\ \A x, y \in InCat : Apart(x, y)
  /\ \A x \in InCat : Above(x.path) \subseteq Entered /\ (x.path \in opts.mask \/ ~ Hard(x))
  /\ \A x \in InCat : Mapped(x) /\ Named(x)

\* The numbers of entries are naturals.
LEMMA BeforeIs ==
  ASSUME Typed PROVE Before \in Nat /\ index \in Nat /\ pos \in Nat
BY ArchiveFacts DEF Before, Typed

\* The same nodes and the same map.
LEMMA NodesStill ==
  ASSUME Typed, LinkOK, UNCHANGED <<opts, cat, corres>>, \A k \in 1..Len(ino) : ino'[k].type = ino[k].type
  PROVE  NodesOK' /\ InCat' = InCat /\ Entered' = Entered
<1>1. InCat' = InCat /\ Entered' = Entered  BY SameTree
<1>2. /\ \A x, y \in InCat : Apart(x, y)
      /\ \A x \in InCat : Above(x.path) \subseteq Entered /\ (x.path \in opts.mask \/ ~ Hard(x))
      /\ \A x \in InCat : Mapped(x) /\ Named(x)
  BY DEF LinkOK, CatOK, MapOK
<1>3. \A x : Mapped(x)' = Mapped(x) /\ Named(x)' = Named(x)  BY DEF Mapped, Named
<1>4. \A x \in InCat : Mapped(x)' /\ Named(x)'  BY <1>2, <1>3
<1>. QED BY <1>1, <1>2, <1>4 DEF NodesOK

\* Nothing pending: the next entry may be read.
LEMMA BackLinked ==
  ASSUME NodesOK', pc' = "read", UpTo(current_add') \subseteq Entered',
         \A x \in InCat' : x.n <= Before' + pos', dolly' = NoDolly,
         \A k \in DOMAIN corres' : Live(k)'
  PROVE  LinkOK'
<1>1. CatOK'  BY DEF NodesOK, CatOK, InConflict
<1>2. MapOK'  BY DEF NodesOK, MapOK, InConflict
<1>. QED BY <1>1, <1>2 DEF LinkOK

\* Reading an entry changes neither the catalogue nor the map.
LEMMA ReadNextLinked ==
  ASSUME StepOK, LinkOK, ReadNext PROVE LinkOK'
<1>1. /\ Typed /\ pc = "read" /\ pc' = "filter" /\ ent' = pos + 1
      /\ UNCHANGED <<archs, opts, cat, ino, corres, index, current_add, dolly>>
  BY DEF StepOK, ReadNext, source, result, cursors, clone
<1>2. NodesOK' /\ InCat' = InCat /\ Entered' = Entered  BY <1>1, NodesStill
<1>3. \A x \in InCat : x.n <= Before + pos /\ x.n \in Nat  BY <1>1, NodeIs DEF LinkOK, CatOK
<1>4. \A x \in InCat' : x.n < Before' + ent'
  <2>1. Before' = Before /\ Before \in Nat /\ pos \in Nat  BY <1>1, BeforeIs DEF Before
  <2>. QED BY <1>1, <1>2, <1>3, <2>1
<1>5. UpTo(current_add') \subseteq Entered'  BY <1>1, <1>2 DEF LinkOK, CatOK, Selecting
<1>6. CatOK'  BY <1>1, <1>2, <1>4, <1>5 DEF CatOK, NodesOK, InConflict
<1>7. dolly = NoDolly /\ \A k \in DOMAIN corres : Live(k)  BY <1>1 DEF LinkOK, MapOK, Selecting
<1>8. \A k \in DOMAIN corres' : Live(k)'  BY <1>1, <1>2, <1>7 DEF Live
<1>9. MapOK'  BY <1>1, <1>2, <1>7, <1>8 DEF MapOK, NodesOK, InConflict
<1>. QED BY <1>6, <1>9 DEF LinkOK

\* The numbers of the second archive follow those of the first.
LEMMA NextArchiveLinked ==
  ASSUME StepOK, LinkOK, NextArchive PROVE LinkOK'
<1>1. /\ Typed /\ pc = "read" /\ pc' = "read" /\ pos' = 0 /\ pos = Len(archs[index])
      /\ index < Len(archs) /\ index' = index + 1 /\ current_add' = <<>>
      /\ UNCHANGED <<archs, opts, cat, ino, corres, dolly>>
  BY DEF StepOK, NextArchive, source, result, clone
<1>2. NodesOK' /\ InCat' = InCat /\ Entered' = Entered  BY <1>1, NodesStill
<1>3. index = 1 /\ Len(archs[1]) \in Nat
  <2>1. Len(archs) \in {1, 2} /\ index \in 1..Len(archs) /\ \A j \in 1..Len(archs) : Len(archs[j]) \in Nat
    BY <1>1, ArchiveFacts DEF Typed
  <2>. QED BY <1>1, <2>1
<1>4. Before = 0 /\ Before' = Len(archs[1])  BY <1>1, <1>3 DEF Before
<1>5. \A x \in InCat' : x.n <= Before' + pos'
  <2>1. \A x \in InCat : x.n <= Before + pos /\ x.n \in Nat  BY <1>1, NodeIs DEF LinkOK, CatOK
  <2>. QED BY <1>1, <1>2, <1>3, <1>4, <2>1
<1>6. UpTo(current_add') \subseteq Entered'  BY <1>1 DEF UpTo
<1>7. dolly = NoDolly /\ \A k \in DOMAIN corres : Live(k)  BY <1>1 DEF LinkOK, MapOK, Selecting
<1>8. \A k \in DOMAIN corres' : Live(k)'  BY <1>1, <1>2, <1>7 DEF Live
<1>. QED BY <1>1, <1>2, <1>5, <1>6, <1>7, <1>8, BackLinked

\* Step 2 changes neither the catalogue nor the map.
LEMMA CopyLinked ==
  ASSUME StepOK, LinkOK, Selected \/ CancelSelection \/ CopyNext, pc' # "end" PROVE LinkOK'
<1>1. /\ Typed /\ pc' = "copy" /\ UNCHANGED <<opts, cat, ino, corres>>
  BY DEF StepOK, Selected, CancelSelection, CopyNext, Copying, source, result, Stop
<1>2. NodesOK'  BY <1>1, NodesStill
<1>. QED BY <1>1, <1>2 DEF AtEntry, LinkOK, NodesOK, CatOK, MapOK, InConflict, Selecting

\* Leaving a directory changes neither the catalogue nor the map.
LEMMA LeaveDirectoryLinked ==
  ASSUME StepOK, LinkOK, LeaveDirectory, pc' # "end" PROVE LinkOK'
<1>1. /\ Typed /\ pc = "filter" /\ it.type = "eod" /\ pc' = "read"
      /\ current_add' = Front(current_add) /\ current_add = it.path
      /\ pos = ent /\ ent \in 1..pos /\ pos \in 0..Len(archs[index])
      /\ UNCHANGED <<archs, opts, cat, ino, corres, index, pos, dolly>>
  BY DEF StepOK, Reader, Cursors, LeaveDirectory, Stop, AtEntry, Selecting, source, result, reader, clone
<1>2. NodesOK' /\ InCat' = InCat /\ Entered' = Entered  BY <1>1, NodesStill
<1>3. UpTo(current_add') \subseteq Entered'
  <2>1. it.path \in Seq(Names) \ {<<>>}  BY <1>1, EntryFacts
  <2>2. UpTo(Front(it.path)) \subseteq UpTo(it.path)  BY <2>1, AboveIs
  <2>3. UpTo(it.path) \subseteq Entered  BY <1>1 DEF LinkOK, CatOK, Selecting, AtEntry
  <2>. QED BY <1>1, <1>2, <2>2, <2>3
<1>4. \A x \in InCat' : x.n <= Before' + pos'
  <2>1. \A x \in InCat : x.n < Before + ent /\ x.n \in Nat
    BY <1>1, NodeIs DEF LinkOK, CatOK, Selecting, AtEntry
  <2>2. Before' = Before /\ Before \in Nat /\ pos \in Nat  BY <1>1, BeforeIs DEF Before
  <2>. QED BY <1>1, <1>2, <2>1, <2>2
<1>5. dolly = NoDolly /\ \A k \in DOMAIN corres : Live(k)
  BY <1>1 DEF LinkOK, MapOK, Selecting, AtEntry
<1>6. \A k \in DOMAIN corres' : Live(k)'  BY <1>1, <1>2, <1>5 DEF Live
<1>. QED BY <1>1, <1>2, <1>3, <1>4, <1>5, <1>6, BackLinked

\* The policy is asked, or the user.
LEMMA JudgeLinked ==
  ASSUME StepOK, LinkOK, Judge \/ ChooseData \/ ChooseEA PROVE LinkOK'
<1>1. /\ Typed /\ pc \in InConflict /\ pc' \in InConflict
      /\ UNCHANGED <<archs, opts, cat, ino, corres, index, pos, ent, current_add, dolly>>
  BY DEF StepOK, Judge, ChooseData, ChooseEA, Quiet, InConflict, source, result, reader, cursors
<1>2. NodesOK' /\ InCat' = InCat /\ Entered' = Entered  BY <1>1, NodesStill
<1>3. it' = it /\ Before' = Before  BY <1>1 DEF it, Before
<1>4. CatOK'
  BY <1>1, <1>2, <1>3 DEF LinkOK, CatOK, NodesOK, InConflict, Selecting, AtEntry
<1>5. Mapped(dolly)' = Mapped(dolly) /\ Named(dolly)' = Named(dolly)  BY <1>1 DEF Mapped, Named, Hard
<1>6. \A k \in DOMAIN corres : Live(k)' = Live(k)  BY <1>1, <1>2 DEF Live
<1>7. /\ Mapped(dolly) /\ Named(dolly) /\ \A k \in DOMAIN corres : Live(k)
  BY <1>1 DEF LinkOK, MapOK, InConflict, Selecting, AtEntry
<1>8. Mapped(dolly)' /\ Named(dolly)'  BY <1>5, <1>7
<1>9. \A k \in DOMAIN corres' : Live(k)'  BY <1>1, <1>6, <1>7
<1>10. MapOK'  BY <1>1, <1>2, <1>8, <1>9 DEF MapOK, NodesOK, InConflict
<1>. QED BY <1>4, <1>10 DEF LinkOK

\* A node is added, in place of what is there.
LEMMA AddedLinked ==
  ASSUME Typed, FilesLinked, LinkOK, UNCHANGED <<opts, corres>>, \A k \in 1..Len(ino) : ino'[k].type = ino[k].type,
         NEW n, n.path \in Seq(Names) \ {<<>>},
         InCat' = {x \in InCat : ~ Gone(n.path, x)} \cup {n},
         Above(n.path) \subseteq Entered, n.path \in opts.mask \/ ~ Hard(n),
         Mapped(n), Named(n), \A x \in InCat : x.n < n.n, n.n \in Nat,
         \A x \in InCat : Gone(n.path, x) => ~ Hard(x),
         \A k \in DOMAIN corres : (\E x \in InCat : Hard(x) /\ x.i = corres[k]) \/ n.i = corres[k]
  PROVE  /\ NodesOK' /\ Above(n.path) \subseteq Entered'
         /\ IsDirAt(n)' /\ n.path \in opts.mask => n.path \in Entered'
         /\ \A k \in DOMAIN corres' : \E x \in InCat' : Hard(x) /\ x.i = corres'[k]
<1>1. /\ \A x, y \in InCat : Apart(x, y)
      /\ \A x \in InCat : Above(x.path) \subseteq Entered /\ (x.path \in opts.mask \/ ~ Hard(x))
      /\ \A x \in InCat : Mapped(x) /\ Named(x)
  BY DEF LinkOK, CatOK, MapOK
<1>2. /\ \A x \in InCat : ~ Gone(n.path, x) => Above(x.path) \subseteq Entered'
      /\ Above(n.path) \subseteq Entered'
  BY <1>1, TreeStays
<1>3. \A x \in InCat' : Above(x.path) \subseteq Entered' /\ (x.path \in opts'.mask \/ ~ Hard(x))
  BY <1>1, <1>2
<1>4. ASSUME NEW x \in InCat', NEW y \in InCat' PROVE Apart(x, y)
  <2>1. \A z \in InCat : z.n # n.n
    <3>1. \A z \in InCat : z.n \in Nat  BY NodeIs
    <3>. QED BY <3>1
  <2>2. \A z \in InCat' : z = n \/ (z \in InCat /\ z.path # n.path)  BY DEF Gone
  <2>3. CASE x = n  BY <2>1, <2>2, <2>3 DEF Apart
  <2>4. CASE x # n  BY <1>1, <2>1, <2>2, <2>4 DEF Apart
  <2>. QED BY <2>3, <2>4
<1>5. \A x \in InCat' : Mapped(x)' /\ Named(x)'
  <2>1. \A x : Mapped(x)' = Mapped(x) /\ Named(x)' = Named(x)  BY DEF Mapped, Named
  <2>2. \A x \in InCat' : Mapped(x) /\ Named(x)  BY <1>1
  <2>. QED BY <2>1, <2>2
<1>6. NodesOK'  BY <1>3, <1>4, <1>5 DEF NodesOK
<1>7. IsDirAt(n)' /\ n.path \in opts.mask => n.path \in Entered'  BY DEF Entered
<1>8. ASSUME NEW k \in DOMAIN corres PROVE \E x \in InCat' : Hard(x) /\ x.i = corres[k]
  <2>1. CASE n.i = corres[k]
    <3>1. n.etiq = k /\ k # 0  BY <2>1 DEF Named, FilesLinked
    <3>. QED BY <2>1, <3>1 DEF Hard
  <2>2. CASE n.i # corres[k]
    <3>1. PICK x \in InCat : Hard(x) /\ x.i = corres[k]  BY <2>2
    <3>. QED BY <3>1
  <2>. QED BY <2>1, <2>2
<1>. QED BY <1>2, <1>6, <1>7, <1>8

\* What the entry read is not in, and what no node is.
LEMMA NotHeld ==
  ASSUME Typed, LinkOK, NEW p \in Seq(Names) \ {<<>>}, ~ Holds(p) \/ p \notin opts.mask
  PROVE  \A x \in InCat : Gone(p, x) => x.path = p /\ ~ Hard(x) /\ p \notin opts.mask
<1>1. p \notin Entered  BY DEF Entered, Holds
<1>2. \A x \in InCat : Above(x.path) \subseteq Entered /\ (x.path \in opts.mask \/ ~ Hard(x))
  BY DEF LinkOK, CatOK
<1>3. \A x \in InCat : ~ Below(p, x.path)  BY <1>1, <1>2, NothingBelow
<1>. QED BY <1>2, <1>3 DEF Gone, Holds

\* What replaces a directory the mask leaves out is not a link.
LEMMA ExcludeLinked ==
  ASSUME StepOK, LinkOK, Exclude PROVE LinkOK'
<1>1. /\ pc = "filter" /\ it.type # "eod" /\ pc' = "read" /\ Leave /\ juillet.path \notin opts.mask
      /\ UNCHANGED <<archs, opts, corres, current_add, dolly>>
  BY DEF Exclude, source, cursors, clone
<1>2. /\ Typed /\ FilesLinked /\ Reader /\ IsEntry(it) /\ it \in Listed /\ index \in Nat
      /\ current_add = Front(it.path) /\ juillet.path = it.path
      /\ it.path \in Seq(Names) \ {<<>>}
      /\ Dolly = [path |-> it.path, i |-> Dolly.i, etiq |-> Dolly.etiq, n |-> Dolly.n]
      /\ Dolly.n \in Nat
  BY <1>1, DollyIs
<1>3. /\ pos' \in ent..Len(archs[index]) /\ ent \in 1..Len(archs[index]) /\ index' = index
  BY <1>1, <1>2, LeaveIs DEF AtEntry
<1>4. Before' = Before /\ Before \in Nat /\ ent \in Nat /\ pos' \in Nat /\ ent <= pos'
  BY <1>1, <1>2, <1>3, BeforeIs DEF Before
<1>5. \A x \in InCat : x.n < Before + ent /\ x.n \in Nat
  BY <1>1, <1>2, NodeIs DEF LinkOK, CatOK, Selecting, AtEntry
<1>6. UpTo(current_add) = Above(it.path) /\ UpTo(current_add) \subseteq Entered
  BY <1>1, <1>2, AboveIs DEF LinkOK, CatOK, Selecting, AtEntry
<1>7. dolly = NoDolly /\ \A k \in DOMAIN corres : Live(k)
  BY <1>1 DEF LinkOK, MapOK, Selecting, AtEntry
<1>8. \A k \in DOMAIN corres : \E x \in InCat : Hard(x) /\ x.i = corres[k]
  BY <1>2, <1>7 DEF Live, NoDolly, FilesLinked
<1>9. CASE EntryIsDir /\ opts.emptydir
  <2>. DEFINE y == [InodeOf(it) EXCEPT !.type = "igndir"]
              n == [Dolly EXCEPT !.i = Len(ino) + 1]
  <2>1. cat' = AddChild(n) /\ ino' = Append(ino, y)  BY <1>9 DEF Exclude
  <2>2. n.path = it.path /\ n.i = Len(ino) + 1 /\ n.n = Dolly.n /\ n.etiq = Dolly.etiq  BY <1>2
  <2>3. Dolly.etiq = 0  BY <1>2, <1>9 DEF Dolly, EntryIsDir, IsEntry
  <2>4. Dolly.n = Before + ent  BY <1>4 DEF Dolly, Before
  <2>. HIDE DEF n
  <2>5. InCat' = {x \in InCat : ~ Gone(n.path, x)} \cup {n}
    <3>. DEFINE S == InCat \cup {n}
    <3>1. cat \in Seq(S)
      <4>1. cat \in Seq(InCat)  BY <1>2 DEF Typed, InCat
      <4>. QED BY <4>1
    <3>2. Elements(AddChild(n)) = {x \in InCat : ~ (x.path = n.path \/ Below(n.path, x.path))} \cup {n}
      BY <3>1, AddChildIs
    <3>. QED BY <2>1, <3>2 DEF InCat, Elements, Gone
  <2>6. \A k \in 1..Len(ino) : ino'[k].type = ino[k].type
    <3>1. ino \in Seq(Inodes)  BY <1>2 DEF Typed
    <3>2. \A k \in 1..Len(ino) : ino'[k] = ino[k]
      <4>. HIDE DEF y
      <4>. QED BY <2>1, <3>1
    <3>. QED BY <3>2
  <2>7. ~ Hard(n)  BY <2>2, <2>3 DEF Hard
  <2>8. Named(n)
    <3>1. \A k \in DOMAIN corres : corres[k] \in 1..Len(ino)  BY <1>2 DEF FilesLinked
    <3>2. Len(ino) \in Nat  BY <1>2 DEF Typed
    <3>3. \A k \in DOMAIN corres : corres[k] # n.i  BY <2>2, <3>1, <3>2
    <3>. QED BY <3>3 DEF Named
  <2>9. \A x \in InCat : Gone(n.path, x) => ~ Hard(x)  BY <1>1, <1>2, <2>2, NotHeld
  <2>10. \A x \in InCat : x.n < n.n  BY <1>5, <2>2, <2>4
  <2>11. n.n \in Nat /\ n.n = Before + ent /\ n.path \in Seq(Names) \ {<<>>} /\ Mapped(n)
    BY <1>2, <2>2, <2>4, <2>7 DEF Mapped
  <2>12. Above(n.path) \subseteq Entered  BY <1>6, <2>2
  <2>13. /\ NodesOK' /\ Above(n.path) \subseteq Entered'
         /\ \A k \in DOMAIN corres' : \E x \in InCat' : Hard(x) /\ x.i = corres'[k]
    BY <1>1, <1>2, <1>8, <2>5, <2>6, <2>7, <2>8, <2>9, <2>10, <2>11, <2>12, AddedLinked
  <2>14. \A x \in InCat' : x.n <= Before' + pos'
    <3>1. n.n <= Before + pos'
      <4>1. \A a, b, c \in Nat : b <= c => a + b <= a + c  OBVIOUS
      <4>2. Before + ent <= Before + pos'  BY <1>4, <4>1
      <4>. QED BY <2>11, <4>2
    <3>2. \A x \in InCat : x.n <= Before + pos'  BY <1>4, <1>5
    <3>. QED BY <1>4, <2>5, <3>1, <3>2
  <2>15. UpTo(current_add') \subseteq Entered'  BY <1>1, <1>6, <2>2, <2>13
  <2>16. \A k \in DOMAIN corres' : Live(k)'  BY <2>13 DEF Live, Hard
  <2>. QED BY <1>1, <1>7, <2>13, <2>14, <2>15, <2>16, BackLinked
<1>10. CASE ~ (EntryIsDir /\ opts.emptydir)
  <2>1. cat' = cat /\ ino' = ino  BY <1>10 DEF Exclude
  <2>2. NodesOK' /\ InCat' = InCat /\ Entered' = Entered  BY <1>1, <1>2, <2>1, NodesStill
  <2>3. \A x \in InCat' : x.n <= Before' + pos'  BY <1>4, <1>5, <2>2
  <2>4. \A k \in DOMAIN corres' : Live(k)'  BY <1>1, <1>7, <2>2 DEF Live
  <2>5. UpTo(current_add') \subseteq Entered'  BY <1>1, <1>6, <2>2
  <2>. QED BY <1>1, <1>7, <2>2, <2>3, <2>4, <2>5, BackLinked
<1>. QED BY <1>9, <1>10

\* A clone is a link to the inode its etiquette has in the map, or a new inode
\* gets a new etiquette.
LEMMA CloneEntryLinked ==
  ASSUME StepOK, StepOK', LinkOK, CloneEntry, pc' # "end" PROVE LinkOK'
<1>1. /\ pc = "filter" /\ it.type # "eod" /\ MakeClone /\ juillet.path \in opts.mask
      /\ pc' = (IF Conflicts THEN "judge" ELSE "new")
      /\ UNCHANGED <<archs, opts, cat, index, pos, ent, current_add>>
  BY DEF CloneEntry, Stop, source, reader
<1>2. /\ Typed /\ FilesLinked /\ IsEntry(it) /\ it.path \in Seq(Names) \ {<<>>}
      /\ juillet.path = it.path /\ Append(current_add, Name) = it.path
      /\ it \in Listed /\ index \in Nat
      /\ current_read = current_add
  BY <1>1, DollyIs
<1>3. /\ dolly' = [path |-> it.path, i |-> IF IsNewInode THEN Len(ino) + 1 ELSE corres[Key(it)],
                   etiq |-> IF it.etiq = 0 THEN 0 ELSE Key(it),
                   n |-> IF index = 1 THEN ent ELSE Len(archs[1]) + ent]
      /\ ino' = IF IsNewInode THEN Append(ino, InodeOf(it)) ELSE ino
      /\ corres' = IF it.etiq # 0 /\ IsNewInode
                   THEN [k \in DOMAIN corres \cup {Key(it)} |-> IF k = Key(it) THEN Len(ino) + 1 ELSE corres[k]]
                   ELSE corres
  BY <1>1, <1>2 DEF MakeClone, Dolly
<1>4. Len(ino) \in Nat /\ ino \in Seq(Inodes)  BY <1>2 DEF Typed
<1>5. \A k \in 1..Len(ino) : ino'[k].type = ino[k].type
  <2>1. CASE IsNewInode
    <3>1. InodeOf(it) \in Inodes  BY <1>2, InodeOfIs
    <3>2. ino' = Append(ino, InodeOf(it))  BY <1>3, <2>1
    <3>. QED BY <1>4, <3>1, <3>2
  <2>2. CASE ~ IsNewInode  BY <1>3, <2>2
  <2>. QED BY <2>1, <2>2
<1>6. InCat' = InCat /\ Entered' = Entered  BY <1>1, <1>2, <1>5, SameTree
<1>7. /\ \A x \in InCat : Mapped(x) /\ Named(x) /\ x.i \in 1..Len(ino)
      /\ dolly = NoDolly /\ \A k \in DOMAIN corres : Live(k) /\ corres[k] \in 1..Len(ino)
  BY <1>1, <1>2, NodeIs DEF LinkOK, MapOK, Selecting, AtEntry, FilesLinked
<1>8. it' = it /\ Before' = Before  BY <1>1 DEF it, Before
<1>9. CatOK'
  <2>1. /\ \A x, y \in InCat : Apart(x, y)
        /\ \A x \in InCat : Above(x.path) \subseteq Entered /\ (x.path \in opts.mask \/ ~ Hard(x))
        /\ UpTo(current_add) \subseteq Entered
        /\ \A x \in InCat : x.n < Before + ent
    BY <1>1 DEF LinkOK, CatOK, Selecting, AtEntry
  <2>2. dolly'.n = Before + ent
    <3>1. ent \in Nat  BY <1>1, <1>2, DollyIs
    <3>. QED BY <1>3, <3>1 DEF Before
  <2>3. ~ Conflicts => ~ Holds(it.path)  BY <1>2 DEF Conflicts, At, Place, Holds, InCat
  <2>4. (~ Holds(it.path))' <=> ~ Holds(it.path)  BY <1>6, <1>8 DEF Holds
  <2>. QED BY <1>1, <1>2, <1>6, <1>8, <2>1, <2>2, <2>3, <2>4 DEF CatOK, InConflict
<1>10. MapOK'
  <2>. SUFFICES /\ \A x \in InCat : Mapped(x)' /\ Named(x)'
                /\ Mapped(dolly)' /\ Named(dolly)'
                /\ \A k \in DOMAIN corres' : Live(k)'
    BY <1>1, <1>6 DEF MapOK
  <2>1. CASE it.etiq # 0 /\ IsNewInode
    <3>1. Key(it) \notin DOMAIN corres  BY <2>1 DEF IsNewInode
    <3>2. /\ DOMAIN corres' = DOMAIN corres \cup {Key(it)} /\ corres'[Key(it)] = Len(ino) + 1
          /\ \A k \in DOMAIN corres : corres'[k] = corres[k]
      BY <1>3, <2>1, <3>1
    <3>3. dolly'.i = Len(ino) + 1 /\ dolly'.etiq = Key(it)  BY <1>3, <2>1
    <3>4. \A x \in InCat : x.i # Len(ino) + 1  BY <1>4, <1>7
    <3>5. \A k \in DOMAIN corres : corres[k] # Len(ino) + 1  BY <1>4, <1>7
    <3>6. ASSUME NEW x \in InCat PROVE Mapped(x)' /\ Named(x)'
      <4>1. Mapped(x) /\ Named(x)  BY <1>7
      <4>. QED BY <3>2, <3>4, <4>1 DEF Mapped, Named
    <3>7. Mapped(dolly)' /\ Named(dolly)'  BY <3>2, <3>3, <3>5 DEF Mapped, Named
    <3>8. ASSUME NEW k \in DOMAIN corres' PROVE Live(k)'
      <4>1. CASE k = Key(it)  BY <3>2, <3>3, <4>1 DEF Live
      <4>2. CASE k # Key(it)
        <5>1. Live(k) /\ corres'[k] = corres[k] /\ dolly.i # corres[k]
          BY <1>7, <3>2, <4>2 DEF NoDolly
        <5>. QED BY <1>6, <5>1 DEF Live, Hard
      <4>. QED BY <4>1, <4>2
    <3>. QED BY <3>6, <3>7, <3>8
  <2>2. CASE ~ (it.etiq # 0 /\ IsNewInode)
    <3>1. corres' = corres  BY <1>3, <2>2
    <3>2. ASSUME NEW x \in InCat PROVE Mapped(x)' /\ Named(x)'
      <4>1. Mapped(x) /\ Named(x)  BY <1>7
      <4>. QED BY <3>1, <4>1 DEF Mapped, Named
    <3>3. ASSUME NEW k \in DOMAIN corres PROVE \E x \in InCat : Hard(x) /\ x.i = corres[k]
      <4>1. Live(k) /\ dolly.i # corres[k]  BY <1>7 DEF NoDolly
      <4>. QED BY <4>1 DEF Live
    <3>4. \A k \in DOMAIN corres' : Live(k)'
      <4>1. \A x : Hard(x)' = Hard(x)  BY DEF Hard
      <4>. QED BY <1>6, <3>1, <3>3 DEF Live, Hard
    <3>5. Mapped(dolly)' /\ Named(dolly)'
      <4>1. CASE it.etiq = 0
        <5>1. dolly'.etiq = 0 /\ dolly'.i = Len(ino) + 1  BY <1>3, <4>1 DEF IsNewInode
        <5>2. \A k \in DOMAIN corres : corres[k] # Len(ino) + 1  BY <1>4, <1>7
        <5>. QED BY <3>1, <5>1, <5>2 DEF Mapped, Named, Hard
      <4>2. CASE it.etiq # 0
        <5>1. /\ ~ IsNewInode /\ Key(it) \in DOMAIN corres
              /\ dolly'.etiq = Key(it) /\ dolly'.i = corres[Key(it)]
          BY <1>3, <2>2, <4>2 DEF IsNewInode
        <5>2. PICK x \in InCat : x.i = corres[Key(it)]  BY <3>3, <5>1
        <5>3. \A k \in DOMAIN corres : corres[k] = x.i => x.etiq = k  BY <1>7 DEF Named
        <5>4. \A k \in DOMAIN corres : corres[k] = corres[Key(it)] => k = Key(it)
          BY <5>1, <5>2, <5>3
        <5>. QED BY <3>1, <5>1, <5>4 DEF Mapped, Named
      <4>. QED BY <4>1, <4>2
    <3>. QED BY <3>2, <3>4, <3>5
  <2>. QED BY <2>1, <2>2
<1>. QED BY <1>9, <1>10 DEF LinkOK

\* A clone in conflict is not the first of its number.
LEMMA ConflictLinked ==
  ASSUME StepOK, LinkOK, pc \in InConflict \cup {"new", "add"}
  PROVE  /\ Mapped(dolly) /\ Named(dolly) /\ dolly.n = Before + ent /\ Before \in Nat /\ ent \in Nat
         /\ it.path \in opts.mask
         /\ \A x \in InCat : Mapped(x) /\ Named(x) /\ x.n < dolly.n /\ x.n # dolly.n /\ x.n \in Nat
         /\ \A x, y \in InCat : Apart(x, y)
         /\ \A x \in InCat : Above(x.path) \subseteq Entered /\ (x.path \in opts.mask \/ ~ Hard(x))
         /\ \A k \in DOMAIN corres : Live(k)
         /\ UpTo(current_add) \subseteq Entered /\ UpTo(current_add) = Above(it.path)
<1>1. /\ Typed /\ ent \in Nat /\ it.path \in Seq(Names) \ {<<>>} /\ current_add = Front(it.path)
  <2>1. CASE pc \in InConflict  BY <2>1, ConflictIs
  <2>2. CASE pc \in {"new", "add"}
    <3>1. ent \in 1..pos  BY <2>2 DEF StepOK, Reader, Selecting, AtEntry
    <3>2. pos \in Nat  BY DEF StepOK, Typed
    <3>3. ent \in Nat  BY <3>1, <3>2
    <3>. QED BY <2>2, <3>3, NewIs
  <2>. QED BY <2>1, <2>2
<1>2. Before \in Nat /\ \A x \in InCat : x.n \in Nat  BY <1>1, BeforeIs, NodeIs
<1>3. /\ Mapped(dolly) /\ Named(dolly) /\ dolly.n = Before + ent /\ it.path \in opts.mask
      /\ \A x \in InCat : Mapped(x) /\ Named(x) /\ x.n < Before + ent
      /\ \A x, y \in InCat : Apart(x, y)
      /\ \A x \in InCat : Above(x.path) \subseteq Entered /\ (x.path \in opts.mask \/ ~ Hard(x))
      /\ \A k \in DOMAIN corres : Live(k)
      /\ UpTo(current_add) \subseteq Entered
  BY DEF LinkOK, CatOK, MapOK, Selecting, AtEntry, InConflict
<1>4. UpTo(current_add) = Above(it.path)  BY <1>1, AboveIs
<1>5. \A x \in InCat : x.n < dolly.n /\ x.n # dolly.n  BY <1>1, <1>2, <1>3
<1>. QED BY <1>1, <1>2, <1>3, <1>4, <1>5

\* The map agrees with the nodes left.
LEMMA SoundNodes ==
  ASSUME LinkOK, NEW d, NEW S \in SUBSET InCat, Sound(corres', d, S)
  PROVE  \A x \in S : Mapped(x)' /\ Named(x)'
<1>1. \A x \in S : Mapped(x) /\ Named(x)  BY DEF LinkOK, MapOK
<1>2. PartOf(corres', corres) /\ \A x \in S : Hard(x) => x.etiq \in DOMAIN corres'  BY DEF Sound
<1>3. ASSUME NEW x \in S PROVE Mapped(x)'
  <2>1. Hard(x) => x.etiq \in DOMAIN corres' /\ corres'[x.etiq] = corres[x.etiq] /\ corres[x.etiq] = x.i
    BY <1>1, <1>2 DEF Mapped, PartOf
  <2>. QED BY <2>1 DEF Mapped, Hard
<1>4. ASSUME NEW x \in S PROVE Named(x)'
  BY <1>1, <1>2 DEF Named, PartOf
<1>. QED BY <1>3, <1>4

\* Where the archive goes on after a conflict.
LEMMA SolvedAhead ==
  ASSUME StepOK, LinkOK, pc \in InConflict \cup {"new"}, UNCHANGED archs,
         (UNCHANGED reader) \/ Leave
  PROVE  \A n \in Nat : n <= Before + ent => n <= Before' + pos'
<1>1. Before \in Nat /\ ent \in Nat /\ Typed /\ Reader /\ pos \in Nat /\ pos = ent
      /\ it.type # "eod"
  BY ConflictLinked DEF StepOK, Typed, Reader, AtEntry, InConflict
<1>2. index' = index /\ pos' \in Nat /\ pos' >= ent
  <2>1. CASE UNCHANGED reader  BY <1>1, <2>1 DEF reader
  <2>2. CASE Leave
    <3>1. pos' \in ent..Len(archs[index]) /\ index' = index  BY <1>1, <2>2, LeaveIs DEF AtEntry
    <3>2. \A b : pos' \in ent..b => pos' \in Nat /\ pos' >= ent  BY <1>1
    <3>. QED BY <3>1, <3>2
  <2>. QED BY <2>1, <2>2
<1>3. Before' = Before  BY <1>2 DEF Before
<1>4. \A a, b, c, n \in Nat : c >= b /\ n <= a + b => n <= a + c  OBVIOUS
<1>. QED BY <1>1, <1>2, <1>3, <1>4

\* The clone is destroyed: its etiquette goes with it when it had no other link.
LEMMA PreserveLinked ==
  ASSUME StepOK, StatsOK, LinkOK, Preserve, pc' # "end", st'.errored = 0 PROVE LinkOK'
<1>1. pc \in InConflict /\ UNCHANGED <<archs, opts>>  BY DEF Preserve, InConflict, source
<1>2. /\ Typed /\ FilesLinked /\ dolly \in Nodes(Len(ino)) /\ it.path \in Seq(Names) \ {<<>>}
      /\ Here \in InCat /\ Here.path = it.path
  BY <1>1, ConflictIs
<1>3. /\ SameKinds(ino, ino') /\ corres' = Clean(dolly) /\ dolly' = NoDolly /\ pc' = "read"
      /\ UNCHANGED cat
      /\ \/ BothDirs /\ current_add' = it.path /\ UNCHANGED reader
         \/ Leave /\ UNCHANGED current_add
  BY PreserveIs
<1>4. /\ Mapped(dolly) /\ Named(dolly) /\ dolly.n = Before + ent /\ it.path \in opts.mask
      /\ \A x \in InCat : Mapped(x) /\ Named(x) /\ x.n < dolly.n /\ x.n # dolly.n /\ x.n \in Nat
      /\ \A x, y \in InCat : Apart(x, y)
      /\ \A x \in InCat : Above(x.path) \subseteq Entered /\ (x.path \in opts.mask \/ ~ Hard(x))
      /\ \A k \in DOMAIN corres : Live(k)
      /\ UpTo(current_add) \subseteq Entered /\ UpTo(current_add) = Above(it.path)
  BY <1>1, ConflictLinked
<1>5. InCat' = InCat /\ Entered' = Entered  BY <1>1, <1>2, <1>3, SameTree DEF SameKinds
<1>6. /\ Sound(corres', NoDolly, InCat)
      /\ \A k \in DOMAIN corres' : \E x \in InCat : Hard(x) /\ x.i = corres'[k]
  BY <1>2, <1>3, <1>4, CleanIsSound
<1>7. \A x \in InCat : Mapped(x)' /\ Named(x)'  BY <1>6, SoundNodes
<1>8. NodesOK'  BY <1>1, <1>4, <1>5, <1>7 DEF NodesOK
<1>9. \A x \in InCat' : x.n <= Before' + pos'
  <2>1. \A n \in Nat : n <= Before + ent => n <= Before' + pos'  BY <1>1, <1>3, SolvedAhead
  <2>2. \A x \in InCat : x.n <= Before + ent
    <3>1. Before \in Nat /\ ent \in Nat  BY <1>1, ConflictLinked
    <3>. QED BY <1>4, <3>1
  <2>. QED BY <1>4, <1>5, <2>1, <2>2
<1>10. UpTo(current_add') \subseteq Entered'
  <2>1. CASE BothDirs /\ current_add' = it.path
    <3>1. it.path \in Entered  BY <1>2, <1>4, <2>1 DEF Entered, BothDirs, HereIsDir
    <3>2. UpTo(it.path) = Above(it.path) \cup {it.path}  BY <1>2, AboveIs
    <3>. QED BY <1>4, <1>5, <2>1, <3>1, <3>2
  <2>2. CASE UNCHANGED current_add  BY <1>4, <1>5, <2>2
  <2>. QED BY <1>3, <2>1, <2>2
<1>11. \A k \in DOMAIN corres' : Live(k)'  BY <1>5, <1>6 DEF Live, Hard
<1>. QED BY <1>3, <1>8, <1>9, <1>10, <1>11, BackLinked

\* What a removal leaves, of the tree and of the map.
LEMMA RemovalLinked ==
  ASSUME StepOK, LinkOK, pc = "apply", NEW m, NEW d, NEW inodes, SameKinds(ino, inodes),
         IF act.data = "remove" THEN d = NoDolly ELSE d = dolly,
         Sound(m, d, InCat), Removal(m, inodes)
  PROVE  /\ NodesOK' /\ Above(it.path) \subseteq Entered'
         /\ \A x \in InCat' : x.n < dolly.n /\ x.n \in Nat /\ (Gone(it.path, x) => ~ Hard(x))
         /\ \A k \in DOMAIN corres' : (\E x \in InCat' : Hard(x) /\ x.i = corres'[k]) \/ d.i = corres'[k]
         /\ d = dolly /\ Hard(d) => d.etiq \in DOMAIN corres'
         /\ PartOf(corres', corres) /\ UNCHANGED <<archs, opts>>
<1>1. /\ Typed /\ FilesLinked /\ dolly \in Nodes(Len(ino)) /\ it.path \in Seq(Names) \ {<<>>}
      /\ Here \in InCat /\ Here.path = it.path /\ current_add = Front(it.path)
  BY ConflictIs DEF InConflict
<1>2. /\ Mapped(dolly) /\ Named(dolly) /\ it.path \in opts.mask
      /\ \A x \in InCat : Mapped(x) /\ Named(x) /\ x.n < dolly.n /\ x.n # dolly.n /\ x.n \in Nat
      /\ \A x, y \in InCat : Apart(x, y)
      /\ \A x \in InCat : Above(x.path) \subseteq Entered /\ (x.path \in opts.mask \/ ~ Hard(x))
      /\ UpTo(current_add) \subseteq Entered /\ UpTo(current_add) = Above(it.path)
  BY ConflictLinked DEF InConflict
<1>3. PartOf(m, corres)  BY DEF Sound
<1>. DEFINE S == {x \in InCat : ~ Gone(it.path, x)}
            E == IF HereIsDir /\ opts.emptydir THEN {Emptied(Here, inodes)} ELSE {}
<1>4. /\ \A k \in 1..Len(ino) : ino'[k].type = ino[k].type
      /\ InCat' = S \cup E /\ Len(inodes) = Len(ino)
      /\ PartOf(corres', corres)
  BY <1>3, RemovalIs DEF Gone
<1>5. UNCHANGED <<archs, opts>> /\ corres' = MapLeft(m)  BY DEF Removal, source, MapLeft
<1>6. HereIsDir \/ Here.path \notin Entered
  BY <1>1, <1>2 DEF Entered, Apart, HereIsDir
<1>7. Sound(corres', d, S)
  BY <1>1, <1>2, <1>5, <1>6, LeftIsSound
<1>8. \A x \in S : Mapped(x)' /\ Named(x)'  BY <1>7, SoundNodes
<1>9. /\ \A x \in S : Above(x.path) \subseteq Entered'
      /\ Above(it.path) \subseteq Entered'
  BY <1>1, <1>2, <1>4, <1>5, TreeStays
<1>10. ASSUME NEW e \in E
       PROVE  /\ e.path = it.path /\ ~ Hard(e) /\ e.n < dolly.n /\ e.n \in Nat
              /\ \A x \in S : x.n # e.n /\ x.path # e.path
              /\ Mapped(e)' /\ Named(e)'
  <2>1. HereIsDir /\ e = [Here EXCEPT !.i = Len(inodes) + 1]  BY DEF Emptied
  <2>2. Here \in Nodes(Len(ino))  BY <1>1, NodeIs
  <2>3. e.path = it.path /\ e.n = Here.n /\ e.etiq = Here.etiq /\ e.i = Len(ino) + 1
    BY <1>1, <1>4, <2>1, <2>2 DEF Nodes
  <2>4. ~ Hard(Here)
    <3>1. \A k \in DOMAIN corres : corres[k] # Here.i
      BY <2>1 DEF HereIsDir, IsDirAt, FilesLinked, StepOK
    <3>. QED BY <1>1, <1>2, <3>1 DEF Mapped
  <2>5. ~ Hard(e)  BY <2>3, <2>4 DEF Hard
  <2>6. Here \notin S  BY <1>1 DEF Gone
  <2>7. \A x \in S : x.n # e.n /\ x.path # e.path  BY <1>1, <1>2, <2>3, <2>6 DEF Apart, Gone
  <2>8. Mapped(e)'  BY <2>5 DEF Mapped, Hard
  <2>9. Named(e)'
    <3>1. \A k \in DOMAIN corres' : corres'[k] \in 1..Len(ino)  BY <1>1, <1>4 DEF PartOf, FilesLinked
    <3>2. Len(ino) \in Nat  BY <1>1 DEF Typed
    <3>3. \A k \in DOMAIN corres' : corres'[k] # e.i  BY <2>3, <3>1, <3>2
    <3>. QED BY <3>3 DEF Named
  <2>. QED BY <1>1, <1>2, <2>3, <2>5, <2>7, <2>8, <2>9
<1>11. \A x, y \in E : x = y  OBVIOUS
<1>. HIDE DEF E
<1>12. \A x, y \in InCat' : Apart(x, y)
  <2>1. \A x, y \in S : Apart(x, y)  BY <1>2
  <2>. QED BY <1>4, <1>10, <1>11, <2>1 DEF Apart
<1>13. \A x \in InCat' : Above(x.path) \subseteq Entered' /\ (x.path \in opts'.mask \/ ~ Hard(x))
  <2>1. \A x \in S : Above(x.path) \subseteq Entered' /\ (x.path \in opts'.mask \/ ~ Hard(x))
    BY <1>2, <1>5, <1>9
  <2>2. \A x \in E : Above(x.path) \subseteq Entered' /\ ~ Hard(x)  BY <1>9, <1>10
  <2>. QED BY <1>4, <2>1, <2>2
<1>14. \A x \in InCat' : Mapped(x)' /\ Named(x)'  BY <1>4, <1>8, <1>10
<1>15. NodesOK'
  <2>1. \A x : Hard(x)' = Hard(x)  BY DEF Hard
  <2>. QED BY <1>12, <1>13, <1>14, <2>1 DEF NodesOK
<1>16. \A x \in InCat' : x.n < dolly.n /\ x.n \in Nat /\ (Gone(it.path, x) => ~ Hard(x))
  <2>1. \A x \in S : x.n < dolly.n /\ x.n \in Nat /\ (Gone(it.path, x) => ~ Hard(x))  BY <1>2
  <2>. QED BY <1>4, <1>10, <2>1
<1>17. \A k \in DOMAIN corres' : (\E x \in InCat' : Hard(x) /\ x.i = corres'[k]) \/ d.i = corres'[k]
  <2>1. \A k \in DOMAIN corres' : (\E x \in S : Hard(x) /\ x.i = corres'[k]) \/ d.i = corres'[k]
    BY <1>7 DEF Sound
  <2>. QED BY <1>4, <2>1
<1>18. d = dolly /\ Hard(d) => d.etiq \in DOMAIN corres'
  BY <1>7 DEF Sound, NoDolly, Hard
<1>. QED BY <1>4, <1>5, <1>9, <1>15, <1>16, <1>17, <1>18

\* The entry in place is removed with all it holds, and the clone is destroyed:
\* what they were the last links of leaves the map.
LEMMA RemoveLinked ==
  ASSUME StepOK, StatsOK, LinkOK, Remove, st'.errored = 0 PROVE LinkOK'
<1>1. /\ pc = "apply" /\ pc \in InConflict /\ act.data = "remove" /\ dolly' = NoDolly
  BY DEF Remove, InConflict
<1>2. Removal(Clean(dolly), ino) /\ Leave /\ pc' = "read"
  <2>1. Left.fails => CountedError  BY ErrorIs, LeftIs DEF Remove, CountedError, StatsOK
  <2>. QED BY <2>1 DEF Remove, CountedError
<1>3. /\ Typed /\ FilesLinked /\ dolly \in Nodes(Len(ino)) /\ current_add = Front(it.path)
  BY <1>1, ConflictIs
<1>4. /\ Mapped(dolly) /\ Named(dolly) /\ dolly.n = Before + ent /\ Before \in Nat /\ ent \in Nat
      /\ \A x \in InCat : Mapped(x) /\ Named(x) /\ x.n # dolly.n
      /\ \A k \in DOMAIN corres : Live(k)
      /\ UpTo(current_add) = Above(it.path)
  BY <1>1, ConflictLinked
<1>5. Sound(Clean(dolly), NoDolly, InCat)  BY <1>3, <1>4, CleanIsSound
<1>6. SameKinds(ino, ino)  BY <1>3 DEF Typed, SameKinds
<1>7. /\ NodesOK' /\ Above(it.path) \subseteq Entered'
      /\ \A x \in InCat' : x.n < dolly.n /\ x.n \in Nat
      /\ \A k \in DOMAIN corres' : (\E x \in InCat' : Hard(x) /\ x.i = corres'[k]) \/ NoDolly.i = corres'[k]
      /\ UNCHANGED <<archs, opts>>
  BY <1>1, <1>2, <1>5, <1>6, RemovalLinked
<1>8. current_add' = current_add  BY <1>2 DEF Removal
<1>9. \A x \in InCat' : x.n <= Before' + pos'
  <2>1. \A n \in Nat : n <= Before + ent => n <= Before' + pos'  BY <1>1, <1>2, <1>7, SolvedAhead
  <2>2. \A x \in InCat' : x.n <= Before + ent  BY <1>4, <1>7
  <2>. QED BY <1>7, <2>1, <2>2
<1>10. \A k \in DOMAIN corres' : Live(k)'  BY <1>1, <1>7 DEF Live, Hard
<1>. QED BY <1>1, <1>2, <1>4, <1>7, <1>8, <1>9, <1>10, BackLinked

\* The clone replaces the entry: what that entry held the last links of leaves
\* the map, and the clone is to be added.
LEMMA OverwriteLinked ==
  ASSUME StepOK, StatsOK, LinkOK, Overwrite, pc' # "end", st'.errored = 0 PROVE LinkOK'
<1>1. pc = "apply" /\ pc \in InConflict /\ act.data # "remove" /\ UNCHANGED opts
  <2>1. UNCHANGED opts \/ \E s, inodes : Abandon(s, inodes) \/ Removal(corres, inodes)
    BY DEF Overwrite, source
  <2>. QED BY <2>1 DEF Overwrite, InConflict, Abandon, Removal, source
<1>2. PICK inodes :
           /\ SameKinds(ino, inodes)
           /\ IF BothDirs
              THEN /\ ino' = [inodes EXCEPT ![Here.i] = inodes[dolly.i]]
                   /\ current_add' = it.path
                   /\ dolly' = NoDolly /\ pc' = "read"
                   /\ UNCHANGED <<archs, cat, corres, reader, current_read>>
              ELSE /\ Removal(corres, inodes) /\ pc' = "add"
                   /\ UNCHANGED <<reader, dolly>>
  BY OverwriteIs
<1>3. /\ Typed /\ FilesLinked /\ dolly \in Nodes(Len(ino)) /\ current_add = Front(it.path)
      /\ it.path \in Seq(Names) \ {<<>>} /\ Here \in InCat /\ Here.path = it.path
      /\ Here.i \in 1..Len(ino) /\ dolly.i \in 1..Len(ino) /\ (IsDirAt(dolly) <=> EntryIsDir)
  BY <1>1, ConflictIs
<1>4. /\ Mapped(dolly) /\ Named(dolly) /\ dolly.n = Before + ent /\ Before \in Nat /\ ent \in Nat
      /\ it.path \in opts.mask
      /\ \A x \in InCat : Mapped(x) /\ Named(x) /\ x.n # dolly.n /\ x.n < dolly.n /\ x.n \in Nat
      /\ \A k \in DOMAIN corres : Live(k)
      /\ UpTo(current_add) \subseteq Entered /\ UpTo(current_add) = Above(it.path)
  BY <1>1, ConflictLinked
<1>5. CASE BothDirs
  <2>1. \A k \in 1..Len(ino) : ino'[k].type = ino[k].type
    <3>1. ino[dolly.i].type = "dir" /\ ino[Here.i].type = "dir"
      BY <1>3, <1>5 DEF BothDirs, HereIsDir, IsDirAt
    <3>. QED BY <1>2, <1>3, <1>5, <3>1 DEF SameKinds
  <2>2. NodesOK' /\ InCat' = InCat /\ Entered' = Entered  BY <1>1, <1>2, <1>3, <1>5, <2>1, NodesStill
  <2>3. UpTo(current_add') \subseteq Entered'
    <3>1. it.path \in Entered  BY <1>3, <1>4, <1>5 DEF Entered, BothDirs, HereIsDir
    <3>2. UpTo(it.path) = Above(it.path) \cup {it.path}  BY <1>3, AboveIs
    <3>. QED BY <1>2, <1>4, <1>5, <2>2, <3>1, <3>2
  <2>4. \A x \in InCat' : x.n <= Before' + pos'
    <3>1. \A n \in Nat : n <= Before + ent => n <= Before' + pos'  BY <1>1, <1>2, <1>5, SolvedAhead
    <3>2. \A x \in InCat : x.n <= Before + ent  BY <1>4
    <3>. QED BY <1>4, <2>2, <3>1, <3>2
  <2>5. \A k \in DOMAIN corres' : Live(k)'
    <3>1. IsDirAt(dolly)  BY <1>3, <1>5 DEF BothDirs
    <3>2. \A k \in DOMAIN corres : dolly.i # corres[k]  BY <1>3, <3>1 DEF FilesLinked, IsDirAt
    <3>. QED BY <1>2, <1>4, <1>5, <2>2, <3>2 DEF Live, Hard
  <2>. QED BY <1>2, <1>5, <2>2, <2>3, <2>4, <2>5, BackLinked
<1>6. CASE ~ BothDirs
  <2>1. /\ Removal(corres, inodes) /\ pc' = "add" /\ dolly' = dolly /\ current_add' = current_add
        /\ UNCHANGED <<index, ent>>
    BY <1>2, <1>6 DEF reader, Removal
  <2>2. Sound(corres, dolly, InCat)  BY <1>4 DEF Sound, PartOf, Live, Mapped
  <2>3. /\ NodesOK' /\ Above(it.path) \subseteq Entered'
        /\ \A x \in InCat' : x.n < dolly.n /\ x.n \in Nat /\ (Gone(it.path, x) => ~ Hard(x))
        /\ \A k \in DOMAIN corres' : (\E x \in InCat' : Hard(x) /\ x.i = corres'[k]) \/ dolly.i = corres'[k]
        /\ Hard(dolly) => dolly.etiq \in DOMAIN corres'
        /\ PartOf(corres', corres) /\ UNCHANGED <<archs, opts>>
    BY <1>1, <1>2, <2>1, <2>2, RemovalLinked
  <2>4. it' = it /\ Before' = Before  BY <2>1, <2>3 DEF it, Before
  <2>5. CatOK'
    BY <1>4, <2>1, <2>3, <2>4 DEF CatOK, NodesOK, InConflict, Hard
  <2>6. Mapped(dolly)'
    <3>1. Hard(dolly) => /\ dolly.etiq \in DOMAIN corres' /\ corres'[dolly.etiq] = corres[dolly.etiq]
                         /\ corres[dolly.etiq] = dolly.i
      BY <1>4, <2>3 DEF Mapped, PartOf
    <3>. QED BY <2>1, <3>1 DEF Mapped, Hard
  <2>7. Named(dolly)'  BY <1>4, <2>1, <2>3 DEF Named, PartOf
  <2>8. \A k \in DOMAIN corres' : Live(k)'  BY <2>1, <2>3 DEF Live, Hard
  <2>9. MapOK'  BY <2>1, <2>3, <2>6, <2>7, <2>8 DEF MapOK, NodesOK, InConflict
  <2>. QED BY <2>5, <2>9 DEF LinkOK
<1>. QED BY <1>5, <1>6

\* The clone nobody wants is destroyed.
LEMMA EraseLinked ==
  ASSUME StepOK, LinkOK, Erase PROVE LinkOK'
<1>. DEFINE y == [InodeOf(it) EXCEPT !.type = "detruit", !.saved = "none", !.ea = "none",
                                     !.eas = {}, !.id = "detruit"]
<1>1. /\ pc = "new" /\ pc' = "add" /\ Leave /\ corres' = Clean(dolly) /\ ino' = Append(ino, y)
      /\ dolly' = [dolly EXCEPT !.i = Len(ino) + 1, !.etiq = 0]
      /\ UNCHANGED <<archs, opts, cat, current_add>>
  BY DEF Erase, source, cursors
<1>2. /\ Typed /\ FilesLinked /\ Reader /\ dolly \in Nodes(Len(ino)) /\ it.type # "eod"
      /\ it.path \in Seq(Names) \ {<<>>} /\ dolly.path = it.path
  BY <1>1, NewIs
<1>3. /\ Mapped(dolly) /\ Named(dolly) /\ dolly.n = Before + ent /\ it.path \in opts.mask
      /\ \A x \in InCat : Mapped(x) /\ Named(x) /\ x.n < dolly.n /\ x.n # dolly.n
      /\ \A x, z \in InCat : Apart(x, z)
      /\ \A x \in InCat : Above(x.path) \subseteq Entered /\ (x.path \in opts.mask \/ ~ Hard(x))
      /\ \A k \in DOMAIN corres : Live(k)
      /\ UpTo(current_add) \subseteq Entered
  BY <1>1, ConflictLinked
<1>4. \A x \in InCat : Gone(it.path, x) => ~ Hard(x)
  <2>1. ~ Holds(it.path)  BY <1>1 DEF LinkOK, CatOK
  <2>. QED BY <1>2, <2>1, NotHeld
<1>5. Len(ino) \in Nat /\ \A k \in 1..Len(ino) : ino'[k].type = ino[k].type
  <2>1. ino \in Seq(Inodes)  BY <1>2 DEF Typed
  <2>2. \A k \in 1..Len(ino) : ino'[k] = ino[k]
    <3>. HIDE DEF y
    <3>. QED BY <1>1, <2>1
  <2>. QED BY <2>1, <2>2
<1>6. InCat' = InCat /\ Entered' = Entered  BY <1>1, <1>2, <1>5, SameTree
<1>7. /\ Sound(corres', NoDolly, InCat)
      /\ \A k \in DOMAIN corres' : \E x \in InCat : Hard(x) /\ x.i = corres'[k]
  BY <1>1, <1>2, <1>3, CleanIsSound
<1>8. \A x \in InCat : Mapped(x)' /\ Named(x)'  BY <1>7, SoundNodes
<1>9. dolly'.etiq = 0 /\ dolly'.i = Len(ino) + 1 /\ dolly'.n = dolly.n
  BY <1>1, <1>2 DEF Nodes
<1>10. index' = index /\ ent' = ent  BY <1>1 DEF Leave
<1>11. it' = it /\ Before' = Before  BY <1>1, <1>10 DEF it, Before
<1>12. CatOK'
  BY <1>1, <1>3, <1>4, <1>6, <1>9, <1>10, <1>11 DEF CatOK, InConflict, Hard
<1>13. Mapped(dolly)' /\ Named(dolly)'
  <2>1. \A k \in DOMAIN corres' : corres'[k] \in 1..Len(ino)
    BY <1>2, <1>7 DEF Sound, PartOf, FilesLinked
  <2>2. \A k \in DOMAIN corres' : corres'[k] # dolly'.i  BY <1>5, <1>9, <2>1
  <2>. QED BY <1>9, <2>2 DEF Mapped, Named, Hard
<1>14. \A k \in DOMAIN corres' : Live(k)'  BY <1>6, <1>7 DEF Live, Hard
<1>15. MapOK'  BY <1>1, <1>6, <1>8, <1>13, <1>14 DEF MapOK, InConflict
<1>. QED BY <1>12, <1>15 DEF LinkOK

\* The clone takes its place in the catalogue, and with it its etiquette.
LEMMA AddLinked ==
  ASSUME StepOK, LinkOK, Add, pc' # "end" PROVE LinkOK'
<1>1. pc \in {"new", "add"}  BY DEF Add
<1>2. /\ Typed /\ FilesLinked /\ dolly \in Nodes(Len(ino)) /\ dolly.path = it.path
      /\ it.path \in Seq(Names) \ {<<>>} /\ Reader
  BY <1>1, NewIs
<1>3. /\ Mapped(dolly) /\ Named(dolly) /\ dolly.n = Before + ent /\ Before \in Nat /\ ent \in Nat
      /\ it.path \in opts.mask
      /\ \A x \in InCat : x.n < dolly.n /\ x.n \in Nat
      /\ \A k \in DOMAIN corres : Live(k)
      /\ UpTo(current_add) \subseteq Entered /\ UpTo(current_add) = Above(it.path)
  BY <1>1, ConflictLinked
<1>4. /\ cat' = AddChild(dolly) /\ pc' = "read" /\ dolly' = NoDolly
      /\ current_add' = IF IsDirAt(dolly) THEN dolly.path ELSE current_add
      /\ UNCHANGED <<archs, opts, ino, corres, index, pos, ent>>
  BY DEF Add, Stop, source, reader
<1>5. InCat' = {x \in InCat : ~ Gone(dolly.path, x)} \cup {dolly}
  <2>. DEFINE S == InCat \cup {dolly}
  <2>1. cat \in Seq(S)
    <3>1. cat \in Seq(InCat)  BY <1>2 DEF Typed, InCat
    <3>. QED BY <3>1
  <2>2. Elements(AddChild(dolly)) = {x \in InCat : ~ (x.path = dolly.path \/ Below(dolly.path, x.path))} \cup {dolly}
    BY <2>1, AddChildIs
  <2>. QED BY <1>4, <2>2 DEF InCat, Elements, Gone
<1>6. \A x \in InCat : Gone(dolly.path, x) => ~ Hard(x)
  <2>1. CASE pc = "new"
    <3>1. ~ Holds(it.path)  BY <2>1 DEF LinkOK, CatOK
    <3>. QED BY <1>2, <3>1, NotHeld
  <2>2. CASE pc = "add"  BY <1>2, <2>2 DEF LinkOK, CatOK
  <2>. QED BY <1>1, <2>1, <2>2
<1>7. dolly.n \in Nat /\ dolly.i \in 1..Len(ino)  BY <1>2 DEF Nodes
<1>8. \A k \in DOMAIN corres : (\E x \in InCat : Hard(x) /\ x.i = corres[k]) \/ dolly.i = corres[k]
  BY <1>3 DEF Live
<1>9. /\ NodesOK' /\ Above(dolly.path) \subseteq Entered'
      /\ IsDirAt(dolly) => dolly.path \in Entered'
      /\ \A k \in DOMAIN corres' : \E x \in InCat' : Hard(x) /\ x.i = corres'[k]
  <2>. DEFINE n == dolly
  <2>1. /\ n.path \in Seq(Names) \ {<<>>} /\ InCat' = {x \in InCat : ~ Gone(n.path, x)} \cup {n}
        /\ Above(n.path) \subseteq Entered /\ n.path \in opts.mask
        /\ Mapped(n) /\ Named(n) /\ n.n \in Nat
        /\ \A x \in InCat : x.n < n.n
        /\ \A x \in InCat : Gone(n.path, x) => ~ Hard(x)
        /\ \A k \in DOMAIN corres : (\E x \in InCat : Hard(x) /\ x.i = corres[k]) \/ n.i = corres[k]
    BY <1>2, <1>3, <1>5, <1>6, <1>7, <1>8
  <2>2. PICK d : d = dolly  OBVIOUS
  <2>3. /\ NodesOK' /\ Above(d.path) \subseteq Entered'
        /\ IsDirAt(d)' /\ d.path \in opts.mask => d.path \in Entered'
        /\ \A k \in DOMAIN corres' : \E x \in InCat' : Hard(x) /\ x.i = corres'[k]
    BY <1>2, <1>4, <2>1, <2>2, AddedLinked
  <2>4. IsDirAt(d)' = IsDirAt(d)  BY <1>4 DEF IsDirAt
  <2>. QED BY <2>1, <2>2, <2>3, <2>4
<1>10. UpTo(current_add') \subseteq Entered'
  <2>1. UpTo(it.path) = Above(it.path) \cup {it.path}  BY <1>2, AboveIs
  <2>. QED BY <1>2, <1>3, <1>4, <1>9, <2>1
<1>11. \A x \in InCat' : x.n <= Before' + pos'
  <2>1. Before' = Before /\ pos' = pos  BY <1>4 DEF Before
  <2>2. ent \in 1..pos /\ pos \in Nat  BY <1>1, <1>2 DEF Reader, Selecting, AtEntry, Typed
  <2>3. dolly.n <= Before + pos  BY <1>3, <2>2
  <2>4. \A x \in InCat : x.n <= Before + pos  BY <1>3, <2>2
  <2>. QED BY <1>5, <2>1, <2>3, <2>4
<1>12. \A k \in DOMAIN corres' : Live(k)'  BY <1>9 DEF Live, Hard
<1>. QED BY <1>4, <1>9, <1>10, <1>11, <1>12, BackLinked

-----------------------------------------------------------------------------
(* The map designates what is linked: the invariant, and the property. *)

\* A merging starts with an empty catalogue and an empty map.
THEOREM MapInit == Init => MapInv
<1>1. ASSUME Init PROVE MapInv
  <2>1. cat = <<>> /\ pc = "read" /\ dolly = NoDolly /\ DOMAIN corres = {} /\ current_add = <<>>
    BY <1>1 DEF Init
  <2>2. InCat = {} /\ UpTo(current_add) = {}  BY <2>1 DEF InCat, UpTo
  <2>. QED BY <2>1, <2>2 DEF MapInv, CatOK, MapOK, InConflict
<1>. QED BY <1>1

\* Every step keeps the map and the links together.
THEOREM MapNext == StepInv /\ StepInv' /\ MapInv /\ [Next]_vars => MapInv'
<1>. SUFFICES ASSUME StepInv, StepInv', MapInv, [Next]_vars, Sane' PROVE LinkOK'
  BY DEF MapInv, LinkOK
<1>1. StatsOK /\ (st'.errored = 0 => st.errored = 0)
  BY ErrorsStay DEF StepInv, Counted
<1>2. st'.errored = 0 /\ pc' # "end" /\ StepOK'  BY DEF Sane, StepInv, StepOK
<1>3. CASE UNCHANGED vars
  <2>1. UNCHANGED <<archs, opts, index, pos, ent, offset, juillet, cat, ino, corres, current_add, st,
                    dolly, pc>>
    BY <1>3 DEF vars, source, result, reader, cursors, clone
  <2>2. Sane /\ LinkOK  BY <1>2, <2>1 DEF Sane, MapInv, LinkOK
  <2>3. it' = it /\ Before' = Before /\ InCat' = InCat /\ Entered' = Entered
    BY <2>1 DEF it, Before, InCat, Entered, IsDirAt
  <2>4. CatOK'  BY <2>1, <2>2, <2>3 DEF LinkOK, CatOK, Holds
  <2>5. MapOK'  BY <2>1, <2>2, <2>3 DEF LinkOK, MapOK, Mapped, Named, Live, Hard
  <2>. QED BY <2>4, <2>5 DEF LinkOK
<1>4. CASE Next
  <2>1. pc # "end"
    BY <1>4 DEF Next, ReadNext, NextArchive, Selected, CancelSelection, LeaveDirectory, Exclude,
         CloneEntry, Judge, ChooseData, ChooseEA, Refuse, Unreadable, LoseDirectory, Preserve,
         Remove, Overwrite, Erase, Add, CopyNext, CopyFails, CancelCopy, Merged
  <2>2. StepOK /\ LinkOK  BY <1>1, <1>2, <2>1 DEF StepInv, StepOK, Sane, MapInv, LinkOK
  <2>4. CASE ReadNext  BY <2>2, <2>4, ReadNextLinked
  <2>5. CASE NextArchive  BY <2>2, <2>5, NextArchiveLinked
  <2>6. CASE Selected \/ CancelSelection \/ CopyNext  BY <1>2, <2>2, <2>6, CopyLinked
  <2>7. CASE LeaveDirectory  BY <1>2, <2>2, <2>7, LeaveDirectoryLinked
  <2>8. CASE Exclude  BY <2>2, <2>8, ExcludeLinked
  <2>9. CASE CloneEntry  BY <1>2, <2>2, <2>9, CloneEntryLinked
  <2>10. CASE Judge \/ ChooseData \/ ChooseEA  BY <2>2, <2>10, JudgeLinked
  <2>11. CASE Refuse \/ Unreadable \/ LoseDirectory  BY <1>1, <1>2, <2>2, <2>11, FailureCounts
  <2>12. CASE Preserve  BY <1>1, <1>2, <2>2, <2>12, PreserveLinked
  <2>13. CASE Remove  BY <1>1, <1>2, <2>2, <2>13, RemoveLinked
  <2>14. CASE Overwrite  BY <1>1, <1>2, <2>2, <2>14, OverwriteLinked
  <2>15. CASE Erase  BY <2>2, <2>15, EraseLinked
  <2>16. CASE Add  BY <1>2, <2>2, <2>16, AddLinked
  <2>17. CASE CopyFails \/ CancelCopy \/ Merged
    BY <1>2, <2>17 DEF CopyFails, CancelCopy, Merged, Stop
  <2>. QED BY <1>4, <2>4, <2>5, <2>6, <2>7, <2>8, <2>9, <2>10, <2>11, <2>12, <2>13, <2>14, <2>15,
              <2>16, <2>17 DEF Next
<1>. QED BY <1>3, <1>4

\* Both invariants hold of every merging, until an error.
THEOREM LinksKept == MergeSpec => [](StepInv /\ MapInv)
<1>1. Init => StepInv /\ MapInv  BY StepInit, MapInit
<1>2. StepInv /\ MapInv /\ [Next]_vars => (StepInv /\ MapInv)'  BY StepNext, MapNext
<1>. QED BY <1>1, <1>2, PTL DEF MergeSpec

\* An inode the map keeps has a link in the catalogue, whatever was removed or
\* replaced: no etiquette designates an inode that was destroyed.
THEOREM MapTheorem == MergeSpec => []MapIsLive
<1>1. StepInv /\ MapInv => MapIsLive
  <2>. SUFFICES ASSUME StepInv, MapInv, pc \in {"read", "copy"}, st.errored = 0
                PROVE  /\ \A e \in DOMAIN corres : pc = "read" => \E k \in DOMAIN cat : Hard(cat[k]) /\ cat[k].i = corres[e]
                       /\ \A k \in DOMAIN cat : Hard(cat[k]) => cat[k].etiq \in DOMAIN corres /\ corres[cat[k].etiq] = cat[k].i
    BY DEF MapIsLive
  <2>1. FilesLinked /\ MapOK  BY DEF StepInv, MapInv, Sane
  <2>2. ASSUME NEW e \in DOMAIN corres, pc = "read"
        PROVE  \E k \in DOMAIN cat : Hard(cat[k]) /\ cat[k].i = corres[e]
    <3>1. Live(e) /\ dolly.i # corres[e]
      BY <2>1, <2>2 DEF MapOK, NoDolly, FilesLinked, Selecting
    <3>. QED BY <3>1 DEF Live, InCat
  <2>3. ASSUME NEW k \in DOMAIN cat, Hard(cat[k])
        PROVE  cat[k].etiq \in DOMAIN corres /\ corres[cat[k].etiq] = cat[k].i
    <3>1. Mapped(cat[k])  BY <2>1 DEF MapOK, InCat
    <3>. QED BY <2>3, <3>1 DEF Mapped
  <2>. QED BY <2>2, <2>3
<1>. QED BY <1>1, LinksKept, PTL

\* No clone is made from the inode of a link that was destroyed.
NeverDangles == pc = "filter" /\ st.errored = 0 /\ it.type # "eod" => ~ Dangling

\* A link of a known etiquette is made to an inode that is still there.
THEOREM DanglingTheorem == MergeSpec => []NeverDangles
<1>1. StepInv /\ MapInv => NeverDangles
  <2>. SUFFICES ASSUME StepInv, MapInv, pc = "filter", st.errored = 0, Dangling PROVE FALSE
    BY DEF NeverDangles
  <2>1. FilesLinked /\ MapOK  BY DEF StepInv, MapInv, Sane
  <2>2. Key(it) \in DOMAIN corres /\ \A k \in DOMAIN cat : cat[k].i # corres[Key(it)]
    BY DEF Dangling, IsNewInode
  <2>3. Live(Key(it)) /\ dolly.i # corres[Key(it)]
    BY <2>1, <2>2 DEF MapOK, NoDolly, FilesLinked, Selecting, AtEntry
  <2>. QED BY <2>2, <2>3 DEF Live, InCat
<1>. QED BY <1>1, LinksKept, PTL
=============================================================================
