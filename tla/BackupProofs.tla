---------------------------- MODULE BackupProofs ----------------------------
(***************************************************************************)
(* What every backup keeps true, of any tree of paths, whatever its users  *)
(* change meanwhile, whatever cannot be read and wherever it is            *)
(* interrupted:                                                            *)
(*  - the reading of the tree, the walk of the reference and the catalogue *)
(*    being built are in the same directory (InStep);                      *)
(*  - a name recorded as removed was not there, or could not be read, at   *)
(*    some moment of the backup (RemovedWasAbsent): a name the catalogue   *)
(*    does not have, below directories that it has, is still to be read    *)
(*    or is being saved (Covered);                                         *)
(*  - a copy not marked dirty is of one version (CopiesAreConsistent): the *)
(*    date of the file is read again after its data, and users who write   *)
(*    in between leave a later one (CopyOK).                               *)
(***************************************************************************)
EXTENDS Backup, SequenceTheorems, FunctionTheorems, FiniteSetTheorems, WellFoundedInduction, TLAPS

\* The names paths are made of.
Component == UNION {ToSet(p) : p \in Path}

Matching(data, date) == data[1] = data[2] /\ (AlterAtime => data[1] = date)
Consistent(i) == i.saved /\ ~i.dirty /\ i.sure => Matching(i.data, i.mtime)

\* What the users do: dates go up, and none is later than the clock.
UsersOK ==
  /\ disk \in [Path -> Inode \cup {"none", "dir"}]
  /\ version \in [Inode -> Nat] /\ mtime \in [Inode -> Nat] /\ clock \in Nat
  /\ \A i \in Inode : version[i] <= clock /\ mtime[i] <= clock
  /\ AlterAtime => mtime = version

Copies == [fd : Inode \cup {"none"}, data : Seq(Nat), repeat : Nat, dirty : BOOLEAN]
Stars == [mtime : Nat, saved : BOOLEAN, data : Seq(Nat), dirty : BOOLEAN, mirage : BOOLEAN,
          wrote : BOOLEAN, sure : BOOLEAN]

\* What every archive keeps of the files it names.
ArchivesOK ==
  /\ archives \in Seq({archives[k] : k \in DOMAIN archives})
  /\ \A k \in DOMAIN archives :
       /\ DOMAIN archives[k].cat \subseteq Path
       /\ \A s \in DOMAIN archives[k].etoile : Consistent(archives[k].etoile[s])

\* An entry has been read and is not in the catalogue yet.
Busy == pc \notin {"idle", "read"}

\* The directory the catalogue is in: that of the entry.
Where == IF Busy /\ e.dir THEN Front(current_dir) ELSE current_dir

Opened(c, d) == d = <<>> \/ (d \in DOMAIN c /\ c[d].kind = "dir")

\* The names still to be read, and their directories, one level each.
Waiting(w) == {p \in Path : \E n \in 1..Len(w) : p \in w[n]}
Levels(w, d) ==
  /\ w \in Seq(SUBSET Path) /\ Len(w) = Len(d) + 1
  /\ \A n \in 1..Len(w) : \A p \in w[n] : Front(p) = SubSeq(d, 1, n - 1)

\* The reading of the tree: what is still to be read has not been met before.
WalkOK ==
  /\ current_dir \in Dir
  /\ Levels(pile, current_dir)
  /\ Waiting(pile) \cap (DOMAIN cat \cup DOMAIN etoile) = {}
  /\ Opened(cat, Where)

EntryOK ==
  Busy =>
    /\ e.path \in Path /\ Front(e.path) = Where
    /\ e.path \notin DOMAIN cat /\ e.path \notin Waiting(pile)
    /\ e.dir \in BOOLEAN
    /\ e.dir => pc = "entry" /\ current_dir = e.path
    /\ ~e.dir => e.star \in DOMAIN etoile

\* The three cursors, in terms of the entry.
NotADirectory(p) == p \in DOMAIN Reference.cat => Reference.cat[p].kind # "dir"
CursorsOK ==
  /\ current_add = Where
  /\ current_compare \in Seq(Component) /\ out_compare \in Seq(Component)
  /\ current_compare \o out_compare = Where
  /\ out_compare # <<>> => NotADirectory(Append(current_compare, Head(out_compare)))

\* The catalogue is a tree, the inodes of its files have been recorded.
TreeOK ==
  \A p \in DOMAIN cat : /\ p \in Path /\ Reached(cat, p)
                        /\ cat[p].kind \in {"dir", "file", "ignored", "ignored_dir"}
InodesOK ==
  /\ \A p \in DOMAIN cat :
       cat[p].kind = "file" => cat[p].star \in DOMAIN etoile /\ etoile[cat[p].star].wrote
  /\ \A s \in DOMAIN etoile :
       /\ s \in Path /\ Reached(cat, s)
       /\ etoile[s] \in Stars /\ etoile[s].mtime <= clock
       /\ etoile[s].wrote => Consistent(etoile[s])
  /\ \A i \in DOMAIN corres_read : corres_read[i].star \in DOMAIN etoile

\* What the catalogue does not have, and should, is still to come.
Covered ==
  /\ \A p \in Path : Reached(cat, p) /\ p \notin DOMAIN cat /\ p \notin hidden =>
                       p \in Waiting(pile) \/ (Busy /\ p = e.path)
  /\ Busy /\ e.dir => \A p \in Path : Front(p) = e.path /\ p \notin hidden => p \in Last(pile)
  /\ \A p \in Path : disk[p] = "none" => p \in hidden

\* The copy being made: a file written to since its date was recorded has a
\* later one, as long as its name is still its own.
Copied(n) == copying.data[n] = version[copying.fd]
Later == mtime[copying.fd] > etoile[e.star].mtime
Own == copying.fd \in Inode /\ (sure => disk[e.path] = copying.fd)

CopyOK ==
  /\ pc \in {"open", "copy", "check", "date"} => ~e.dir /\ ~etoile[e.star].wrote
  /\ pc \in {"copy", "check"} => Own
  /\ pc = "copy" => Len(copying.data) = 1 /\ (sure => Copied(1) \/ Later)
  /\ pc = "check" => Len(copying.data) = 2 /\ (sure => (Copied(1) /\ Copied(2)) \/ Later)
  /\ pc = "date" /\ copying.data # <<>> /\ ~copying.dirty /\ sure =>
       Matching(copying.data, etoile[e.star].mtime)

BackupOK == WalkOK /\ EntryOK /\ CursorsOK /\ TreeOK /\ InodesOK /\ Covered /\ CopyOK

IInv == /\ UsersOK /\ ArchivesOK
        /\ copying \in Copies /\ sure \in BOOLEAN
        /\ pc \in {"idle", "read", "entry", "open", "copy", "check", "date"}
        /\ pc # "idle" => BackupOK
-----------------------------------------------------------------------------
(* Paths *)

\* The front and the last element of a sequence.
LEMMA FrontLast ==
  ASSUME NEW S, NEW s \in Seq(S), s # <<>>
  PROVE  /\ Front(s) \in Seq(S) /\ Len(Front(s)) = Len(s) - 1 /\ Len(s) \in Nat \ {0}
         /\ \A n \in 1..(Len(s) - 1) : Front(s)[n] = s[n]
         /\ Last(s) \in S /\ s = Append(Front(s), Last(s))
         /\ \A n \in 0..(Len(s) - 1) : SubSeq(Front(s), 1, n) = SubSeq(s, 1, n)
<1>1. Len(s) \in Nat /\ Len(s) # 0
  <2>1. Len(s) \in Nat
    BY LenProperties
  <2>2. Len(s) = 0 => s = <<>>
    BY EmptySeq
  <2> QED BY <2>1, <2>2
<1>2. \A i \in 1..Len(s) : s[i] \in S
  BY ElementOfSeq
<1>3. /\ Front(s) \in Seq(S) /\ Len(Front(s)) = Len(s) - 1
      /\ \A n \in 1..(Len(s) - 1) : Front(s)[n] = s[n]
  <2> DEFINE k == Len(s) - 1
  <2>1. k \in Nat /\ 1 \in 1..(Len(s) + 1) /\ k \in 0..Len(s) /\ k \in 1-1..Len(s)
    BY <1>1
  <2>2. \A i \in 1..k : i \in 1..Len(s) /\ s[i] \in S
    BY <1>1, <1>2
  <2>3. Front(s) = SubSeq(s, 1, k)
    BY DEF Front
  <2> HIDE DEF k
  <2>4. \A i \in 1..k : s[i] \in S
    BY <2>2
  <2>5. /\ SubSeq(s, 1, k) \in Seq(S) /\ Len(SubSeq(s, 1, k)) = k
        /\ \A i \in 1..k : SubSeq(s, 1, k)[i] = s[i]
    BY <2>1, <2>4, SubSeqProperties
  <2> QED BY <2>3, <2>5 DEF k
<1>4. Last(s) \in S
  BY <1>1, <1>2 DEF Last
<1>5. s = Append(Front(s), Last(s))
  <2> DEFINE f == Front(s)
             x == Last(s)
  <2>1. x = s[Len(s)]
    BY DEF Last
  <2>2. /\ Append(f, x) \in Seq(S) /\ Len(Append(f, x)) = Len(f) + 1
        /\ \A i \in 1..Len(f) : Append(f, x)[i] = f[i]
        /\ Append(f, x)[Len(f) + 1] = x
    BY <1>3, <1>4, AppendProperties
  <2> HIDE DEF f, x
  <2>3. Len(Append(f, x)) = Len(s) /\ \A i \in 1..Len(s) : Append(f, x)[i] = s[i]
    BY <1>1, <1>3, <2>1, <2>2 DEF f, x
  <2> QED BY <2>2, <2>3, SeqEqual DEF f, x
<1>6. ASSUME NEW n \in 0..(Len(s) - 1)
      PROVE  SubSeq(Front(s), 1, n) = SubSeq(s, 1, n)
  <2> DEFINE f == Front(s)
             a == SubSeq(f, 1, n)
             b == SubSeq(s, 1, n)
  <2>1. n \in Nat /\ \A i \in 1..n : i \in 1..Len(f) /\ i \in 1..Len(s) /\ f[i] = s[i] /\ s[i] \in S
    BY <1>1, <1>2, <1>3
  <2>2. a \in Seq(S) /\ Len(a) = n /\ \A i \in 1..n : a[i] = f[i]
    BY <1>3, <2>1, SubSeqProperties
  <2>3. b \in Seq(S) /\ Len(b) = n /\ \A i \in 1..n : b[i] = s[i]
    BY <1>1, <2>1, SubSeqProperties
  <2> HIDE DEF a, b
  <2>4. a = b
    BY <2>1, <2>2, <2>3, SeqEqual
  <2> QED BY <2>4 DEF a, b
<1> QED BY <1>1, <1>3, <1>4, <1>5, <1>6

\* The front and the last element of an extended sequence.
LEMMA FrontAppend ==
  ASSUME NEW S, NEW s \in Seq(S), NEW x \in S
  PROVE  /\ Append(s, x) \in Seq(S) /\ Len(Append(s, x)) = Len(s) + 1 /\ Len(s) \in Nat
         /\ Append(s, x) # <<>>
         /\ Front(Append(s, x)) = s /\ Last(Append(s, x)) = x
<1> DEFINE t == Append(s, x)
<1>1. /\ t \in Seq(S) /\ Len(t) = Len(s) + 1 /\ Len(s) \in Nat
      /\ \A i \in 1..Len(s) : t[i] = s[i]
      /\ t[Len(s) + 1] = x
  BY AppendProperties, LenProperties
<1> HIDE DEF t
<1>2. t # <<>>
  BY <1>1, EmptySeq
<1>3. Last(t) = x
  BY <1>1 DEF Last
<1>4. /\ Front(t) \in Seq(S) /\ Len(Front(t)) = Len(s)
      /\ \A n \in 1..Len(s) : Front(t)[n] = t[n]
  BY <1>1, <1>2, FrontLast
<1>5. Front(t) = s
  BY <1>1, <1>4, SeqEqual
<1> QED BY <1>1, <1>2, <1>3, <1>5 DEF t

\* Paths, and their directories.
LEMMA PathType ==
  /\ \A d \in Dir : d \in Seq(Component) /\ Len(d) \in Nat
  /\ \A p \in Path :
       /\ p \in Dir /\ p # <<>> /\ Len(p) \in Nat \ {0}
       /\ Front(p) \in Dir /\ Len(Front(p)) = Len(p) - 1
       /\ Last(p) \in Component /\ p = Append(Front(p), Last(p))
       /\ \A n \in 0..(Len(p) - 1) : SubSeq(Front(p), 1, n) = SubSeq(p, 1, n)
<1>1. Path \subseteq Seq(Component) /\ \A p \in Path : p # <<>> /\ Front(p) \in Dir
  BY PathsFormATree DEF Component
<1>2. <<>> \in Seq(Component) /\ Len(<<>>) = 0
  BY EmptySeq
<1>3. \A d \in Dir : d \in Seq(Component) /\ Len(d) \in Nat
  BY <1>1, <1>2, LenProperties DEF Dir
<1>4. ASSUME NEW p \in Path
      PROVE  /\ p # <<>> /\ Len(p) \in Nat \ {0}
             /\ Front(p) \in Dir /\ Len(Front(p)) = Len(p) - 1
             /\ Last(p) \in Component /\ p = Append(Front(p), Last(p))
             /\ \A n \in 0..(Len(p) - 1) : SubSeq(Front(p), 1, n) = SubSeq(p, 1, n)
  BY <1>1, FrontLast
<1> QED BY <1>3, <1>4 DEF Dir

\* What the walk of the reference reaches, one directory at a time.
LEMMA ReachedIff ==
  ASSUME NEW c, NEW p \in Path
  PROVE  Reached(c, p) <=> \/ Front(p) = <<>>
                           \/ /\ Front(p) \in DOMAIN c /\ c[Front(p)].kind = "dir"
                              /\ Reached(c, Front(p))
<1>1. /\ Len(p) \in Nat \ {0} /\ Len(Front(p)) = Len(p) - 1 /\ Front(p) \in Dir
      /\ \A n \in 0..(Len(p) - 1) : SubSeq(Front(p), 1, n) = SubSeq(p, 1, n)
      /\ Front(p) = SubSeq(p, 1, Len(p) - 1)
  BY PathType DEF Front
<1>2. CASE Front(p) = <<>>
  <2>1. Len(p) = 1
    <3>1. Len(<<>>) = 0
      OBVIOUS
    <3>2. Len(p) \in Nat /\ Len(p) - 1 = 0
      BY <1>1, <1>2, <3>1
    <3> QED BY <3>2
  <2>2. 1..(Len(p) - 1) = {}
    BY <2>1
  <2>3. Reached(c, p)
    BY <2>2, Zenon DEF Reached
  <2> QED BY <1>2, <2>3
<1>3. CASE Front(p) # <<>>
  <2>1. Len(p) - 1 \in Nat \ {0}
    <3>1. Front(p) \in Path
      BY <1>1, <1>3 DEF Dir
    <3>2. Len(Front(p)) \in Nat \ {0}
      BY <3>1, PathType
    <3> QED BY <1>1, <3>2
  <2> DEFINE f == Front(p)
             k == Len(p) - 1
             In(q) == q \in DOMAIN c /\ c[q].kind = "dir"
  <2>2. \A n \in 1..(k - 1) : n \in 1..k /\ SubSeq(f, 1, n) = SubSeq(p, 1, n)
    BY <1>1, <2>1
  <2>3. \A n \in 1..k : n = k \/ n \in 1..(k - 1)
    BY <2>1
  <2>4. k \in 1..k /\ SubSeq(p, 1, k) = f
    BY <1>1, <2>1
  <2>5. Reached(c, p) <=> \A n \in 1..k : In(SubSeq(p, 1, n))
    BY DEF Reached
  <2>6. Reached(c, f) <=> \A n \in 1..(k - 1) : In(SubSeq(f, 1, n))
    BY <1>1 DEF Reached
  <2>7. f # <<>> /\ (In(f) <=> Front(p) \in DOMAIN c /\ c[Front(p)].kind = "dir")
    BY <1>3
  <2> HIDE DEF k, In, f
  <2>8. Reached(c, p) <=> In(f) /\ Reached(c, f)
    BY <2>2, <2>3, <2>4, <2>5, <2>6
  <2> QED BY <1>3, <2>7, <2>8 DEF f
<1> QED BY <1>2, <1>3

\* An entry that is added, and a map that is completed.
LEMMA Extended ==
  /\ \A c, p, x : /\ DOMAIN With(c, p, x) = {p} \cup DOMAIN c
                  /\ With(c, p, x)[p] = x
                  /\ \A q \in DOMAIN c : q # p => With(c, p, x)[q] = c[q]
  /\ \A f, g : /\ DOMAIN Over(f, g) = DOMAIN f \cup DOMAIN g
               /\ \A q \in DOMAIN f : Over(f, g)[q] = f[q]
               /\ \A q \in DOMAIN g : q \notin DOMAIN f => Over(f, g)[q] = g[q]
BY DEF With, Over

\* What an entry reached before it is added is reached after.
LEMMA ReachedMore ==
  ASSUME NEW c, NEW d, NEW p,
         \A q \in DOMAIN c : q \in DOMAIN d /\ d[q].kind = c[q].kind,
         Reached(c, p)
  PROVE  Reached(d, p)
BY DEF Reached

\* readdir() gives one of the names there are.
LEMMA FirstIn ==
  ASSUME NEW names, names \subseteq Path, names # {}
  PROVE  First(names) \in names
<1> DEFINE T == {n \in DOMAIN Order : Order[n] \in names}
<1>1. /\ DOMAIN Order = 1..Len(Order) /\ Len(Order) \in Nat
  BY OrderListsThePaths, LenProperties
<1>2. T \subseteq Nat
  BY <1>1
<1>3. T # {}
  <2>1. PICK p \in names : p \in Path
    OBVIOUS
  <2>2. p \in ToSet(Order)
    BY <2>1, OrderListsThePaths
  <2>3. PICK n \in DOMAIN Order : Order[n] = p
    BY <2>2 DEF ToSet
  <2> QED BY <2>1, <2>3
<1>4. IsWellFoundedOn(OpToRel(<, Nat), Nat)
  BY NatLessThanWellFounded
<1> HIDE DEF T
<1>5. PICK x \in T : \A y \in T : ~(<<y, x>> \in OpToRel(<, Nat))
  BY <1>2, <1>3, <1>4, WFMin
<1>6. \A y \in T : ~(y < x)
  <2>1. ASSUME NEW y \in T, y < x  PROVE FALSE
    <3>1. y \in Nat /\ x \in Nat
      BY <1>2
    <3>2. <<y, x>> \in OpToRel(<, Nat)
      BY <2>1, <3>1 DEF OpToRel
    <3> QED BY <1>5, <3>2
  <2> QED BY <2>1
<1>7. \A y \in T : x <= y
  BY <1>2, <1>6
<1>8. \E n \in DOMAIN Order : /\ Order[n] \in names
                              /\ \A m \in DOMAIN Order : Order[m] \in names => n <= m
  BY <1>7 DEF T
<1> QED BY <1>8 DEF First

\* The levels of a directory, one after the other.
LEMMA LevelsType ==
  ASSUME NEW w, NEW d \in Dir, Levels(w, d)
  PROVE  /\ w \in Seq(SUBSET Path) /\ Len(w) = Len(d) + 1 /\ Len(d) \in Nat /\ w # <<>>
         /\ Last(w) = w[Len(w)] /\ Last(w) \subseteq Path /\ Len(w) \in 1..Len(w)
         /\ \A p \in Last(w) : p \in Path /\ Front(p) = d /\ p \in Waiting(w)
         /\ \A n \in 1..Len(w) : w[n] \subseteq Path /\ \A p \in w[n] : Len(p) = n
<1>1. /\ w \in Seq(SUBSET Path) /\ Len(w) = Len(d) + 1 /\ Len(d) \in Nat
      /\ d \in Seq(Component)
  BY PathType DEF Levels
<1>2. Len(w) \in 1..Len(w) /\ Last(w) = w[Len(w)] /\ Len(w) - 1 = Len(d)
  BY <1>1 DEF Last
<1>3. \A n \in 1..Len(w) : w[n] \subseteq Path
  <2>1. \A n \in 1..Len(w) : w[n] \in SUBSET Path
    BY <1>1, ElementOfSeq
  <2> QED BY <2>1
<1>4. w # <<>>
  BY <1>1, EmptySeq
<1>5. ASSUME NEW p \in Last(w)
      PROVE  p \in Path /\ Front(p) = d /\ p \in Waiting(w)
  <2>1. p \in w[Len(w)] /\ p \in Path
    BY <1>2, <1>3
  <2>2. Front(p) = SubSeq(d, 1, Len(w) - 1)
    BY <1>2, <2>1 DEF Levels
  <2>3. Front(p) = d
    BY <1>1, <1>2, <2>2, SubSeqFull
  <2>4. p \in Waiting(w)
    BY <1>2, <2>1 DEF Waiting
  <2> QED BY <2>1, <2>3, <2>4
<1>6. ASSUME NEW n \in 1..Len(w), NEW p \in w[n]
      PROVE  Len(p) = n
  <2>1. p \in Path /\ Front(p) = SubSeq(d, 1, n - 1)
    BY <1>3 DEF Levels
  <2>2. n \in Nat /\ n - 1 \in Nat /\ n - 1 <= Len(d)
    BY <1>1
  <2>3. Len(SubSeq(d, 1, n - 1)) = n - 1
    <3> DEFINE k == n - 1
    <3>1. k \in Nat /\ k <= Len(d) /\ \A i \in 1..k : i \in 1..Len(d)
      BY <1>1, <2>2
    <3> HIDE DEF k
    <3>2. \A i \in 1..k : d[i] \in Component
      BY <1>1, <3>1, ElementOfSeq
    <3>3. Len(SubSeq(d, 1, k)) = IF 1 <= k THEN k - 1 + 1 ELSE 0
      BY <3>1, <3>2, SubSeqProperties
    <3>4. Len(SubSeq(d, 1, k)) = k
      BY <3>1, <3>3
    <3> QED BY <3>4 DEF k
  <2>4. Len(p) \in Nat /\ Len(Front(p)) = Len(p) - 1
    BY <2>1, PathType
  <2>5. Len(Front(p)) = n - 1
    BY <2>1, <2>3, Zenon
  <2> DEFINE l == Len(p)
             g == Len(Front(p))
  <2>6. l \in Nat /\ g = l - 1 /\ g = n - 1 /\ n \in Nat
    BY <2>2, <2>4, <2>5
  <2> HIDE DEF l, g
  <2>7. l = n
    BY <2>6
  <2> QED BY <2>7 DEF l
<1> QED BY <1>1, <1>2, <1>3, <1>4, <1>5, <1>6

\* A name is read.
LEMMA LevelsPopped ==
  ASSUME current_dir \in Dir, Levels(pile, current_dir), Last(pile) # {}
  PROVE  LET f == First(Last(pile))
         IN /\ f \in Last(pile) /\ f \in Path /\ Front(f) = current_dir
            /\ Spot = f /\ f \in Waiting(pile)
            /\ Levels(Popped, current_dir)
            /\ Waiting(Popped) = Waiting(pile) \ {f}
<1> DEFINE f == First(Last(pile))
           w == Popped
           N == Len(pile)
<1>1. /\ pile \in Seq(SUBSET Path) /\ N = Len(current_dir) + 1 /\ N \in 1..N /\ N \in Nat
      /\ Last(pile) = pile[N] /\ Last(pile) \subseteq Path
      /\ \A p \in Last(pile) : p \in Path /\ Front(p) = current_dir /\ p \in Waiting(pile)
      /\ \A n \in 1..N : pile[n] \subseteq Path /\ \A p \in pile[n] : Len(p) = n
  BY LevelsType, LenProperties
<1>2. f \in Last(pile)
  BY <1>1, FirstIn
<1>3. f \in Path /\ Front(f) = current_dir /\ f \in Waiting(pile)
  BY <1>1, <1>2
<1>4. Spot = f
  <2>1. f = Append(Front(f), Last(f))
    BY <1>3, PathType
  <2> QED BY <1>3, <2>1 DEF Spot
<1>5. w = [pile EXCEPT ![N] = pile[N] \ {f}]
  BY <1>1 DEF Popped
<1>6. pile[N] \ {f} \in SUBSET Path
  BY <1>1
<1> HIDE DEF f, w, N
<1>7. /\ w \in Seq(SUBSET Path) /\ Len(w) = Len(pile)
      /\ \A n \in 1..N : w[n] = IF n = N THEN pile[N] \ {f} ELSE pile[n]
  BY <1>1, <1>5, <1>6, ExceptSeq DEF N
<1>8. Levels(w, current_dir)
  <2>1. Len(w) = Len(current_dir) + 1
    BY <1>1, <1>7 DEF N
  <2>2. ASSUME NEW n \in 1..Len(w), NEW p \in w[n]
        PROVE  Front(p) = SubSeq(current_dir, 1, n - 1)
    <3>1. n \in 1..Len(pile) /\ p \in pile[n]
      BY <1>7 DEF N
    <3> QED BY <3>1 DEF Levels
  <2> QED BY <1>7, <2>1, <2>2 DEF Levels
<1>9. Waiting(w) = Waiting(pile) \ {f}
  <2>1. ASSUME NEW p \in Path
        PROVE  (\E n \in 1..Len(w) : p \in w[n]) <=> (\E n \in 1..Len(pile) : p \in pile[n]) /\ p # f
    <3>1. Len(f) = N
      BY <1>1, <1>2
    <3>2. \A n \in 1..N : f \in pile[n] => n = N
      BY <1>1, <3>1
    <3>3. \A n \in 1..N : p \in w[n] <=> p \in pile[n] /\ p # f
      BY <1>7, <3>2
    <3> QED BY <1>7, <3>3 DEF N
  <2> QED BY <2>1 DEF Waiting
<1> QED BY <1>2, <1>3, <1>4, <1>8, <1>9 DEF f, w

\* A directory is opened: its names come first.
LEMMA LevelsEntered ==
  ASSUME NEW w, NEW d \in Dir, Levels(w, d), NEW p \in Path, Front(p) = d,
         NEW names, \A q \in names : q \in Path /\ Front(q) = p
  PROVE  /\ Levels(Append(w, names), p)
         /\ Waiting(Append(w, names)) = Waiting(w) \cup names
         /\ Last(Append(w, names)) = names
<1> DEFINE v == Append(w, names)
<1>1. /\ w \in Seq(SUBSET Path) /\ Len(w) = Len(d) + 1 /\ Len(d) \in Nat
      /\ \A n \in 1..Len(w) : w[n] \subseteq Path
  BY LevelsType
<1>2. names \in SUBSET Path
  OBVIOUS
<1>3. /\ v \in Seq(SUBSET Path) /\ Len(v) = Len(w) + 1
      /\ \A n \in 1..Len(w) : v[n] = w[n]
      /\ v[Len(w) + 1] = names
  BY <1>1, <1>2, AppendProperties
<1>4. Last(v) = names
  BY <1>1, <1>2, FrontAppend
<1> HIDE DEF v
<1>5. /\ p \in Seq(Component) /\ Len(p) = Len(d) + 1
      /\ \A n \in 0..(Len(p) - 1) : SubSeq(d, 1, n) = SubSeq(p, 1, n)
  <2>1. Len(p) \in Nat /\ Len(d) = Len(p) - 1 /\ Len(d) \in Nat
    BY <1>1, PathType
  <2> QED BY <2>1, PathType
<1>7. \A n \in 1..Len(v) : n \in 1..Len(w) \/ n = Len(w) + 1
  BY <1>1, <1>3
<1>8. ASSUME NEW n \in 1..Len(v), NEW q \in v[n]
      PROVE  Front(q) = SubSeq(p, 1, n - 1)
  <2>1. CASE n \in 1..Len(w)
    <3>1. Front(q) = SubSeq(d, 1, n - 1)
      BY <1>3, <2>1 DEF Levels
    <3>2. n - 1 \in 0..(Len(p) - 1)
      BY <1>1, <1>5, <2>1
    <3> QED BY <1>5, <3>1, <3>2
  <2>2. CASE n = Len(w) + 1
    <3>1. SubSeq(p, 1, n - 1) = SubSeq(p, 1, Len(p))
      BY <1>1, <1>5, <2>2
    <3>2. SubSeq(p, 1, Len(p)) = p
      BY <1>5, SubSeqFull
    <3>3. Front(q) = p
      BY <1>3, <2>2
    <3> QED BY <3>1, <3>2, <3>3
  <2> QED BY <1>7, <2>1, <2>2
<1>9. Levels(v, p)
  <2>1. Len(v) = Len(p) + 1
    BY <1>1, <1>3, <1>5
  <2> QED BY <1>3, <1>8, <2>1 DEF Levels
<1>10. Waiting(v) = Waiting(w) \cup names
  <2>1. 1..Len(v) = 1..Len(w) \cup {Len(w) + 1}
    BY <1>1, <1>3
  <2>2. ASSUME NEW q \in Path
        PROVE  (\E n \in 1..Len(v) : q \in v[n]) <=> (\E n \in 1..Len(w) : q \in w[n]) \/ q \in names
    BY <1>3, <2>1
  <2> QED BY <1>2, <2>2 DEF Waiting
<1> QED BY <1>4, <1>9, <1>10 DEF v

\* A directory is left: what was still to be read of it is forgotten.
LEMMA LevelsLeft ==
  ASSUME NEW w, NEW d \in Path, Levels(w, d)
  PROVE  /\ Front(d) \in Dir /\ Levels(Front(w), Front(d))
         /\ Waiting(Front(w)) \subseteq Waiting(w)
         /\ Waiting(w) \subseteq Waiting(Front(w)) \cup Last(w)
<1> DEFINE v == Front(w)
           f == Front(d)
<1>1. /\ w \in Seq(SUBSET Path) /\ Len(w) = Len(d) + 1 /\ w # <<>>
      /\ Last(w) = w[Len(w)]
  BY LevelsType, PathType
<1>2. /\ Len(d) \in Nat \ {0} /\ Len(f) = Len(d) - 1 /\ f \in Dir
      /\ \A n \in 0..(Len(d) - 1) : SubSeq(f, 1, n) = SubSeq(d, 1, n)
  BY PathType
<1>3. /\ v \in Seq(SUBSET Path) /\ Len(v) = Len(w) - 1
      /\ \A n \in 1..(Len(w) - 1) : v[n] = w[n]
  BY <1>1, FrontLast
<1> HIDE DEF v, f
<1>4. \A n \in 1..Len(v) : v[n] = w[n] /\ n \in 1..Len(w) /\ n - 1 \in 0..(Len(d) - 1)
  BY <1>1, <1>2, <1>3
<1>5. Levels(v, f)
  <2>1. Len(v) = Len(f) + 1
    BY <1>1, <1>2, <1>3
  <2>2. ASSUME NEW n \in 1..Len(v), NEW p \in v[n]
        PROVE  Front(p) = SubSeq(f, 1, n - 1)
    <3>1. Front(p) = SubSeq(d, 1, n - 1)
      BY <1>4 DEF Levels
    <3> QED BY <1>2, <1>4, <3>1
  <2> QED BY <1>3, <2>1, <2>2 DEF Levels
<1>6. 1..Len(w) = 1..Len(v) \cup {Len(w)}
  BY <1>1, <1>2, <1>3
<1>7. ASSUME NEW p \in Path
      PROVE  /\ (\E n \in 1..Len(v) : p \in v[n]) => (\E n \in 1..Len(w) : p \in w[n])
             /\ (\E n \in 1..Len(w) : p \in w[n]) => (\E n \in 1..Len(v) : p \in v[n]) \/ p \in Last(w)
  BY <1>1, <1>4, <1>6
<1>8. /\ Waiting(v) \subseteq Waiting(w)
      /\ Waiting(w) \subseteq Waiting(v) \cup Last(w)
  BY <1>7 DEF Waiting
<1> QED BY <1>2, <1>5, <1>8 DEF v, f

\* The root is opened.
LEMMA LevelsStart ==
  ASSUME NEW names, \A q \in names : q \in Path /\ Front(q) = <<>>
  PROVE  Levels(<<names>>, <<>>) /\ Waiting(<<names>>) = names
<1> DEFINE w == <<names>>
<1>1. w \in Seq(SUBSET Path) /\ Len(w) = 1 /\ w[1] = names
  OBVIOUS
<1>2. Len(<<>>) = 0 /\ SubSeq(<<>>, 1, 1 - 1) = <<>>
  OBVIOUS
<1> HIDE DEF w
<1>3. \A n \in 1..Len(w) : n = 1
  BY <1>1
<1>4. \A n \in 1..Len(w) : \A p \in w[n] : Front(p) = SubSeq(<<>>, 1, n - 1)
  BY <1>1, <1>2, <1>3
<1>5. Levels(w, <<>>)
  BY <1>1, <1>2, <1>4 DEF Levels
<1>6. Waiting(w) = names
  <2>1. 1 \in 1..Len(w)
    BY <1>1
  <2> QED BY <1>1, <1>3, <2>1 DEF Waiting
<1> QED BY <1>5, <1>6 DEF w

\* The cursors go down and up by the names of the directories.
LEMMA Concatenated ==
  ASSUME NEW S, NEW s \in Seq(S), NEW t \in Seq(S)
  PROVE  /\ \A x \in S : /\ s \o Append(t, x) = Append(s \o t, x)
                         /\ t # <<>> => Head(Append(t, x)) = Head(t)
                         /\ Head(Append(<<>>, x)) = x
         /\ t # <<>> => /\ s \o Front(t) = Front(s \o t) /\ Front(t) \in Seq(S)
                        /\ s \o t # <<>>
                        /\ Front(t) # <<>> => Head(Front(t)) = Head(t)
         /\ s \o <<>> = s
<1>1. \A u \in Seq(S), x \in S : s \o Append(u, x) = Append(s \o u, x)
  <2> TAKE u \in Seq(S), x \in S
  <2>1. <<x>> \in Seq(S) /\ Append(u, x) = u \o <<x>>
    BY AppendIsConcat
  <2>2. s \o u \in Seq(S)
    BY ConcatProperties
  <2>3. Append(s \o u, x) = (s \o u) \o <<x>>
    BY <2>2, AppendIsConcat
  <2>4. (s \o u) \o <<x>> = s \o (u \o <<x>>)
    BY <2>1, ConcatAssociative
  <2> QED BY <2>1, <2>3, <2>4
<1>2. \A u \in Seq(S), x \in S : Head(Append(u, x)) = IF u = <<>> THEN x ELSE Head(u)
  BY HeadTailAppend
<1>3. <<>> \in Seq(S) /\ s \o <<>> = s
  BY EmptySeq, ConcatEmptySeq
<1>4. ASSUME t # <<>>
      PROVE  /\ s \o Front(t) = Front(s \o t) /\ Front(t) \in Seq(S)
             /\ s \o t # <<>>
             /\ Front(t) # <<>> => Head(Front(t)) = Head(t)
  <2> DEFINE u == Front(t)
             x == Last(t)
  <2>1. u \in Seq(S) /\ x \in S /\ t = Append(u, x)
    BY <1>4, FrontLast
  <2> HIDE DEF u, x
  <2>2. s \o t = Append(s \o u, x) /\ s \o u \in Seq(S)
    BY <1>1, <2>1, ConcatProperties
  <2>3. Front(Append(s \o u, x)) = s \o u /\ Append(s \o u, x) # <<>>
    BY <2>1, <2>2, FrontAppend
  <2>4. u # <<>> => Head(u) = Head(t)
    BY <1>2, <2>1
  <2> QED BY <2>1, <2>2, <2>3, <2>4 DEF u
<1> QED BY <1>1, <1>2, <1>3, <1>4

\* A directory that is opened reaches what it holds.
LEMMA OpenedReaches ==
  ASSUME TreeOK, NEW p \in Path, Opened(cat, Front(p))
  PROVE  Reached(cat, p)
BY ReachedIff DEF Opened, TreeOK

\* One entry more at the end of an opened directory: what that reaches.
LEMMA ReachedWith ==
  ASSUME TreeOK, NEW p \in Path, p \notin DOMAIN cat, NEW x
  PROVE  LET c == With(cat, p, x)
         IN /\ DOMAIN c = {p} \cup DOMAIN cat /\ c[p] = x
            /\ \A q \in DOMAIN cat : q # p /\ c[q] = cat[q]
            /\ \A q : Reached(cat, q) => Reached(c, q)
            /\ \A d : Opened(cat, d) => Opened(c, d)
            /\ \A q \in Path : Reached(c, q) => Reached(cat, q) \/ Front(q) = p
            /\ \A q \in Path : Reached(c, q) /\ Front(q) = p => x.kind = "dir"
<1> DEFINE c == With(cat, p, x)
<1>1. /\ DOMAIN c = {p} \cup DOMAIN cat /\ c[p] = x
      /\ \A q \in DOMAIN cat : q # p /\ c[q] = cat[q]
  BY DEF With
<1> HIDE DEF c
<1>2. ASSUME NEW q, Reached(cat, q)  PROVE Reached(c, q)
  BY <1>1, <1>2, ReachedMore
<1>3. \A d : Opened(cat, d) => Opened(c, d)
  BY <1>1 DEF Opened
<1>4. p # <<>>
  BY PathType
<1>5. ASSUME NEW q \in Path, Reached(c, q), Front(q) # p  PROVE Reached(cat, q)
  <2>1. \/ Front(q) = <<>>
        \/ Front(q) \in DOMAIN cat /\ cat[Front(q)].kind = "dir"
    BY <1>1, <1>5, ReachedIff
  <2> QED BY <2>1, OpenedReaches DEF Opened
<1>6. ASSUME NEW q \in Path, Reached(c, q), Front(q) = p  PROVE x.kind = "dir"
  BY <1>1, <1>4, <1>6, ReachedIff
<1> QED BY <1>1, <1>2, <1>3, <1>5, <1>6 DEF c

\* The directory above one that is opened is opened too.
LEMMA OpenedAbove ==
  ASSUME TreeOK, NEW p \in Path, Opened(cat, p)
  PROVE  Opened(cat, Front(p))
<1>1. p # <<>>
  BY PathType
<1>2. Reached(cat, p)
  BY <1>1 DEF Opened, TreeOK
<1> QED BY <1>2, ReachedIff DEF Opened
-----------------------------------------------------------------------------
(* The users *)

\* What users do leaves the reading of the tree, the cursors and the catalogue
\* as they are, and hides what they remove.
LEMMA ChangeKeepsBackup ==
  ASSUME IInv, pc # "idle", NEW newDisk, NEW written, Change(newDisk, written)
  PROVE  WalkOK' /\ EntryOK' /\ CursorsOK' /\ TreeOK' /\ InodesOK' /\ Covered'
<1>1. WalkOK /\ EntryOK /\ CursorsOK /\ TreeOK /\ InodesOK /\ Covered
  BY DEF IInv, BackupOK
<1>2. /\ pc' = pc /\ pile' = pile /\ current_dir' = current_dir /\ corres_read' = corres_read
      /\ e' = e /\ current_compare' = current_compare /\ out_compare' = out_compare
      /\ current_add' = current_add /\ cat' = cat /\ etoile' = etoile /\ archives' = archives
  BY DEF Change, walk, reference, catalogue
<1>3. clock \in Nat /\ clock' = clock + 1
  BY DEF Change, IInv, UsersOK
<1>4. WalkOK' /\ EntryOK'
  BY <1>1, <1>2, Zenon DEF WalkOK, EntryOK, Where, Busy, Levels, Waiting, Opened
<1>5. CursorsOK'
  BY <1>1, <1>2, Zenon DEF CursorsOK, Where, Busy, NotADirectory, Reference
<1>6. TreeOK'
  BY <1>1, <1>2, Zenon DEF TreeOK, Reached
<1>7. InodesOK'
  <2>1. \A s \in DOMAIN etoile : etoile[s] \in Stars /\ etoile[s].mtime <= clock'
    <3> TAKE s \in DOMAIN etoile
    <3>1. etoile[s].mtime \in Nat /\ etoile[s].mtime <= clock /\ etoile[s] \in Stars
      BY <1>1 DEF InodesOK, Stars
    <3> QED BY <1>3, <3>1
  <2>2. \A s \in DOMAIN etoile : s \in Path /\ Reached(cat, s)
                                 /\ (etoile[s].wrote => Consistent(etoile[s]))
    BY <1>1, Zenon DEF InodesOK
  <2> QED BY <1>1, <1>2, <2>1, <2>2, Zenon DEF InodesOK, Reached, Consistent, Matching
<1>8. Covered'
  <2>1. hidden' = hidden \cup {p \in Path : newDisk[p] = "none"} /\ disk' = newDisk
    BY DEF Change
  <2> QED BY <1>1, <1>2, <2>1, Zenon DEF Covered, Busy, Reached, Waiting
<1> QED BY <1>4, <1>5, <1>6, <1>7, <1>8

\* A file that is written has a date later than any that was recorded.
LEMMA ChangeKeepsUsers ==
  ASSUME IInv, NEW newDisk \in [Path -> Inode \cup {"none", "dir"}], NEW written,
         Change(newDisk, written)
  PROVE  UsersOK'
<1>1. /\ clock \in Nat /\ clock' = clock + 1 /\ disk' = newDisk
      /\ version' = [i \in Inode |-> IF i \in written THEN clock + 1 ELSE version[i]]
      /\ mtime' = [i \in Inode |-> IF i \in written THEN clock + 1 ELSE mtime[i]]
  BY DEF Change, IInv, UsersOK
<1>2. /\ version \in [Inode -> Nat] /\ mtime \in [Inode -> Nat]
      /\ \A i \in Inode : version[i] <= clock /\ mtime[i] <= clock
      /\ AlterAtime => mtime = version
  BY DEF IInv, UsersOK
<1>3. version' \in [Inode -> Nat] /\ mtime' \in [Inode -> Nat]
  BY <1>1, <1>2
<1>4. ASSUME NEW i \in Inode
      PROVE  version'[i] <= clock' /\ mtime'[i] <= clock'
  <2>1. version[i] \in Nat /\ mtime[i] \in Nat /\ version[i] <= clock /\ mtime[i] <= clock
    BY <1>2
  <2> QED BY <1>1, <2>1
<1>5. AlterAtime => mtime' = version'
  BY <1>1, <1>2
<1> QED BY <1>1, <1>3, <1>4, <1>5 DEF UsersOK

\* ... so that a copy of it, unless its name was given to another file, is
\* known to be late.
LEMMA ChangeKeepsCopy ==
  ASSUME IInv, pc # "idle", NEW newDisk, NEW written, Change(newDisk, written)
  PROVE  CopyOK'
<1>1. /\ pc' = pc /\ e' = e /\ etoile' = etoile /\ copying' = copying
      /\ disk' = newDisk /\ clock \in Nat
      /\ sure' = (sure /\ (pc \in {"entry", "open", "copy", "check"} =>
                             newDisk[e.path] = disk[e.path]))
      /\ version' = [i \in Inode |-> IF i \in written THEN clock + 1 ELSE version[i]]
      /\ mtime' = [i \in Inode |-> IF i \in written THEN clock + 1 ELSE mtime[i]]
  BY DEF Change, catalogue, IInv, UsersOK
<1>2. CopyOK /\ EntryOK /\ InodesOK
  BY DEF IInv, BackupOK
<1>3. sure' => sure
  BY <1>1
<1>4. ASSUME pc \in {"copy", "check"}
      PROVE  /\ Own'
             /\ \A n \in {1, 2} : Copied(n) => Copied(n)' \/ Later'
             /\ Later => Later'
  <2> DEFINE i == copying.fd
             date == etoile[e.star].mtime
  <2>1. i \in Inode /\ (sure => disk[e.path] = i)
    BY <1>2, <1>4, Zenon DEF CopyOK, Own
  <2>2. sure' => newDisk[e.path] = disk[e.path]
    BY <1>1, <1>4
  <2>3. Own'
    BY <1>1, <1>3, <2>1, <2>2, Zenon DEF Own
  <2>4. date \in Nat /\ date <= clock
    <3>1. e.star \in DOMAIN etoile
      BY <1>2, <1>4 DEF CopyOK, EntryOK, Busy
    <3> QED BY <1>2, <3>1 DEF InodesOK, Stars
  <2>5. mtime[i] \in Nat
    BY <2>1 DEF IInv, UsersOK
  <2>6. CASE i \in written
    <3>1. mtime'[i] = clock + 1
      BY <1>1, <2>1, <2>6
    <3>2. mtime'[i] > date
      BY <1>1, <2>4, <3>1
    <3>3. Later'
      BY <1>1, <3>2 DEF Later
    <3> QED BY <2>3, <3>3
  <2>7. CASE i \notin written
    <3>1. mtime'[i] = mtime[i] /\ version'[i] = version[i]
      BY <1>1, <2>1, <2>7
    <3>2. (Later => Later') /\ \A n \in {1, 2} : Copied(n) => Copied(n)'
      BY <1>1, <3>1, Zenon DEF Later, Copied
    <3> QED BY <2>3, <3>2
  <2> QED BY <2>6, <2>7
<1>5. (pc \in {"open", "copy", "check", "date"} => ~e.dir /\ ~etoile[e.star].wrote)'
  BY <1>1, <1>2 DEF CopyOK
<1>6. (pc = "copy" => Len(copying.data) = 1 /\ (sure => Copied(1) \/ Later))'
  BY <1>1, <1>2, <1>3, <1>4 DEF CopyOK
<1>7. (pc = "check" => Len(copying.data) = 2 /\ (sure => (Copied(1) /\ Copied(2)) \/ Later))'
  BY <1>1, <1>2, <1>3, <1>4 DEF CopyOK
<1>8. (pc = "date" /\ copying.data # <<>> /\ ~copying.dirty /\ sure =>
         Matching(copying.data, etoile[e.star].mtime))'
  BY <1>1, <1>2, <1>3, Zenon DEF CopyOK, Matching
<1>9. (pc \in {"copy", "check"} => Own)'
  BY <1>1, <1>4
<1> QED BY <1>5, <1>6, <1>7, <1>8, <1>9 DEF CopyOK

\* Everything users do.
LEMMA UsersKeep ==
  ASSUME IInv, Users
  PROVE  IInv' /\ archives' = archives
<1>1. disk \in [Path -> Inode \cup {"none", "dir"}]
  BY DEF IInv, UsersOK
<1>2. \E newDisk \in [Path -> Inode \cup {"none", "dir"}], written \in SUBSET Inode :
        Change(newDisk, written)
  <2>1. CASE \E i \in Inode : Modify(i)
    <3>1. PICK i \in Inode : Change(disk, {i})
      BY <2>1 DEF Modify
    <3> QED BY <1>1, <3>1
  <2>2. CASE \E p \in Path, i \in Inode : Create(p, i)
    <3>1. PICK p \in Path, i \in Inode : Change([disk EXCEPT ![p] = i], {i})
      BY <2>2 DEF Create
    <3> QED BY <1>1, <3>1
  <2>3. CASE \E p \in Path : MakeDirectory(p)
    <3>1. PICK p \in Path : Change([disk EXCEPT ![p] = "dir"], {})
      BY <2>3 DEF MakeDirectory
    <3> QED BY <1>1, <3>1
  <2>4. CASE \E p \in Path : Erase(p)
    <3>1. PICK p \in Path : Change([q \in Path |-> IF q \in Under(p) THEN "none" ELSE disk[q]], {})
      BY <2>4 DEF Erase
    <3> QED BY <1>1, <3>1
  <2>5. CASE \E p, q \in Path : Link(p, q)
    <3>1. PICK p \in Path, q \in Path : disk[q] \in Inode /\ Change([disk EXCEPT ![p] = disk[q]], {})
      BY <2>5 DEF Link
    <3> QED BY <1>1, <3>1
  <2> QED BY <2>1, <2>2, <2>3, <2>4, <2>5 DEF Users
<1>3. PICK newDisk \in [Path -> Inode \cup {"none", "dir"}], written \in SUBSET Inode :
        Change(newDisk, written)
  BY <1>2
<1>4. pc' = pc /\ copying' = copying /\ archives' = archives /\ sure' \in BOOLEAN
  BY <1>3 DEF Change
<1>5. UsersOK'
  BY <1>3, ChangeKeepsUsers
<1>6. pc # "idle" => BackupOK'
  BY <1>3, ChangeKeepsBackup, ChangeKeepsCopy DEF BackupOK
<1>7. ArchivesOK'
  BY <1>4, Zenon DEF IInv, ArchivesOK, Consistent, Matching
<1> QED BY <1>4, <1>5, <1>6, <1>7 DEF IInv, Copies
-----------------------------------------------------------------------------
(* Reading the tree *)

\* What is left alone stays right.
LEMMA Kept ==
  /\ UsersOK /\ UNCHANGED user => UsersOK'
  /\ ArchivesOK /\ UNCHANGED archives => ArchivesOK'
  /\ TreeOK /\ UNCHANGED cat => TreeOK'
  /\ InodesOK /\ UNCHANGED <<cat, etoile, corres_read, clock>> => InodesOK'
  /\ CursorsOK /\ UNCHANGED <<reference, current_add, archives>> /\ Where' = Where => CursorsOK'
<1>1. UsersOK /\ UNCHANGED user => UsersOK'
  BY Zenon DEF UsersOK, user
<1>2. ArchivesOK /\ UNCHANGED archives => ArchivesOK'
  BY Zenon DEF ArchivesOK, Consistent, Matching
<1>3. TreeOK /\ UNCHANGED cat => TreeOK'
  BY DEF TreeOK, Reached
<1>4. InodesOK /\ UNCHANGED <<cat, etoile, corres_read, clock>> => InodesOK'
  BY Zenon DEF InodesOK, Reached, Consistent, Matching
<1>5. CursorsOK /\ UNCHANGED <<reference, current_add, archives>> /\ Where' = Where => CursorsOK'
  BY Zenon DEF CursorsOK, NotADirectory, Reference, reference
<1> QED BY <1>1, <1>2, <1>3, <1>4, <1>5

\* What is not in the catalogue yet, and where it is going to be.
LEMMA NextNameIs ==
  ASSUME IInv, NextName
  PROVE  /\ Spot \in Path /\ Front(Spot) = current_dir /\ Spot \in Waiting(pile)
         /\ Spot \notin DOMAIN cat /\ Spot \notin DOMAIN etoile
         /\ Levels(Popped, current_dir) /\ Waiting(Popped) = Waiting(pile) \ {Spot}
         /\ current_dir \in Dir /\ Where = current_dir /\ Opened(cat, current_dir)
         /\ ~Busy /\ Reached(cat, Spot)
<1>1. WalkOK /\ TreeOK /\ pc = "read"
  BY DEF IInv, BackupOK, NextName
<1>2. current_dir \in Dir /\ Levels(pile, current_dir) /\ Last(pile) # {}
  BY <1>1 DEF WalkOK, NextName
<1>3. /\ Spot \in Path /\ Front(Spot) = current_dir /\ Spot \in Waiting(pile)
      /\ Levels(Popped, current_dir) /\ Waiting(Popped) = Waiting(pile) \ {Spot}
  BY <1>2, LevelsPopped
<1>4. ~Busy /\ Where = current_dir
  BY <1>1 DEF Busy, Where
<1>5. Opened(cat, current_dir) /\ Spot \notin DOMAIN cat /\ Spot \notin DOMAIN etoile
  BY <1>1, <1>3, <1>4 DEF WalkOK
<1>6. Reached(cat, Spot)
  BY <1>1, <1>3, <1>5, OpenedReaches
<1> QED BY <1>2, <1>3, <1>4, <1>5, <1>6

\* A name that is skipped is hidden.
LEMMA SkippedKeeps ==
  ASSUME IInv, Vanished \/ Unreadable
  PROVE  IInv' /\ archives' = archives
<1>1. /\ NextName /\ pile' = Popped /\ Spot \in hidden' /\ hidden \subseteq hidden'
  <2>1. NextName
    BY DEF Vanished, Unreadable
  <2>2. Spot \in Path /\ Spot \in Seq(Component)
    BY <2>1, NextNameIs, PathType DEF Dir
  <2>3. CASE Vanished
    BY <2>2, <2>3 DEF Vanished, history, IInv, BackupOK, Covered, NextName
  <2>4. CASE Unreadable
    <3>1. IsPrefix(Spot, Spot)
      BY <2>2, LenProperties DEF IsPrefix
    <3> QED BY <2>2, <2>4, <3>1 DEF Unreadable, Under
  <2> QED BY <2>1, <2>3, <2>4 DEF Vanished, Unreadable
<1>2. /\ UNCHANGED <<user, pc, mask, current_dir, corres_read, e, reference, catalogue,
                     copying, wasted_bytes, archives, sure>>
  BY DEF Vanished, Unreadable, history
<1>3. /\ Levels(Popped, current_dir) /\ Waiting(Popped) = Waiting(pile) \ {Spot}
      /\ ~Busy /\ pc = "read"
  BY <1>1, NextNameIs DEF NextName
<1>4. WalkOK /\ CursorsOK /\ TreeOK /\ InodesOK /\ Covered
  BY <1>3 DEF IInv, BackupOK
<1>5. ~Busy' /\ Where' = Where /\ Where = current_dir
  BY <1>2, <1>3 DEF Busy, Where
<1>6. TreeOK' /\ InodesOK' /\ CursorsOK' /\ UsersOK' /\ ArchivesOK'
  BY <1>2, <1>4, <1>5, Kept DEF user, catalogue, IInv
<1>7. WalkOK'
  <2>1. Levels(pile, current_dir)'
    BY <1>1, <1>2, <1>3, Zenon DEF Levels
  <2>2. Waiting(pile') = Waiting(pile) \ {Spot}
    BY <1>1, <1>3, Zenon
  <2>3. current_dir' \in Dir /\ Opened(cat, Where)'
    BY <1>2, <1>4, <1>5, Zenon DEF WalkOK, Opened, catalogue
  <2>4. cat' = cat /\ etoile' = etoile
    BY <1>2 DEF catalogue
  <2> HIDE DEF Waiting
  <2>5. Waiting(pile)' = Waiting(pile')
    BY Zenon DEF Waiting
  <2> QED BY <1>4, <2>1, <2>2, <2>3, <2>4, <2>5 DEF WalkOK
<1>8. EntryOK'
  BY <1>5 DEF EntryOK
<1>9. Covered'
  <2>1. cat' = cat /\ disk' = disk
    BY <1>2 DEF catalogue, user
  <2>2. Waiting(pile)' = Waiting(pile) \ {Spot}
    BY <1>1, <1>3, Zenon DEF Waiting
  <2>3. \A p \in Path : Reached(cat, p) /\ p \notin DOMAIN cat /\ p \notin hidden => p \in Waiting(pile)
    BY <1>3, <1>4, Zenon DEF Covered
  <2>4. \A p \in Path : (Reached(cat, p))' => Reached(cat, p)
    BY <2>1, Zenon DEF Reached
  <2>5. \A p \in Path : disk[p] = "none" => p \in hidden
    BY <1>4, Zenon DEF Covered
  <2> QED BY <1>1, <1>5, <2>1, <2>2, <2>3, <2>4, <2>5 DEF Covered
<1>10. CopyOK'
  BY <1>2, <1>3 DEF CopyOK
<1> QED BY <1>2, <1>3, <1>6, <1>7, <1>8, <1>9, <1>10 DEF IInv, BackupOK, Copies

\* A directory that is read hides what it cannot list.
LEMMA ReadDirectoryKeeps ==
  ASSUME IInv, NEW readable \in BOOLEAN, ReadDirectory(readable)
  PROVE  IInv' /\ archives' = archives
<1> DEFINE f == Spot
           names == IF readable THEN Listing(f) ELSE {}
<1>1. /\ NextName /\ e' = [path |-> f, star |-> f, dir |-> TRUE] /\ pc' = "entry"
      /\ current_dir' = f /\ pile' = Append(Popped, names) /\ sure' = TRUE
      /\ hidden' = IF readable THEN hidden ELSE hidden \cup (Under(f) \ {f})
      /\ UNCHANGED <<user, mask, corres_read, reference, catalogue, copying, wasted_bytes,
                     archives, undated>>
  BY DEF ReadDirectory
<1>2. /\ f \in Path /\ Front(f) = current_dir /\ f \in Waiting(pile)
      /\ f \notin DOMAIN cat /\ f \notin DOMAIN etoile
      /\ Levels(Popped, current_dir) /\ Waiting(Popped) = Waiting(pile) \ {f}
      /\ current_dir \in Dir /\ Where = current_dir /\ Opened(cat, current_dir)
      /\ ~Busy
  BY <1>1, NextNameIs
<1>3. WalkOK /\ CursorsOK /\ TreeOK /\ InodesOK /\ Covered
  BY <1>1 DEF IInv, BackupOK, NextName
<1>4. /\ cat' = cat /\ etoile' = etoile /\ disk' = disk /\ current_add' = current_add
      /\ hidden \subseteq hidden' /\ e'.path = f /\ e'.dir = TRUE
  BY <1>1 DEF catalogue, user
<1>5. \A q \in names : q \in Path /\ Front(q) = f
  BY DEF Listing
<1> HIDE DEF f, names
<1>6. /\ Levels(pile', f) /\ Waiting(pile') = Waiting(Popped) \cup names
      /\ Last(pile') = names
  BY <1>1, <1>2, <1>5, LevelsEntered
<1>7. Busy' /\ Where' = Where
  <2>1. Busy'
    BY <1>1 DEF Busy
  <2> QED BY <1>1, <1>2, <1>4, <2>1 DEF Where
<1>8. TreeOK' /\ InodesOK' /\ CursorsOK' /\ UsersOK' /\ ArchivesOK'
  BY <1>1, <1>3, <1>7, Kept DEF user, catalogue, IInv
<1>9. names \cap (DOMAIN cat \cup DOMAIN etoile) = {}
  <2>1. ASSUME NEW q \in names  PROVE ~Reached(cat, q)
    <3>1. Front(q) = f /\ q \in Path /\ f # <<>>
      BY <1>2, <1>5, PathType
    <3> QED BY <1>2, <3>1, ReachedIff
  <2> QED BY <1>3, <2>1 DEF TreeOK, InodesOK
<1>10. WalkOK'
  <2>1. Waiting(pile') \cap (DOMAIN cat \cup DOMAIN etoile) = {}
    BY <1>2, <1>3, <1>6, <1>9 DEF WalkOK
  <2>2. Waiting(pile)' = Waiting(pile') /\ Levels(pile, current_dir)' = Levels(pile', current_dir')
    BY Zenon DEF Waiting, Levels
  <2>3. Opened(cat, Where)'
    BY <1>2, <1>4, <1>7 DEF Opened
  <2>4. f \in Dir
    BY <1>2, PathType
  <2> QED BY <1>1, <1>4, <1>6, <2>1, <2>2, <2>3, <2>4 DEF WalkOK
<1>11. EntryOK'
  <2>1. f \notin Waiting(pile')
    <3>1. f \notin names
      BY <1>2, <1>5, PathType
    <3> QED BY <1>2, <1>6, <3>1
  <2>2. Waiting(pile)' = Waiting(pile')
    BY Zenon DEF Waiting
  <2> QED BY <1>1, <1>2, <1>4, <1>7, <2>1, <2>2 DEF EntryOK
<1>12. Covered'
  <2>1. \A p \in Path : Front(p) = f /\ p \notin hidden' => p \in names
    <3> TAKE p \in Path
    <3> HAVE Front(p) = f /\ p \notin hidden'
    <3>1. CASE readable
      BY <1>1, <1>3, <3>1 DEF names, Listing, Covered
    <3>2. CASE ~readable
      <4>1. p \in Under(f) /\ p # f
        <5>1. f \in Seq(Component) /\ Len(f) \in Nat /\ Len(p) \in Nat /\ Len(f) = Len(p) - 1
          BY <1>2, PathType DEF Dir
        <5>2. SubSeq(f, 1, Len(f)) = f
          BY <5>1, SubSeqFull
        <5>3. SubSeq(p, 1, Len(f)) = f
          BY <5>1 DEF Front
        <5>4. Len(f) <= Len(p) /\ p # f
          BY <5>1
        <5> QED BY <5>2, <5>3, <5>4 DEF Under, IsPrefix
      <4> QED BY <1>1, <3>2, <4>1
    <3> QED BY <3>1, <3>2
  <2>2. \A p \in Path : Reached(cat, p) /\ p \notin DOMAIN cat /\ p \notin hidden => p \in Waiting(pile)
    BY <1>2, <1>3, Zenon DEF Covered
  <2>3. \A p \in Path : (Reached(cat, p))' => Reached(cat, p)
    BY <1>4, Zenon DEF Reached
  <2>4. Waiting(pile)' = Waiting(pile')
    BY Zenon DEF Waiting
  <2>5. \A p \in Path : disk[p] = "none" => p \in hidden
    BY <1>3, Zenon DEF Covered
  <2> QED BY <1>2, <1>4, <1>6, <1>7, <2>1, <2>2, <2>3, <2>4, <2>5 DEF Covered
<1>13. CopyOK'
  BY <1>1 DEF CopyOK
<1> QED BY <1>1, <1>8, <1>10, <1>11, <1>12, <1>13 DEF IInv, BackupOK, Copies

\* A file that is read has a new inode, or that of a link met before.
LEMMA ReadFileKeeps ==
  ASSUME IInv, ReadFile
  PROVE  IInv' /\ archives' = archives
<1> DEFINE f == Spot
           i == disk[f]
           links == Cardinality(Named(i))
           known == links > 1 /\ i \in DOMAIN corres_read
           new == [mtime |-> mtime[i], saved |-> TRUE, data |-> <<>>, dirty |-> FALSE,
                   mirage |-> links > 1, wrote |-> FALSE, sure |-> TRUE]
           star == IF known THEN corres_read[i].star ELSE f
           left == IF known THEN corres_read[i].count - 1 ELSE links - 1
<1>1. /\ NextName /\ i \in Inode
      /\ e' = [path |-> f, dir |-> FALSE, star |-> star]
      /\ etoile' = IF known THEN etoile ELSE With(etoile, f, new)
      /\ corres_read' = IF links = 1 THEN corres_read
                        ELSE IF left = 0 THEN [j \in DOMAIN corres_read \ {i} |-> corres_read[j]]
                        ELSE With(corres_read, i, [star |-> e'.star, count |-> left])
      /\ pc' = "entry" /\ pile' = Popped /\ sure' = TRUE
      /\ UNCHANGED <<user, mask, current_dir, reference, current_add, cat, copying,
                     wasted_bytes, archives, undated, still, hidden>>
  BY DEF ReadFile
<1>2. /\ f \in Path /\ Front(f) = current_dir /\ f \in Waiting(pile)
      /\ f \notin DOMAIN cat /\ f \notin DOMAIN etoile
      /\ Levels(Popped, current_dir) /\ Waiting(Popped) = Waiting(pile) \ {f}
      /\ current_dir \in Dir /\ Where = current_dir /\ Opened(cat, current_dir)
      /\ ~Busy /\ Reached(cat, f)
  BY <1>1, NextNameIs
<1>3. WalkOK /\ CursorsOK /\ TreeOK /\ InodesOK /\ Covered /\ UsersOK
  BY <1>1 DEF IInv, BackupOK, NextName
<1>4. new \in Stars /\ new.mtime <= clock /\ ~new.wrote
  <2>1. mtime[i] \in Nat /\ mtime[i] <= clock
    BY <1>1, <1>3 DEF UsersOK
  <2> HIDE DEF i, links
  <2> QED BY <2>1 DEF Stars
<1>5. /\ e'.path = f /\ e'.dir = FALSE /\ e'.star = star
  BY <1>1
<1> HIDE DEF new, left
<1>6. /\ DOMAIN etoile' \subseteq DOMAIN etoile \cup {f} /\ DOMAIN etoile \subseteq DOMAIN etoile'
      /\ \A s \in DOMAIN etoile : etoile'[s] = etoile[s]
      /\ \A s \in DOMAIN etoile' : s \in DOMAIN etoile \/ (s = f /\ etoile'[s] = new)
      /\ star \in DOMAIN etoile'
  <2>1. CASE known
    <3>1. etoile' = etoile /\ star = corres_read[i].star /\ i \in DOMAIN corres_read
      BY <1>1, <2>1
    <3>2. corres_read[i].star \in DOMAIN etoile
      BY <1>3, <3>1, Zenon DEF InodesOK
    <3> HIDE DEF star, i, f
    <3> QED BY <3>1, <3>2
  <2>2. CASE ~known
    <3>1. etoile' = With(etoile, f, new) /\ star = f
      BY <1>1, <2>2
    <3> HIDE DEF star, f
    <3> QED BY <1>2, <3>1 DEF With
  <2> QED BY <2>1, <2>2
<1>7. \A j \in DOMAIN corres_read' : corres_read'[j].star \in DOMAIN etoile'
  <2>1. \A j \in DOMAIN corres_read : corres_read[j].star \in DOMAIN etoile'
    BY <1>3, <1>6 DEF InodesOK
  <2>2. CASE corres_read' = corres_read
    BY <2>1, <2>2
  <2>3. CASE corres_read' = [j \in DOMAIN corres_read \ {i} |-> corres_read[j]]
    BY <2>1, <2>3
  <2>4. CASE corres_read' = With(corres_read, i, [star |-> e'.star, count |-> left])
    <3> DEFINE x == [star |-> e'.star, count |-> left]
    <3>1. x.star \in DOMAIN etoile'
      BY <1>5, <1>6
    <3>2. corres_read' = With(corres_read, i, x)
      BY <2>4
    <3> HIDE DEF x, i
    <3> QED BY <2>1, <3>1, <3>2 DEF With
  <2> QED BY <1>1, <2>2, <2>3, <2>4
<1> HIDE DEF star, known, i, f, links
<1>8. cat' = cat /\ disk' = disk /\ clock' = clock /\ hidden' = hidden
  BY <1>1 DEF user
<1>9. Busy' /\ Where' = Where
  <2>1. Busy'
    BY <1>1 DEF Busy
  <2> QED BY <1>1, <1>2, <1>5, <2>1 DEF Where
<1>10. TreeOK' /\ CursorsOK' /\ UsersOK' /\ ArchivesOK'
  BY <1>1, <1>3, <1>9, Kept DEF IInv
<1>11. InodesOK'
  <2>1. \A p \in DOMAIN cat :
          cat[p].kind = "file" => cat[p].star \in DOMAIN etoile' /\ etoile'[cat[p].star].wrote
    BY <1>3, <1>6 DEF InodesOK
  <2>2. ASSUME NEW s \in DOMAIN etoile'
        PROVE  /\ s \in Path /\ Reached(cat, s)
               /\ etoile'[s] \in Stars /\ etoile'[s].mtime <= clock
               /\ etoile'[s].wrote => Consistent(etoile'[s])
    <3>1. CASE s \in DOMAIN etoile
      <4>1. etoile'[s] = etoile[s]
        BY <1>6, <3>1
      <4> QED BY <1>3, <3>1, <4>1, Zenon DEF InodesOK
    <3>2. CASE s = f /\ etoile'[s] = new
      BY <1>2, <1>4, <3>2
    <3> QED BY <1>6, <3>1, <3>2
  <2> QED BY <1>7, <1>8, <2>1, <2>2, Zenon DEF InodesOK, Reached, Consistent, Matching
<1>12. WalkOK'
  <2>1. Waiting(pile)' = Waiting(Popped) /\ Levels(pile, current_dir)' = Levels(Popped, current_dir)
    BY <1>1, Zenon DEF Waiting, Levels
  <2>2. Opened(cat, Where)'
    BY <1>2, <1>8, <1>9 DEF Opened
  <2>3. Waiting(Popped) \cap (DOMAIN cat \cup DOMAIN etoile') = {}
    BY <1>2, <1>3, <1>6 DEF WalkOK
  <2> QED BY <1>1, <1>2, <1>8, <2>1, <2>2, <2>3 DEF WalkOK
<1>13. EntryOK'
  <2>1. Waiting(pile)' = Waiting(Popped)
    BY <1>1, Zenon DEF Waiting
  <2> QED BY <1>2, <1>5, <1>6, <1>8, <1>9, <2>1 DEF EntryOK
<1>14. Covered'
  <2>1. \A p \in Path : Reached(cat, p) /\ p \notin DOMAIN cat /\ p \notin hidden => p \in Waiting(pile)
    BY <1>2, <1>3, Zenon DEF Covered
  <2>2. \A p \in Path : (Reached(cat, p))' => Reached(cat, p)
    BY <1>8, Zenon DEF Reached
  <2>3. Waiting(pile)' = Waiting(Popped)
    BY <1>1, Zenon DEF Waiting
  <2>4. \A p \in Path : disk[p] = "none" => p \in hidden
    BY <1>3, Zenon DEF Covered
  <2> QED BY <1>2, <1>5, <1>8, <1>9, <2>1, <2>2, <2>3, <2>4 DEF Covered
<1>15. CopyOK'
  BY <1>1 DEF CopyOK
<1> QED BY <1>1, <1>10, <1>11, <1>12, <1>13, <1>14, <1>15 DEF IInv, BackupOK, Copies

\* The three cursors leave a directory together.
LEMMA EndDirectoryKeeps ==
  ASSUME IInv, EndDirectory
  PROVE  IInv' /\ archives' = archives
<1>1. /\ pc = "read" /\ Last(pile) = {} /\ Len(pile) > 1
      /\ pile' = Front(pile) /\ current_dir' = Front(current_dir)
      /\ current_add' = Front(current_add)
      /\ UNCHANGED <<user, pc, mask, corres_read, e, cat, etoile, copying, wasted_bytes,
                     archives, history>>
  BY DEF EndDirectory, SkipDirectory
<1>2. WalkOK /\ CursorsOK /\ TreeOK /\ InodesOK /\ Covered
  BY <1>1 DEF IInv, BackupOK
<1>3. ~Busy /\ ~Busy' /\ Where = current_dir /\ Where' = current_dir'
  BY <1>1 DEF Busy, Where
<1>4. /\ current_dir \in Dir /\ Levels(pile, current_dir) /\ Opened(cat, current_dir)
      /\ Waiting(pile) \cap (DOMAIN cat \cup DOMAIN etoile) = {}
  BY <1>2, <1>3 DEF WalkOK
<1>5. current_dir \in Path
  <2>1. Len(current_dir) # 0
    <3>1. Len(pile) = Len(current_dir) + 1 /\ Len(current_dir) \in Nat
      BY <1>4, LevelsType
    <3> QED BY <1>1, <3>1
  <2>2. Len(<<>>) = 0
    OBVIOUS
  <2> QED BY <1>4, <2>1, <2>2 DEF Dir
<1>6. /\ Front(current_dir) \in Dir /\ Levels(Front(pile), Front(current_dir))
      /\ Waiting(Front(pile)) = Waiting(pile)
  <2>1. /\ Front(current_dir) \in Dir /\ Levels(Front(pile), Front(current_dir))
        /\ Waiting(Front(pile)) \subseteq Waiting(pile)
        /\ Waiting(pile) \subseteq Waiting(Front(pile)) \cup Last(pile)
    BY <1>4, <1>5, LevelsLeft
  <2> QED BY <1>1, <2>1
<1>7. TreeOK' /\ InodesOK' /\ UsersOK' /\ ArchivesOK'
  BY <1>1, <1>2, Kept DEF user, IInv
<1>8. WalkOK'
  <2>1. Opened(cat, Front(current_dir))
    BY <1>2, <1>4, <1>5, OpenedAbove
  <2>2. Opened(cat, Where)'
    BY <1>1, <1>3, <2>1 DEF Opened
  <2>3. /\ Waiting(pile)' = Waiting(Front(pile))
        /\ Levels(pile, current_dir)' = Levels(Front(pile), Front(current_dir))
    BY <1>1, Zenon DEF Waiting, Levels
  <2> QED BY <1>1, <1>4, <1>6, <2>2, <2>3 DEF WalkOK
<1>9. EntryOK'
  BY <1>3 DEF EntryOK
<1>10. CursorsOK'
  <2>1. /\ current_add = current_dir
        /\ current_compare \in Seq(Component) /\ out_compare \in Seq(Component)
        /\ current_compare \o out_compare = current_dir
        /\ out_compare # <<>> => NotADirectory(Append(current_compare, Head(out_compare)))
    BY <1>2, <1>3 DEF CursorsOK
  <2>2. current_add' = Where'
    BY <1>1, <1>3, <2>1
  <2>3. CASE out_compare # <<>>
    <3>1. out_compare' = Front(out_compare) /\ current_compare' = current_compare
      BY <2>3 DEF EndDirectory
    <3>2. /\ current_compare \o Front(out_compare) = Front(current_dir)
          /\ Front(out_compare) \in Seq(Component)
          /\ Front(out_compare) # <<>> => Head(Front(out_compare)) = Head(out_compare)
      BY <2>1, <2>3, Concatenated
    <3>3. out_compare' # <<>> => NotADirectory(Append(current_compare', Head(out_compare')))
      BY <2>1, <2>3, <3>1, <3>2
    <3>4. (out_compare # <<>> => NotADirectory(Append(current_compare, Head(out_compare))))'
      BY <1>1, <3>3, Zenon DEF NotADirectory, Reference
    <3> QED BY <1>1, <1>3, <2>1, <2>2, <3>1, <3>2, <3>4 DEF CursorsOK
  <2>4. CASE out_compare = <<>>
    <3>1. current_compare' = Front(current_compare) /\ out_compare' = <<>>
      BY <2>4 DEF EndDirectory
    <3>2. current_compare = current_dir
      BY <2>1, <2>4, Concatenated
    <3>3. Front(current_dir) \in Seq(Component)
      BY <1>6, PathType
    <3>4. Front(current_dir) \o <<>> = Front(current_dir) /\ <<>> \in Seq(Component)
      BY <3>3, Concatenated
    <3> QED BY <1>1, <1>3, <2>2, <3>1, <3>2, <3>3, <3>4 DEF CursorsOK
  <2> QED BY <2>3, <2>4
<1>11. Covered'
  <2>1. hidden' = hidden /\ disk' = disk /\ cat' = cat
    BY <1>1 DEF history, user
  <2>2. Waiting(pile)' = Waiting(pile)
    BY <1>1, <1>6, Zenon DEF Waiting
  <2>3. \A p \in Path : Reached(cat, p) /\ p \notin DOMAIN cat /\ p \notin hidden => p \in Waiting(pile)
    BY <1>2, <1>3, Zenon DEF Covered
  <2>4. \A p \in Path : (Reached(cat, p))' => Reached(cat, p)
    BY <2>1, Zenon DEF Reached
  <2>5. \A p \in Path : disk[p] = "none" => p \in hidden
    BY <1>2, Zenon DEF Covered
  <2> QED BY <1>3, <2>1, <2>2, <2>3, <2>4, <2>5 DEF Covered
<1>12. CopyOK'
  BY <1>1 DEF CopyOK
<1> QED BY <1>1, <1>7, <1>8, <1>9, <1>10, <1>11, <1>12 DEF IInv, BackupOK, Copies, history

\* A backup starts with the names of the root, of which those that are not
\* there are hidden.
LEMMA StartKeeps ==
  ASSUME IInv, NEW m \in Masks, Start(m)
  PROVE  IInv' /\ archives' = archives
<1> DEFINE names == Listing(<<>>)
<1>1. /\ pc' = "read" /\ current_dir' = <<>> /\ pile' = <<names>> /\ corres_read' = Empty
      /\ current_compare' = <<>> /\ out_compare' = <<>>
      /\ current_add' = <<>> /\ cat' = Empty /\ etoile' = Empty
      /\ hidden' = {p \in Path : disk[p] = "none"}
      /\ UNCHANGED <<user, e, copying, archives, sure, undated>>
  BY DEF Start
<1>2. DOMAIN Empty = {}
  BY DEF Empty
<1>3. \A q \in names : q \in Path /\ Front(q) = <<>>
  BY DEF Listing
<1>4. disk' = disk
  BY <1>1 DEF user
<1>5. \A q \in Path : Front(q) = <<>> /\ disk[q] # "none" => q \in names
  BY DEF Listing
<1> HIDE DEF names
<1>6. Levels(pile', <<>>) /\ Waiting(pile') = names
  BY <1>1, <1>3, LevelsStart
<1>7. ~Busy' /\ Where' = <<>>
  BY <1>1 DEF Busy, Where
<1>8. /\ Waiting(pile)' = Waiting(pile')
      /\ Levels(pile, current_dir)' = Levels(pile', current_dir')
  BY Zenon DEF Waiting, Levels
<1>9. WalkOK'
  <2>1. Opened(cat, Where)'
    BY <1>7 DEF Opened
  <2>2. <<>> \in Dir
    BY DEF Dir
  <2> QED BY <1>1, <1>2, <1>6, <1>8, <2>1, <2>2 DEF WalkOK
<1>10. EntryOK' /\ TreeOK' /\ InodesOK'
  BY <1>1, <1>2, <1>7 DEF EntryOK, TreeOK, InodesOK
<1>11. CursorsOK'
  <2>1. <<>> \in Seq(Component) /\ <<>> \o <<>> = <<>>
    BY EmptySeq, ConcatEmptySeq
  <2> QED BY <1>1, <1>7, <2>1 DEF CursorsOK
<1>12. Covered'
  <2>1. ASSUME NEW p \in Path, (Reached(cat, p))', p \notin hidden'
        PROVE  p \in Waiting(pile')
    <3>1. Front(p) = <<>>
      BY <1>1, <1>2, <2>1, ReachedIff
    <3> QED BY <1>1, <1>5, <1>6, <2>1, <3>1
  <2> QED BY <1>1, <1>4, <1>7, <1>8, <2>1 DEF Covered
<1>13. CopyOK'
  BY <1>1 DEF CopyOK
<1>14. UsersOK' /\ ArchivesOK'
  BY <1>1, Kept DEF IInv
<1> QED BY <1>1, <1>9, <1>10, <1>11, <1>12, <1>13, <1>14 DEF IInv, BackupOK, Copies
-----------------------------------------------------------------------------
(* Saving an entry *)

\* Where an entry goes in the catalogue.
LEMMA AddedAt ==
  ASSUME IInv, Busy, NEW kind, Add(kind)
  PROVE  /\ cat' = With(cat, e.path, [kind |-> kind, star |-> e.star])
         /\ e.path \in Path /\ e.path \notin DOMAIN cat /\ Front(e.path) = Where
         /\ e.path # <<>> /\ Name \in Component /\ Append(Where, Name) = e.path
         /\ WalkOK /\ EntryOK /\ CursorsOK /\ TreeOK /\ InodesOK /\ Covered /\ CopyOK
<1>1. WalkOK /\ EntryOK /\ CursorsOK /\ TreeOK /\ InodesOK /\ Covered /\ CopyOK
  BY DEF IInv, BackupOK, Busy
<1>2. e.path \in Path /\ e.path \notin DOMAIN cat /\ Front(e.path) = Where
  BY <1>1 DEF EntryOK
<1>3. /\ e.path # <<>> /\ Last(e.path) \in Component
      /\ e.path = Append(Front(e.path), Last(e.path))
  BY <1>2, PathType
<1>4. current_add = Where
  BY <1>1 DEF CursorsOK
<1>5. Append(Where, Name) = e.path /\ Name \in Component
  BY <1>2, <1>3 DEF Name
<1>6. cat' = With(cat, e.path, [kind |-> kind, star |-> e.star])
  BY <1>4, <1>5 DEF Add
<1> QED BY <1>1, <1>2, <1>3, <1>5, <1>6

\* An entry that nothing is below: a file, or what is ignored, with what was
\* to be read of it.
LEMMA LeafKeeps ==
  ASSUME IInv, Busy, NEW kind \in {"file", "ignored", "ignored_dir"}, Add(kind), pc' = "read",
         IF e.dir THEN SkipDirectory ELSE UNCHANGED <<pile, current_dir>>,
         kind = "file" => ~e.dir /\ etoile'[e.star].wrote,
         DOMAIN etoile' = DOMAIN etoile,
         \A s \in DOMAIN etoile :
           /\ etoile'[s] \in Stars /\ etoile'[s].mtime <= clock
           /\ etoile[s].wrote => etoile'[s].wrote
           /\ etoile'[s].wrote => Consistent(etoile'[s]),
         UNCHANGED <<corres_read, reference, current_add, archives, hidden, disk, clock>>
  PROVE  BackupOK'
<1> DEFINE x == [kind |-> kind, star |-> e.star]
           p == e.path
<1>1. /\ cat' = With(cat, p, x) /\ p \in Path /\ p \notin DOMAIN cat /\ Front(p) = Where
      /\ p # <<>>
      /\ WalkOK /\ EntryOK /\ CursorsOK /\ TreeOK /\ InodesOK /\ Covered
  BY AddedAt
<1>2. x.kind = kind /\ x.star = e.star /\ x.kind # "dir"
  OBVIOUS
<1>3. /\ p \notin Waiting(pile) /\ e.dir \in BOOLEAN /\ (e.dir => current_dir = p)
      /\ (~e.dir => e.star \in DOMAIN etoile)
  BY <1>1 DEF EntryOK
<1> HIDE DEF x, p
<1>4. /\ DOMAIN cat' = {p} \cup DOMAIN cat /\ cat'[p] = x
      /\ \A q \in DOMAIN cat : q # p /\ cat'[q] = cat[q]
      /\ \A q : Reached(cat, q) => Reached(cat', q)
      /\ \A d : Opened(cat, d) => Opened(cat', d)
      /\ \A q \in Path : Reached(cat', q) => Reached(cat, q) /\ Front(q) # p
  <2> DEFINE c == With(cat, p, x)
  <2>1. TreeOK /\ p \in Path /\ p \notin DOMAIN cat
    BY <1>1
  <2>2. /\ DOMAIN c = {p} \cup DOMAIN cat /\ c[p] = x
        /\ \A q \in DOMAIN cat : q # p /\ c[q] = cat[q]
        /\ \A q : Reached(cat, q) => Reached(c, q)
        /\ \A d : Opened(cat, d) => Opened(c, d)
        /\ \A q \in Path : Reached(c, q) => Reached(cat, q) \/ Front(q) = p
        /\ \A q \in Path : Reached(c, q) /\ Front(q) = p => x.kind = "dir"
    BY <2>1, ReachedWith, Zenon
  <2>3. cat' = c
    BY <1>1
  <2> HIDE DEF c
  <2> QED BY <1>2, <2>2, <2>3
<1>5. ~Busy' /\ Where' = current_dir'
  BY DEF Busy, Where
<1>6. /\ current_dir' = Where /\ current_dir' \in Dir /\ Levels(pile', current_dir')
      /\ Waiting(pile') \subseteq Waiting(pile)
      /\ \A q \in Waiting(pile) : q \in Waiting(pile') \/ Front(q) = p
  <2>1. current_dir \in Dir /\ Levels(pile, current_dir)
    BY <1>1 DEF WalkOK
  <2>2. CASE e.dir
    <3>1. pile' = Front(pile) /\ current_dir' = Front(p) /\ current_dir = p
      BY <1>3, <2>2 DEF SkipDirectory
    <3>2. Levels(pile, p) /\ Where = Front(p)
      BY <1>1, <2>1, <3>1
    <3>3. /\ Front(p) \in Dir /\ Levels(Front(pile), Front(p))
          /\ Waiting(Front(pile)) \subseteq Waiting(pile)
          /\ Waiting(pile) \subseteq Waiting(Front(pile)) \cup Last(pile)
      BY <1>1, <3>2, LevelsLeft
    <3>4. \A q \in Last(pile) : Front(q) = p
      BY <2>1, <3>1, LevelsType
    <3> QED BY <3>1, <3>2, <3>3, <3>4
  <2>3. CASE ~e.dir
    <3>1. pile' = pile /\ current_dir' = current_dir /\ Where = current_dir
      BY <2>3 DEF Where
    <3> QED BY <2>1, <3>1
  <2> QED BY <1>3, <2>2, <2>3
<1>7. Waiting(pile)' = Waiting(pile') /\ Levels(pile, current_dir)' = Levels(pile', current_dir')
  BY Zenon DEF Waiting, Levels
<1>8. Opened(cat, Where)' /\ \A q : Reached(cat, q)' = Reached(cat', q)
  <2>1. Opened(cat', Where)
    BY <1>1, <1>4 DEF WalkOK
  <2>2. Opened(cat', Where')
    BY <1>5, <1>6, <2>1
  <2> QED BY <2>2, Zenon DEF Opened, Reached
<1>9. WalkOK'
  BY <1>1, <1>3, <1>4, <1>6, <1>7, <1>8 DEF WalkOK
<1>10. EntryOK' /\ CopyOK'
  BY <1>5 DEF EntryOK, CopyOK
<1>11. CursorsOK'
  BY <1>1, <1>5, <1>6, Kept
<1>12. TreeOK'
  <2>1. Reached(cat, p)
    BY <1>1, OpenedReaches DEF WalkOK
  <2>2. ASSUME NEW q \in DOMAIN cat'
        PROVE  /\ q \in Path /\ Reached(cat', q)
               /\ cat'[q].kind \in {"dir", "file", "ignored", "ignored_dir"}
    <3>1. CASE q = p
      BY <1>1, <1>2, <1>4, <2>1, <3>1
    <3>2. CASE q \in DOMAIN cat
      BY <1>1, <1>4, <3>2 DEF TreeOK
    <3> QED BY <1>4, <3>1, <3>2
  <2> QED BY <1>8, <2>2 DEF TreeOK
<1>13. InodesOK'
  <2>1. \A q \in DOMAIN cat' :
          cat'[q].kind = "file" => cat'[q].star \in DOMAIN etoile' /\ etoile'[cat'[q].star].wrote
    BY <1>1, <1>2, <1>3, <1>4 DEF InodesOK
  <2>2. \A s \in DOMAIN etoile' : s \in Path /\ Reached(cat', s)
    BY <1>1, <1>4 DEF InodesOK
  <2>3. \A i \in DOMAIN corres_read' : corres_read'[i].star \in DOMAIN etoile'
    BY <1>1, Zenon DEF InodesOK
  <2> QED BY <1>8, <2>1, <2>2, <2>3 DEF InodesOK, Consistent, Matching
<1>14. Covered'
  <2>1. \A q \in Path : Reached(cat, q) /\ q \notin DOMAIN cat /\ q \notin hidden =>
                          q \in Waiting(pile) \/ q = p
    BY <1>1 DEF Covered, p
  <2>2. \A q \in Path : Reached(cat', q) /\ q \notin DOMAIN cat' /\ q \notin hidden =>
                          q \in Waiting(pile')
    BY <1>4, <1>6, <2>1
  <2>3. \A q \in Path : disk[q] = "none" => q \in hidden
    BY <1>1, Zenon DEF Covered
  <2> QED BY <1>5, <1>7, <1>8, <2>2, <2>3 DEF Covered
<1> QED BY <1>9, <1>10, <1>11, <1>12, <1>13, <1>14 DEF BackupOK

\* A directory that is added is entered: its names, known since it was read,
\* are those that are reached from now on.
LEMMA AddDirectoryKeeps ==
  ASSUME IInv, AddDirectory
  PROVE  IInv' /\ archives' = archives
<1> DEFINE p == e.path
           x == [kind |-> "dir", star |-> e.star]
<1>1. /\ pc = "entry" /\ e.dir /\ pc' = "read" /\ CompareDirectory /\ Add("dir")
      /\ current_add' = Append(current_add, Name)
      /\ UNCHANGED <<user, mask, walk, e, etoile, copying, wasted_bytes, archives, history>>
  BY DEF AddDirectory
<1>2. Busy
  BY <1>1 DEF Busy
<1>3. /\ cat' = With(cat, p, x) /\ p \in Path /\ p \notin DOMAIN cat /\ Front(p) = Where
      /\ p # <<>> /\ Name \in Component /\ Append(Where, Name) = p
      /\ WalkOK /\ EntryOK /\ CursorsOK /\ TreeOK /\ InodesOK /\ Covered
  BY <1>1, <1>2, AddedAt
<1>4. x.kind = "dir"
  OBVIOUS
<1>5. p \notin Waiting(pile) /\ current_dir = p /\ Opened(cat, Where)
  BY <1>1, <1>2, <1>3 DEF EntryOK, WalkOK
<1> HIDE DEF p, x
<1>6. /\ DOMAIN cat' = {p} \cup DOMAIN cat /\ cat'[p] = x
      /\ \A q \in DOMAIN cat : q # p /\ cat'[q] = cat[q]
      /\ \A q : Reached(cat, q) => Reached(cat', q)
      /\ \A q \in Path : Reached(cat', q) => Reached(cat, q) \/ Front(q) = p
  <2> DEFINE c == With(cat, p, x)
  <2>1. TreeOK /\ p \in Path /\ p \notin DOMAIN cat
    BY <1>3
  <2>2. /\ DOMAIN c = {p} \cup DOMAIN cat /\ c[p] = x
        /\ \A q \in DOMAIN cat : q # p /\ c[q] = cat[q]
        /\ \A q : Reached(cat, q) => Reached(c, q)
        /\ \A d : Opened(cat, d) => Opened(c, d)
        /\ \A q \in Path : Reached(c, q) => Reached(cat, q) \/ Front(q) = p
        /\ \A q \in Path : Reached(c, q) /\ Front(q) = p => x.kind = "dir"
    BY <2>1, ReachedWith, Zenon
  <2>3. cat' = c
    BY <1>3
  <2> HIDE DEF c
  <2> QED BY <2>2, <2>3
<1>7. /\ pile' = pile /\ current_dir' = p /\ corres_read' = corres_read /\ etoile' = etoile
      /\ hidden' = hidden /\ disk' = disk /\ clock' = clock /\ sure' = sure
  BY <1>1, <1>5 DEF walk, user, history
<1>8. ~Busy' /\ Where' = p
  BY <1>1, <1>7 DEF Busy, Where
<1>9. \A q : Reached(cat, q)' = Reached(cat', q)
  BY Zenon DEF Reached
<1>10. WalkOK'
  <2>1. Opened(cat, Where)'
    BY <1>4, <1>6, <1>8 DEF Opened
  <2>2. Waiting(pile)' = Waiting(pile) /\ Levels(pile, current_dir)' = Levels(pile, current_dir)
    BY <1>5, <1>7, Zenon DEF Waiting, Levels
  <2>3. p \in Dir
    BY <1>3, PathType
  <2> QED BY <1>3, <1>5, <1>6, <1>7, <2>1, <2>2, <2>3 DEF WalkOK
<1>11. EntryOK' /\ CopyOK'
  BY <1>1, <1>8 DEF EntryOK, CopyOK
<1>12. CursorsOK'
  <2>1. /\ current_add = Where
        /\ current_compare \in Seq(Component) /\ out_compare \in Seq(Component)
        /\ current_compare \o out_compare = Where
        /\ out_compare # <<>> => NotADirectory(Append(current_compare, Head(out_compare)))
    BY <1>3 DEF CursorsOK
  <2>2. current_add' = p
    BY <1>1, <1>3, <2>1
  <2>3. \A q : NotADirectory(q)' = NotADirectory(q)
    BY <1>1, Zenon DEF NotADirectory, Reference
  <2>4. CASE InReference("dir")
    <3>1. current_compare' = Found /\ out_compare' = out_compare /\ out_compare = <<>>
      BY <1>1, <2>4, Zenon DEF CompareDirectory, InReference
    <3>2. current_compare = Where
      BY <2>1, <3>1, Concatenated
    <3>3. Found = p /\ p \in Seq(Component)
      BY <1>3, <3>2, PathType DEF Found, Dir
    <3>4. p \o <<>> = p /\ <<>> \in Seq(Component)
      BY <3>3, Concatenated
    <3> QED BY <1>8, <2>2, <3>1, <3>3, <3>4 DEF CursorsOK
  <2>5. CASE ~InReference("dir")
    <3>1. out_compare' = Append(out_compare, Name) /\ current_compare' = current_compare
      BY <1>1, <2>5, Zenon DEF CompareDirectory
    <3>2. current_compare \o Append(out_compare, Name) = Append(Where, Name)
      <4>1. current_compare \in Seq(Component) /\ out_compare \in Seq(Component) /\ Name \in Component
        BY <1>3, <2>1
      <4>2. current_compare \o Append(out_compare, Name) = Append(current_compare \o out_compare, Name)
        BY <4>1, Concatenated
      <4> QED BY <2>1, <4>2
    <3>3. Append(out_compare, Name) \in Seq(Component)
      BY <1>3, <2>1, AppendProperties
    <3>4. NotADirectory(Append(current_compare, Head(Append(out_compare, Name))))
      <4>1. CASE out_compare = <<>>
        <5>1. Head(Append(out_compare, Name)) = Name
          BY <1>3, <2>1, <4>1, Concatenated
        <5>2. NotADirectory(Found)
          BY <2>5, <4>1, Zenon DEF InReference, NotADirectory
        <5> QED BY <5>1, <5>2 DEF Found
      <4>2. CASE out_compare # <<>>
        <5>1. Head(Append(out_compare, Name)) = Head(out_compare)
          BY <1>3, <2>1, <4>2, Concatenated
        <5> QED BY <2>1, <4>2, <5>1
      <4> QED BY <4>1, <4>2
    <3>5. (NotADirectory(Append(current_compare, Head(out_compare))))'
      BY <1>1, <3>1, <3>4, Zenon DEF NotADirectory, Reference
    <3> QED BY <1>3, <1>8, <2>1, <2>2, <3>1, <3>2, <3>3, <3>5 DEF CursorsOK
  <2> QED BY <2>4, <2>5
<1>13. TreeOK'
  <2>1. Reached(cat, p)
    BY <1>3, <1>5, OpenedReaches
  <2>2. ASSUME NEW q \in DOMAIN cat'
        PROVE  /\ q \in Path /\ Reached(cat', q)
               /\ cat'[q].kind \in {"dir", "file", "ignored", "ignored_dir"}
    <3>1. CASE q = p
      BY <1>3, <1>4, <1>6, <2>1, <3>1
    <3>2. CASE q \in DOMAIN cat
      BY <1>3, <1>6, <3>2 DEF TreeOK
    <3> QED BY <1>6, <3>1, <3>2
  <2> QED BY <1>9, <2>2 DEF TreeOK
<1>14. InodesOK'
  <2>1. \A q \in DOMAIN cat' :
          cat'[q].kind = "file" => cat'[q].star \in DOMAIN etoile /\ etoile[cat'[q].star].wrote
    BY <1>3, <1>4, <1>6 DEF InodesOK
  <2>2. \A s \in DOMAIN etoile : s \in Path /\ Reached(cat', s)
    BY <1>3, <1>6 DEF InodesOK
  <2>3. \A s \in DOMAIN etoile : /\ etoile[s] \in Stars /\ etoile[s].mtime <= clock
                                 /\ etoile[s].wrote => Consistent(etoile[s])
    BY <1>3, Zenon DEF InodesOK
  <2>4. \A i \in DOMAIN corres_read : corres_read[i].star \in DOMAIN etoile
    BY <1>3, Zenon DEF InodesOK
  <2> QED BY <1>7, <1>9, <2>1, <2>2, <2>3, <2>4 DEF InodesOK, Consistent, Matching
<1>15. Covered'
  <2>1. \A q \in Path : Reached(cat, q) /\ q \notin DOMAIN cat /\ q \notin hidden =>
                          q \in Waiting(pile) \/ q = p
    BY <1>3 DEF Covered, p
  <2>2. \A q \in Path : Front(q) = p /\ q \notin hidden => q \in Waiting(pile)
    <3>1. \A q \in Path : Front(q) = p /\ q \notin hidden => q \in Last(pile)
      BY <1>1, <1>2, <1>3 DEF Covered, p
    <3>2. \A q \in Last(pile) : q \in Waiting(pile)
      BY <1>3, LevelsType DEF WalkOK
    <3> QED BY <3>1, <3>2
  <2>3. \A q \in Path : Reached(cat', q) /\ q \notin DOMAIN cat' /\ q \notin hidden =>
                          q \in Waiting(pile)
    BY <1>6, <2>1, <2>2
  <2>4. \A q \in Path : disk[q] = "none" => q \in hidden
    BY <1>3, Zenon DEF Covered
  <2>5. Waiting(pile)' = Waiting(pile)
    BY <1>7, Zenon DEF Waiting
  <2> QED BY <1>7, <1>8, <1>9, <2>3, <2>4, <2>5 DEF Covered
<1>16. UsersOK' /\ ArchivesOK'
  BY <1>1, Kept DEF IInv
<1> QED BY <1>1, <1>7, <1>10, <1>11, <1>12, <1>13, <1>14, <1>15, <1>16 DEF IInv, BackupOK, Copies

\* A date that is set back is one that was recorded.
LEMMA DateSetBack ==
  ASSUME IInv, pc \in {"copy", "date"}, NEW dirty, MakeDate(dirty)
  PROVE  /\ UsersOK' /\ disk' = disk /\ version' = version /\ clock' = clock
         /\ e.star \in DOMAIN etoile /\ ~e.dir
<1> DEFINE date == etoile[e.star].mtime
           i == disk[e.path]
<1>1. disk' = disk /\ version' = version /\ clock' = clock
  BY DEF MakeDate
<1>2. InodesOK /\ EntryOK /\ CopyOK /\ UsersOK
  BY DEF IInv, BackupOK
<1>3. ~e.dir /\ Busy
  BY <1>2 DEF CopyOK, Busy
<1>4. e.star \in DOMAIN etoile
  BY <1>2, <1>3 DEF EntryOK
<1>5. date \in Nat /\ date <= clock
  BY <1>2, <1>4 DEF InodesOK, Stars
<1>6. mtime' = mtime \/ (~AlterAtime /\ i \in Inode /\ mtime' = [mtime EXCEPT ![i] = date])
  BY DEF MakeDate
<1> HIDE DEF i, date
<1>7. mtime' \in [Inode -> Nat] /\ \A j \in Inode : mtime'[j] <= clock
  BY <1>2, <1>5, <1>6 DEF UsersOK
<1>8. AlterAtime => mtime' = version
  BY <1>2, <1>6 DEF UsersOK
<1>9. UsersOK'
  BY <1>1, <1>2, <1>7, <1>8 DEF UsersOK
<1> QED BY <1>1, <1>3, <1>4, <1>9

\* The inodes that an entry leaves alone.
LEMMA InodesAre ==
  ASSUME IInv, Busy
  PROVE  /\ \A s \in DOMAIN etoile :
              /\ etoile[s] \in Stars /\ etoile[s].mtime <= clock
              /\ etoile[s].wrote => Consistent(etoile[s])
         /\ ~e.dir => e.star \in DOMAIN etoile
         /\ e.dir \in BOOLEAN
<1>1. InodesOK /\ EntryOK
  BY DEF IInv, BackupOK, Busy
<1> QED BY <1>1, Zenon DEF InodesOK, EntryOK

\* What is excluded.
LEMMA IgnoreKeeps ==
  ASSUME IInv, Ignore
  PROVE  IInv' /\ archives' = archives
<1>1. /\ pc = "entry" /\ pc' = "read"
      /\ Add(IF e.dir /\ EmptyDir THEN "ignored_dir" ELSE "ignored")
      /\ IF e.dir THEN SkipDirectory ELSE UNCHANGED <<pile, current_dir>>
      /\ UNCHANGED <<user, mask, corres_read, e, reference, current_add, etoile, copying,
                     wasted_bytes, archives, history>>
  BY DEF Ignore
<1>2. Busy
  BY <1>1 DEF Busy
<1>3. PICK kind \in {"ignored", "ignored_dir"} : Add(kind)
  <2>1. CASE e.dir /\ EmptyDir
    BY <1>1, <2>1
  <2>2. CASE ~(e.dir /\ EmptyDir)
    BY <1>1, <2>2
  <2> QED BY <2>1, <2>2
<1>4. /\ kind \in {"file", "ignored", "ignored_dir"}
      /\ kind = "file" => ~e.dir /\ etoile'[e.star].wrote
  BY <1>3
<1>5. UNCHANGED <<corres_read, reference, current_add, archives, hidden, disk, clock>>
  BY <1>1 DEF history, user
<1>6. /\ DOMAIN etoile' = DOMAIN etoile
      /\ \A s \in DOMAIN etoile :
           /\ etoile'[s] \in Stars /\ etoile'[s].mtime <= clock
           /\ etoile[s].wrote => etoile'[s].wrote
           /\ etoile'[s].wrote => Consistent(etoile'[s])
  <2>1. etoile' = etoile
    BY <1>1
  <2> QED BY <1>2, <2>1, InodesAre, Zenon
<1>7. BackupOK'
  BY <1>1, <1>2, <1>3, <1>4, <1>5, <1>6, LeafKeeps
<1>8. UsersOK' /\ ArchivesOK'
  BY <1>1, Kept DEF IInv
<1> QED BY <1>1, <1>7, <1>8 DEF IInv, Copies, history

\* What is recorded of an inode: that it is not saved, or a new date.
LEMMA StarNotSaved ==
  ASSUME NEW r \in Stars
  PROVE  LET u == [r EXCEPT !.saved = FALSE, !.wrote = TRUE]
         IN u \in Stars /\ u.mtime = r.mtime /\ u.wrote = TRUE /\ u.saved = FALSE
BY DEF Stars

\* An inode that is given another date is still one, as much written as before.
LEMMA StarDated ==
  ASSUME NEW r \in Stars, NEW n \in Nat
  PROVE  LET u == [r EXCEPT !.mtime = n]
         IN u \in Stars /\ u.mtime = n /\ u.wrote = r.wrote
BY DEF Stars

\* The inode of the entry is changed, and only that.
LEMMA InodeChanged ==
  ASSUME IInv, Busy, ~e.dir, NEW r, r \in Stars, r.mtime <= clock,
         etoile' = [etoile EXCEPT ![e.star] = r],
         etoile[e.star].wrote => r.wrote,
         r.wrote => Consistent(r)
  PROVE  /\ DOMAIN etoile' = DOMAIN etoile /\ etoile'[e.star] = r
         /\ \A s \in DOMAIN etoile :
              /\ etoile'[s] \in Stars /\ etoile'[s].mtime <= clock
              /\ etoile[s].wrote => etoile'[s].wrote
              /\ etoile'[s].wrote => Consistent(etoile'[s])
<1>1. e.star \in DOMAIN etoile
  BY InodesAre
<1>2. /\ DOMAIN etoile' = DOMAIN etoile /\ etoile'[e.star] = r
      /\ \A s \in DOMAIN etoile : s # e.star => etoile'[s] = etoile[s]
  BY <1>1
<1>3. ASSUME NEW s \in DOMAIN etoile
      PROVE  /\ etoile'[s] \in Stars /\ etoile'[s].mtime <= clock
             /\ etoile[s].wrote => etoile'[s].wrote
             /\ etoile'[s].wrote => Consistent(etoile'[s])
  <2>1. CASE s = e.star
    BY <1>2, <2>1, Zenon
  <2>2. CASE s # e.star
    <3>1. etoile'[s] = etoile[s]
      BY <1>2, <2>2
    <3> QED BY <3>1, InodesAre, Zenon
  <2> QED BY <2>1, <2>2
<1> QED BY <1>2, <1>3

\* A file that is not saved: another link of what is in the catalogue, or one
\* that the reference has of the same date.
LEMMA AddUnsavedKeeps ==
  ASSUME IInv, AddHardLink \/ AddUnchanged
  PROVE  IInv' /\ archives' = archives
<1>1. /\ pc = "entry" /\ pc' = "read" /\ Add("file") /\ ~e.dir
      /\ UNCHANGED <<user, mask, walk, e, reference, current_add, copying, wasted_bytes,
                     archives, history>>
  BY DEF AddHardLink, AddUnchanged, KnownHardLink, ToConsider
<1>2. Busy
  BY <1>1 DEF Busy
<1>3. e.star \in DOMAIN etoile /\ etoile[e.star] \in Stars /\ etoile[e.star].mtime <= clock
  BY <1>1, <1>2, InodesAre
<1>4. /\ DOMAIN etoile' = DOMAIN etoile /\ (etoile'[e.star].wrote)
      /\ \A s \in DOMAIN etoile :
           /\ etoile'[s] \in Stars /\ etoile'[s].mtime <= clock
           /\ etoile[s].wrote => etoile'[s].wrote
           /\ etoile'[s].wrote => Consistent(etoile'[s])
  <2>1. CASE AddHardLink
    <3>1. etoile' = etoile /\ (etoile[e.star].wrote)
      BY <2>1 DEF AddHardLink, KnownHardLink
    <3> QED BY <1>2, <3>1, InodesAre, Zenon
  <2>2. CASE AddUnchanged
    <3> DEFINE s == e.star
               r == [etoile[s] EXCEPT !.saved = FALSE, !.wrote = TRUE]
    <3>1. etoile' = [etoile EXCEPT ![s].saved = FALSE, ![s].wrote = TRUE]
      BY <2>2 DEF AddUnchanged
    <3>2. etoile' = [etoile EXCEPT ![s] = r]
      BY <1>3, <3>1
    <3>3. r \in Stars /\ r.mtime = etoile[s].mtime /\ r.wrote = TRUE /\ r.saved = FALSE
      BY <1>3, StarNotSaved
    <3> HIDE DEF r
    <3>4. Consistent(r) /\ r.mtime <= clock
      BY <1>3, <3>3 DEF Consistent
    <3> QED BY <1>1, <1>2, <3>2, <3>3, <3>4, InodeChanged
  <2> QED BY <2>1, <2>2
<1>5. /\ UNCHANGED <<corres_read, reference, current_add, archives, hidden, disk, clock>>
      /\ UNCHANGED <<pile, current_dir>>
  BY <1>1 DEF history, user, walk
<1>6. BackupOK'
  <2>1. IF e.dir THEN SkipDirectory ELSE UNCHANGED <<pile, current_dir>>
    BY <1>1, <1>5
  <2>2. "file" \in {"file", "ignored", "ignored_dir"}
    OBVIOUS
  <2> QED BY <1>1, <1>2, <1>4, <1>5, <2>1, <2>2, LeafKeeps
<1>7. UsersOK' /\ ArchivesOK'
  BY <1>1, Kept DEF IInv
<1> QED BY <1>1, <1>6, <1>7 DEF IInv, Copies, history

\* A copy that is complete.
LEMMA AddSavedKeeps ==
  ASSUME IInv, AddSaved
  PROVE  IInv' /\ archives' = archives
<1> DEFINE s == e.star
           r == [etoile[s] EXCEPT !.data = copying.data, !.dirty = copying.dirty,
                                  !.wrote = TRUE, !.sure = sure]
<1>1. /\ pc = "date" /\ copying.data # <<>> /\ pc' = "read" /\ MakeDate(copying.dirty)
      /\ Add("file") /\ etoile' = [etoile EXCEPT ![s] = r] /\ copying' = NoCopy
      /\ UNCHANGED <<mask, walk, e, reference, current_add, wasted_bytes, archives,
                     sure, still, hidden>>
  BY DEF AddSaved
<1>2. Busy
  BY <1>1 DEF Busy
<1>3. UsersOK' /\ disk' = disk /\ clock' = clock /\ ~e.dir
  BY <1>1, DateSetBack
<1>4. /\ s \in DOMAIN etoile /\ etoile[s] \in Stars /\ etoile[s].mtime <= clock
  BY <1>2, <1>3, InodesAre
<1>5. /\ copying.data \in Seq(Nat) /\ copying.dirty \in BOOLEAN /\ sure \in BOOLEAN
      /\ copying \in Copies
  BY DEF IInv, Copies
<1>6. /\ r \in Stars /\ r.mtime = etoile[s].mtime /\ r.wrote = TRUE
      /\ r.data = copying.data /\ r.dirty = copying.dirty /\ r.sure = sure
  <2> DEFINE o == etoile[s]
             d == copying.data
             b == copying.dirty
  <2>1. o \in Stars /\ d \in Seq(Nat) /\ b \in BOOLEAN /\ sure \in BOOLEAN
    BY <1>4, <1>5
  <2>2. r = [o EXCEPT !.data = d, !.dirty = b, !.wrote = TRUE, !.sure = sure]
    OBVIOUS
  <2> HIDE DEF o, d, b, r
  <2>3. /\ r \in Stars /\ r.mtime = o.mtime /\ r.wrote = TRUE
        /\ r.data = d /\ r.dirty = b /\ r.sure = sure
    BY <2>1, <2>2 DEF Stars
  <2> QED BY <2>3 DEF o, d, b
<1> HIDE DEF r
<1>7. Consistent(r)
  <2>1. ~copying.dirty /\ sure => Matching(copying.data, etoile[s].mtime)
    BY <1>1, Zenon DEF IInv, BackupOK, CopyOK
  <2> QED BY <1>6, <2>1, Zenon DEF Consistent
<1>8. /\ DOMAIN etoile' = DOMAIN etoile /\ (etoile'[s].wrote)
      /\ \A q \in DOMAIN etoile :
           /\ etoile'[q] \in Stars /\ etoile'[q].mtime <= clock
           /\ etoile[q].wrote => etoile'[q].wrote
           /\ etoile'[q].wrote => Consistent(etoile'[q])
  <2>1. r.mtime <= clock
    BY <1>4, <1>6
  <2> QED BY <1>1, <1>2, <1>3, <1>6, <1>7, <2>1, InodeChanged
<1>9. /\ UNCHANGED <<corres_read, reference, current_add, archives, hidden, disk, clock>>
      /\ UNCHANGED <<pile, current_dir>>
  BY <1>1, <1>3 DEF walk
<1>10. BackupOK'
  <2>1. IF e.dir THEN SkipDirectory ELSE UNCHANGED <<pile, current_dir>>
    BY <1>3, <1>9
  <2>2. "file" \in {"file", "ignored", "ignored_dir"}
    OBVIOUS
  <2> QED BY <1>1, <1>2, <1>3, <1>8, <1>9, <2>1, <2>2, LeafKeeps
<1>11. copying' \in Copies
  BY <1>1, EmptySeq DEF NoCopy, Copies
<1>12. ArchivesOK'
  BY <1>1, Kept DEF IInv
<1> QED BY <1>1, <1>3, <1>10, <1>11, <1>12 DEF IInv

\* A file that cannot be copied is ignored.
LEMMA FailKeeps ==
  ASSUME IInv, Fail
  PROVE  IInv' /\ archives' = archives
<1>1. /\ pc \in {"open", "copy", "check"} /\ pc' = "read" /\ Add("ignored") /\ copying' = NoCopy
      /\ UNCHANGED <<mask, walk, e, reference, current_add, archives, sure, hidden>>
  BY DEF Fail
<1>2. Busy
  BY <1>1 DEF Busy
<1>3. ~e.dir
  BY <1>1, <1>2 DEF IInv, BackupOK, CopyOK, Busy
<1>4. /\ e.star \in DOMAIN etoile /\ etoile[e.star] \in Stars /\ etoile[e.star].mtime <= clock
      /\ etoile[e.star].wrote => Consistent(etoile[e.star])
  BY <1>2, <1>3, InodesAre, Zenon
<1>5. UsersOK' /\ disk' = disk /\ clock' = clock
  <2>1. CASE UNCHANGED user
    BY <2>1, Kept DEF user, IInv
  <2>2. CASE pc = "copy" /\ MakeDate(FALSE)
    BY <2>2, DateSetBack
  <2> QED BY <2>1, <2>2 DEF Fail
<1>6. etoile' = etoile \/ etoile' = [etoile EXCEPT ![e.star].mtime = 0]
  BY DEF Fail
<1>7. /\ DOMAIN etoile' = DOMAIN etoile
      /\ \A q \in DOMAIN etoile :
           /\ etoile'[q] \in Stars /\ etoile'[q].mtime <= clock
           /\ etoile[q].wrote => etoile'[q].wrote
           /\ etoile'[q].wrote => Consistent(etoile'[q])
  <2>1. CASE etoile' = etoile
    BY <1>2, <2>1, InodesAre, Zenon
  <2>2. CASE etoile' = [etoile EXCEPT ![e.star].mtime = 0]
    <3> DEFINE r == [etoile[e.star] EXCEPT !.mtime = 0]
    <3>1. etoile' = [etoile EXCEPT ![e.star] = r]
      BY <1>4, <2>2
    <3>2. r \in Stars /\ r.mtime = 0 /\ r.wrote = etoile[e.star].wrote
      <4>1. 0 \in Nat
        OBVIOUS
      <4> QED BY <1>4, <4>1, StarDated, Zenon
    <3> HIDE DEF r
    <3>3. r.mtime <= clock
      BY <3>2 DEF IInv, UsersOK
    <3>4. ~etoile[e.star].wrote
      BY <1>1 DEF IInv, BackupOK, CopyOK
    <3>5. (etoile[e.star].wrote => r.wrote) /\ (r.wrote => Consistent(r))
      BY <3>2, <3>4
    <3> QED BY <1>2, <1>3, <3>1, <3>2, <3>3, <3>5, InodeChanged
  <2> QED BY <1>6, <2>1, <2>2
<1>8. /\ UNCHANGED <<corres_read, reference, current_add, archives, hidden, disk, clock>>
      /\ UNCHANGED <<pile, current_dir>>
  BY <1>1, <1>5 DEF walk
<1>9. BackupOK'
  <2>1. IF e.dir THEN SkipDirectory ELSE UNCHANGED <<pile, current_dir>>
    BY <1>3, <1>8
  <2>2. "ignored" \in {"file", "ignored", "ignored_dir"} /\ "ignored" # "file"
    OBVIOUS
  <2> QED BY <1>1, <1>2, <1>7, <1>8, <2>1, <2>2, LeafKeeps
<1>10. copying' \in Copies
  BY <1>1, EmptySeq DEF NoCopy, Copies
<1>11. ArchivesOK'
  BY <1>1, Kept DEF IInv
<1> QED BY <1>1, <1>5, <1>9, <1>10, <1>11 DEF IInv

\* While a file is copied, nothing moves.
LEMMA CopyingKeeps ==
  ASSUME IInv, Busy, ~e.dir, pc' \in {"open", "copy", "check", "date"},
         DOMAIN etoile' = DOMAIN etoile,
         \A s \in DOMAIN etoile :
           /\ etoile'[s] \in Stars /\ etoile'[s].mtime <= clock
           /\ etoile[s].wrote => etoile'[s].wrote
           /\ etoile'[s].wrote => Consistent(etoile'[s]),
         UNCHANGED <<walk, e, reference, current_add, cat, archives, hidden, disk, clock>>
  PROVE  WalkOK' /\ EntryOK' /\ CursorsOK' /\ TreeOK' /\ InodesOK' /\ Covered'
<1>1. WalkOK /\ EntryOK /\ CursorsOK /\ TreeOK /\ InodesOK /\ Covered
  BY DEF IInv, BackupOK, Busy
<1>2. /\ pile' = pile /\ current_dir' = current_dir /\ corres_read' = corres_read
      /\ e' = e /\ cat' = cat /\ hidden' = hidden /\ disk' = disk /\ clock' = clock
  BY DEF walk
<1>3. Busy' /\ Where' = Where
  <2>1. Busy'
    BY DEF Busy
  <2> QED BY <1>2, <2>1 DEF Where
<1>4. \A d : (Waiting(pile)' = Waiting(pile)) /\ (Levels(pile, current_dir)' = Levels(pile, current_dir))
             /\ (Reached(cat, d)' = Reached(cat, d)) /\ (Opened(cat, Where)' = Opened(cat, Where))
  BY <1>2, <1>3, Zenon DEF Waiting, Levels, Reached, Opened
<1>5. WalkOK'
  BY <1>1, <1>2, <1>3, <1>4 DEF WalkOK
<1>6. EntryOK'
  BY <1>1, <1>2, <1>3, <1>4 DEF EntryOK
<1>7. CursorsOK' /\ TreeOK'
  BY <1>1, <1>3, Kept
<1>8. InodesOK'
  BY <1>1, <1>2, <1>4 DEF InodesOK, Consistent, Matching
<1>9. Covered'
  <2>1. \A q \in Path : Reached(cat, q) /\ q \notin DOMAIN cat /\ q \notin hidden =>
                          q \in Waiting(pile) \/ q = e.path
    BY <1>1 DEF Covered
  <2>2. \A q \in Path : disk[q] = "none" => q \in hidden
    BY <1>1, Zenon DEF Covered
  <2> QED BY <1>2, <1>3, <1>4, <2>1, <2>2 DEF Covered
<1> QED BY <1>5, <1>6, <1>7, <1>8, <1>9

\* A file is going to be copied, or copied again.
LEMMA SaveKeeps ==
  ASSUME IInv, Save \/ CopyAgain
  PROVE  IInv' /\ archives' = archives
<1>1. /\ pc' = "open" /\ pc \in {"entry", "date"}
      /\ UNCHANGED <<mask, walk, e, reference, catalogue, copying, wasted_bytes, archives,
                     sure, still, hidden>>
  BY DEF Save, CopyAgain, ToConsider, history
<1>2. Busy
  BY <1>1 DEF Busy
<1>3. ~e.dir /\ ~etoile[e.star].wrote
  <2>1. CASE Save
    BY <2>1 DEF Save, ToConsider, KnownHardLink
  <2>2. CASE CopyAgain
    BY <1>2, <2>2 DEF CopyAgain, IInv, BackupOK, CopyOK
  <2> QED BY <2>1, <2>2
<1>4. UsersOK' /\ disk' = disk /\ clock' = clock
  <2>1. CASE Save
    BY <2>1, Kept DEF Save, user, IInv
  <2>2. CASE CopyAgain
    <3>1. pc = "date" /\ MakeDate(FALSE)
      BY <2>2 DEF CopyAgain
    <3> QED BY <3>1, DateSetBack
  <2> QED BY <2>1, <2>2
<1>5. etoile' = etoile /\ cat' = cat /\ current_add' = current_add
  BY <1>1 DEF catalogue
<1>6. \A s \in DOMAIN etoile :
        /\ etoile'[s] \in Stars /\ etoile'[s].mtime <= clock
        /\ etoile[s].wrote => etoile'[s].wrote
        /\ etoile'[s].wrote => Consistent(etoile'[s])
  BY <1>2, <1>5, InodesAre, Zenon
<1>7. WalkOK' /\ EntryOK' /\ CursorsOK' /\ TreeOK' /\ InodesOK' /\ Covered'
  BY <1>1, <1>2, <1>3, <1>4, <1>5, <1>6, CopyingKeeps
<1>8. CopyOK'
  <2>1. ~e'.dir /\ ~etoile'[e'.star].wrote
    BY <1>1, <1>3, <1>5
  <2> QED BY <1>1, <2>1 DEF CopyOK
<1>9. ArchivesOK'
  BY <1>1, Kept DEF IInv
<1> QED BY <1>1, <1>4, <1>7, <1>8, <1>9 DEF IInv, BackupOK, Copies

\* The first part of the data is that of the version the file has then.
LEMMA OpenKeeps ==
  ASSUME IInv, Open
  PROVE  IInv' /\ archives' = archives
<1> DEFINE i == disk[e.path]
           v == version[i]
<1>1. /\ pc = "open" /\ i \in Inode /\ pc' = "copy"
      /\ copying' = [copying EXCEPT !.fd = i, !.data = <<v>>]
      /\ UNCHANGED <<user, mask, walk, e, reference, catalogue, wasted_bytes, archives, history>>
  BY DEF Open
<1>2. Busy /\ CopyOK
  BY <1>1 DEF Busy, IInv, BackupOK
<1>3. ~e.dir /\ ~etoile[e.star].wrote
  BY <1>1, <1>2 DEF CopyOK
<1>4. /\ etoile' = etoile /\ cat' = cat /\ current_add' = current_add /\ version' = version
      /\ disk' = disk /\ clock' = clock /\ sure' = sure /\ hidden' = hidden /\ e' = e
  BY <1>1 DEF catalogue, user, history
<1>5. \A s \in DOMAIN etoile :
        /\ etoile'[s] \in Stars /\ etoile'[s].mtime <= clock
        /\ etoile[s].wrote => etoile'[s].wrote
        /\ etoile'[s].wrote => Consistent(etoile'[s])
  BY <1>2, <1>4, InodesAre, Zenon
<1>6. WalkOK' /\ EntryOK' /\ CursorsOK' /\ TreeOK' /\ InodesOK' /\ Covered'
  BY <1>1, <1>2, <1>3, <1>4, <1>5, CopyingKeeps
<1>7. v \in Nat
  BY <1>1 DEF IInv, UsersOK
<1>8. i = disk'[e'.path] /\ version'[i] = v
  BY <1>4
<1> HIDE DEF i, v
<1>9. /\ copying' \in Copies /\ copying'.fd = i /\ copying'.data = <<v>>
  <2> DEFINE d == <<v>>
  <2>1. d \in Seq(Nat) /\ copying \in Copies /\ i \in Inode
    BY <1>1, <1>7 DEF IInv
  <2>2. copying' = [copying EXCEPT !.fd = i, !.data = d]
    BY <1>1
  <2> HIDE DEF d
  <2>3. copying' \in Copies /\ copying'.fd = i /\ copying'.data = d
    BY <2>1, <2>2 DEF Copies
  <2> QED BY <2>3 DEF d
<1>10. Len(copying'.data) = 1 /\ Copied(1)'
  BY <1>8, <1>9 DEF Copied
<1>11. Own'
  BY <1>1, <1>8, <1>9 DEF Own
<1>12. CopyOK'
  <2>1. ~e'.dir /\ ~etoile'[e'.star].wrote
    BY <1>3, <1>4
  <2> QED BY <1>1, <1>10, <1>11, <2>1 DEF CopyOK
<1>13. UsersOK' /\ ArchivesOK'
  BY <1>1, Kept DEF IInv
<1> QED BY <1>1, <1>4, <1>6, <1>9, <1>12, <1>13 DEF IInv, BackupOK

\* The second part is read later.
LEMMA CopyKeeps ==
  ASSUME IInv, Copy
  PROVE  IInv' /\ archives' = archives
<1> DEFINE v == version[copying.fd]
           d == copying.data
<1>1. /\ pc = "copy" /\ pc' = "check"
      /\ copying' = [copying EXCEPT !.data = Append(d, v)]
      /\ UNCHANGED <<user, mask, walk, e, reference, catalogue, wasted_bytes, archives, history>>
  BY DEF Copy
<1>2. Busy /\ CopyOK
  BY <1>1 DEF Busy, IInv, BackupOK
<1>3. ~e.dir /\ ~etoile[e.star].wrote
  BY <1>1, <1>2 DEF CopyOK
<1>4. /\ etoile' = etoile /\ cat' = cat /\ current_add' = current_add /\ version' = version
      /\ mtime' = mtime /\ disk' = disk /\ clock' = clock /\ sure' = sure /\ hidden' = hidden
      /\ e' = e
  BY <1>1 DEF catalogue, user, history
<1>5. \A s \in DOMAIN etoile :
        /\ etoile'[s] \in Stars /\ etoile'[s].mtime <= clock
        /\ etoile[s].wrote => etoile'[s].wrote
        /\ etoile'[s].wrote => Consistent(etoile'[s])
  BY <1>2, <1>4, InodesAre, Zenon
<1>6. WalkOK' /\ EntryOK' /\ CursorsOK' /\ TreeOK' /\ InodesOK' /\ Covered'
  BY <1>1, <1>2, <1>3, <1>4, <1>5, CopyingKeeps
<1>7. Own /\ Len(d) = 1 /\ (sure => Copied(1) \/ Later)
  BY <1>1, <1>2 DEF CopyOK
<1>8. v \in Nat /\ d \in Seq(Nat) /\ copying \in Copies
  BY <1>7 DEF IInv, UsersOK, Own, Copies
<1>9. /\ Append(d, v) \in Seq(Nat) /\ Len(Append(d, v)) = 2
      /\ Append(d, v)[1] = d[1] /\ Append(d, v)[2] = v
  <2> HIDE DEF d, v
  <2>1. /\ Append(d, v) \in Seq(Nat) /\ Len(Append(d, v)) = Len(d) + 1
        /\ \A n \in 1..Len(d) : Append(d, v)[n] = d[n]
        /\ Append(d, v)[Len(d) + 1] = v
    BY <1>8, AppendProperties
  <2> QED BY <1>7, <2>1
<1>10. copying' \in Copies /\ copying'.fd = copying.fd /\ copying'.data = Append(d, v)
  <2> DEFINE a == Append(d, v)
  <2>1. a \in Seq(Nat) /\ copying' = [copying EXCEPT !.data = a]
    BY <1>1, <1>9
  <2> HIDE DEF a
  <2>2. copying' \in Copies /\ copying'.fd = copying.fd /\ copying'.data = a
    BY <1>8, <2>1 DEF Copies
  <2> QED BY <2>2 DEF a
<1>11. (Copied(1) => Copied(1)') /\ Copied(2)' /\ (Later => Later')
  <2>1. copying'.data[1] = d[1] /\ copying'.data[2] = v
    BY <1>9, <1>10
  <2> QED BY <1>4, <1>10, <2>1, Zenon DEF Copied, Later
<1>12. Own'
  BY <1>4, <1>7, <1>10, Zenon DEF Own
<1>13. CopyOK'
  <2>1. ~e'.dir /\ ~etoile'[e'.star].wrote
    BY <1>3, <1>4
  <2>2. Len(copying'.data) = 2
    BY <1>9, <1>10
  <2> QED BY <1>1, <1>4, <1>7, <1>11, <1>12, <2>1, <2>2 DEF CopyOK
<1>14. UsersOK' /\ ArchivesOK'
  BY <1>1, Kept DEF IInv
<1> QED BY <1>1, <1>4, <1>6, <1>10, <1>13, <1>14 DEF IInv, BackupOK

\* A copy made too late is made again, of the date the file has now.
LEMMA RetryKeeps ==
  ASSUME IInv, Retry
  PROVE  IInv' /\ archives' = archives
<1> DEFINE date == mtime[disk[e.path]]
           r == [etoile[e.star] EXCEPT !.mtime = date]
<1>1. /\ pc = "check" /\ disk[e.path] \in Inode /\ pc' = "date" /\ sure' = TRUE
      /\ copying' = [NoCopy EXCEPT !.repeat = copying.repeat + 1]
      /\ etoile' = [etoile EXCEPT ![e.star].mtime = date]
      /\ UNCHANGED <<user, mask, walk, e, reference, current_add, cat, archives, undated,
                     still, hidden>>
  BY DEF Retry
<1>2. Busy /\ CopyOK
  BY <1>1 DEF Busy, IInv, BackupOK
<1>3. ~e.dir /\ ~etoile[e.star].wrote
  BY <1>1, <1>2 DEF CopyOK
<1>4. /\ e.star \in DOMAIN etoile /\ etoile[e.star] \in Stars
  BY <1>2, <1>3, InodesAre
<1>5. date \in Nat /\ date <= clock
  BY <1>1 DEF IInv, UsersOK
<1>6. etoile' = [etoile EXCEPT ![e.star] = r]
  BY <1>1, <1>4
<1>7. r \in Stars /\ r.mtime = date /\ r.wrote = etoile[e.star].wrote
  <2> HIDE DEF date
  <2> QED BY <1>4, <1>5, StarDated, Zenon
<1> HIDE DEF r, date
<1>8. /\ DOMAIN etoile' = DOMAIN etoile /\ etoile'[e.star] = r
      /\ \A s \in DOMAIN etoile :
           /\ etoile'[s] \in Stars /\ etoile'[s].mtime <= clock
           /\ etoile[s].wrote => etoile'[s].wrote
           /\ etoile'[s].wrote => Consistent(etoile'[s])
  <2>1. r.mtime <= clock /\ (etoile[e.star].wrote => r.wrote) /\ (r.wrote => Consistent(r))
    BY <1>3, <1>5, <1>7
  <2> QED BY <1>2, <1>3, <1>6, <1>7, <2>1, InodeChanged
<1>9. disk' = disk /\ clock' = clock /\ e' = e
  BY <1>1 DEF user
<1>10. WalkOK' /\ EntryOK' /\ CursorsOK' /\ TreeOK' /\ InodesOK' /\ Covered'
  BY <1>1, <1>2, <1>3, <1>8, <1>9, CopyingKeeps
<1>11. copying' \in Copies /\ copying'.data = <<>>
  <2>1. copying.repeat + 1 \in Nat /\ NoCopy \in Copies /\ NoCopy.data = <<>>
    BY EmptySeq DEF IInv, Copies, NoCopy
  <2> DEFINE k == copying.repeat + 1
  <2>2. copying' = [NoCopy EXCEPT !.repeat = k] /\ k \in Nat
    BY <1>1, <2>1
  <2> HIDE DEF k
  <2> QED BY <2>1, <2>2 DEF Copies
<1>12. CopyOK'
  <2>1. ~e'.dir /\ ~etoile'[e'.star].wrote
    BY <1>3, <1>7, <1>8, <1>9
  <2> QED BY <1>1, <1>11, <2>1 DEF CopyOK
<1>13. UsersOK' /\ ArchivesOK'
  BY <1>1, Kept DEF IInv
<1> QED BY <1>1, <1>10, <1>11, <1>12, <1>13 DEF IInv, BackupOK

\* A copy that is kept is dirty if the date of the file of that name has
\* changed; if it has not, the file was not written to, or is another one.
LEMMA KeepKeeps ==
  ASSUME IInv, Keep
  PROVE  IInv' /\ archives' = archives
<1>1. /\ pc = "check" /\ pc' = "date"
      /\ copying' = [copying EXCEPT !.fd = "none", !.dirty = Changed]
      /\ UNCHANGED <<user, mask, walk, e, reference, catalogue, wasted_bytes, archives, history>>
  BY DEF Keep
<1>2. Busy /\ CopyOK
  BY <1>1 DEF Busy, IInv, BackupOK
<1>3. ~e.dir /\ ~etoile[e.star].wrote
  BY <1>1, <1>2 DEF CopyOK
<1>4. /\ etoile' = etoile /\ cat' = cat /\ current_add' = current_add
      /\ disk' = disk /\ clock' = clock /\ sure' = sure /\ hidden' = hidden /\ e' = e
  BY <1>1 DEF catalogue, user, history
<1>5. \A s \in DOMAIN etoile :
        /\ etoile'[s] \in Stars /\ etoile'[s].mtime <= clock
        /\ etoile[s].wrote => etoile'[s].wrote
        /\ etoile'[s].wrote => Consistent(etoile'[s])
  BY <1>2, <1>4, InodesAre, Zenon
<1>6. WalkOK' /\ EntryOK' /\ CursorsOK' /\ TreeOK' /\ InodesOK' /\ Covered'
  BY <1>1, <1>2, <1>3, <1>4, <1>5, CopyingKeeps
<1>7. /\ copying' \in Copies /\ copying'.data = copying.data
      /\ copying'.dirty = Changed
  <2>1. copying \in Copies
    BY DEF IInv
  <2>2. PICK b \in BOOLEAN : b = Changed
    BY DEF Changed
  <2>3. copying' = [copying EXCEPT !.fd = "none", !.dirty = b]
    BY <1>1, <2>2
  <2>4. copying' \in Copies /\ copying'.data = copying.data /\ copying'.dirty = b
    BY <2>1, <2>3 DEF Copies
  <2> QED BY <2>2, <2>4
<1>8. ASSUME sure, ~Changed
      PROVE  Matching(copying.data, etoile[e.star].mtime)
  <2> DEFINE i == copying.fd
             date == etoile[e.star].mtime
  <2>1. /\ i \in Inode /\ disk[e.path] = i
        /\ (Copied(1) /\ Copied(2)) \/ Later
    BY <1>1, <1>2, <1>8 DEF CopyOK, Own
  <2>2. i # "none"
    BY <2>1, InodesAreApart
  <2>3. mtime[i] = date
    BY <1>8, <2>1, <2>2 DEF Changed
  <2>4. mtime[i] \in Nat /\ (AlterAtime => mtime[i] = version[i])
    BY <2>1 DEF IInv, UsersOK
  <2>5. ~Later
    BY <2>3, <2>4 DEF Later
  <2>6. copying.data[1] = version[i] /\ copying.data[2] = version[i]
    BY <2>1, <2>5 DEF Copied
  <2> HIDE DEF i, date
  <2> QED BY <2>3, <2>4, <2>6 DEF Matching, date
<1>9. CopyOK'
  <2>1. ~e'.dir /\ ~etoile'[e'.star].wrote
    BY <1>3, <1>4
  <2>2. ~copying'.dirty /\ sure' => Matching(copying'.data, etoile'[e'.star].mtime)
    BY <1>4, <1>7, <1>8, Zenon
  <2>3. ~copying'.dirty /\ sure' => (Matching(copying.data, etoile[e.star].mtime))'
    BY <2>2, Zenon DEF Matching
  <2> QED BY <1>1, <2>1, <2>3 DEF CopyOK
<1>10. UsersOK' /\ ArchivesOK'
  BY <1>1, Kept DEF IInv
<1> QED BY <1>1, <1>4, <1>6, <1>7, <1>9, <1>10 DEF IInv, BackupOK
-----------------------------------------------------------------------------
(* The end of a backup *)

\* What is read back of an archive.
LEMMA DumpedIs ==
  ASSUME NEW c, NEW inodes, NEW aborted
  PROVE  LET d == Dumped(c, inodes, aborted)
         IN /\ DOMAIN d.cat \subseteq DOMAIN c
            /\ \A p \in DOMAIN d.cat : d.cat[p].kind = "detruit" => c[p].kind = "detruit"
            /\ \A s \in DOMAIN d.etoile :
                 /\ s \in DOMAIN inodes
                 /\ \E p \in DOMAIN c : c[p].kind = "file" /\ c[p].star = s
                 /\ Consistent(inodes[s]) => Consistent(d.etoile[s])
<1> DEFINE kept == {p \in DOMAIN c : c[p].kind # "ignored"}
           links(s) == {p \in kept : c[p].kind = "file" /\ c[p].star = s}
           star(s) == [mtime  |-> inodes[s].mtime,
                       saved  |-> inodes[s].saved,
                       data   |-> IF inodes[s].saved THEN inodes[s].data ELSE <<>>,
                       dirty  |-> inodes[s].saved /\ inodes[s].dirty,
                       mirage |-> Cardinality(links(s)) > 1,
                       sure   |-> inodes[s].sure \/ ~inodes[s].saved]
           d == Dumped(c, inodes, aborted)
<1>1. /\ d.cat = [p \in kept |-> IF c[p].kind = "ignored_dir"
                                 THEN [kind |-> "dir", star |-> c[p].star] ELSE c[p]]
      /\ d.etoile = [s \in {s \in DOMAIN inodes : links(s) # {}} |-> star(s)]
  BY DEF Dumped
<1>2. DOMAIN d.cat \subseteq DOMAIN c
  BY <1>1
<1>3. ASSUME NEW p \in DOMAIN d.cat, d.cat[p].kind = "detruit"
      PROVE  c[p].kind = "detruit"
  <2>1. CASE c[p].kind = "ignored_dir"
    <3>1. d.cat[p].kind = "dir"
      BY <1>1, <2>1
    <3> QED BY <1>3, <3>1
  <2>2. CASE c[p].kind # "ignored_dir"
    <3>1. d.cat[p] = c[p]
      BY <1>1, <2>2
    <3> QED BY <1>3, <3>1
  <2> QED BY <2>1, <2>2
<1>4. ASSUME NEW s \in DOMAIN d.etoile
      PROVE  /\ s \in DOMAIN inodes
             /\ \E p \in DOMAIN c : c[p].kind = "file" /\ c[p].star = s
             /\ Consistent(inodes[s]) => Consistent(d.etoile[s])
  <2>1. s \in DOMAIN inodes /\ links(s) # {} /\ d.etoile[s] = star(s)
    BY <1>1
  <2>2. \E p \in DOMAIN c : c[p].kind = "file" /\ c[p].star = s
    BY <2>1
  <2>3. ASSUME Consistent(inodes[s])  PROVE Consistent(star(s))
    <3>1. CASE inodes[s].saved
      <4>1. /\ star(s).data = inodes[s].data /\ star(s).mtime = inodes[s].mtime
            /\ star(s).dirty => inodes[s].dirty
            /\ inodes[s].dirty => star(s).dirty
            /\ star(s).sure => inodes[s].sure
        BY <3>1
      <4> HIDE DEF star
      <4> QED BY <2>3, <3>1, <4>1 DEF Consistent
    <3>2. CASE ~inodes[s].saved
      <4>1. ~star(s).saved
        BY <3>2
      <4> HIDE DEF star
      <4> QED BY <4>1 DEF Consistent
    <3> QED BY <3>1, <3>2
  <2> QED BY <2>1, <2>2, <2>3
<1> HIDE DEF d
<1>5. /\ DOMAIN d.cat \subseteq DOMAIN c
      /\ \A p \in DOMAIN d.cat : d.cat[p].kind = "detruit" => c[p].kind = "detruit"
      /\ \A s \in DOMAIN d.etoile :
           /\ s \in DOMAIN inodes
           /\ \E p \in DOMAIN c : c[p].kind = "file" /\ c[p].star = s
           /\ Consistent(inodes[s]) => Consistent(d.etoile[s])
  BY <1>2, <1>3, <1>4
<1> QED BY <1>5 DEF d

\* The archives made so far and one more.
LEMMA ArchiveAdded ==
  ASSUME ArchivesOK, NEW d, DOMAIN d.cat \subseteq Path,
         \A s \in DOMAIN d.etoile : Consistent(d.etoile[s]),
         archives' = Append(archives, d)
  PROVE  ArchivesOK' /\ Last(archives') = d
<1> DEFINE A == {archives[k] : k \in DOMAIN archives}
           S == A \cup {d}
<1>1. archives \in Seq(A) /\ A \subseteq S /\ d \in S
  BY DEF ArchivesOK
<1> HIDE DEF A, S
<1>2. archives \in Seq(S)
  BY <1>1, SeqMonotonic
<1>3. /\ archives' \in Seq(S) /\ Len(archives') = Len(archives) + 1
      /\ \A k \in 1..Len(archives) : archives'[k] = archives[k]
      /\ archives'[Len(archives) + 1] = d
  BY <1>1, <1>2, AppendProperties
<1>4. /\ Len(archives) \in Nat /\ DOMAIN archives = 1..Len(archives)
      /\ DOMAIN archives' = 1..(Len(archives) + 1)
  BY <1>2, <1>3, LenProperties
<1>5. \A k \in DOMAIN archives' : k \in DOMAIN archives \/ k = Len(archives) + 1
  BY <1>4
<1>6. Last(archives') = d
  BY <1>3 DEF Last
<1>7. \A k \in DOMAIN archives' :
        /\ DOMAIN archives'[k].cat \subseteq Path
        /\ \A s \in DOMAIN archives'[k].etoile : Consistent(archives'[k].etoile[s])
  <2> TAKE k \in DOMAIN archives'
  <2>1. CASE k \in DOMAIN archives
    <3>1. archives'[k] = archives[k]
      BY <1>3, <1>4, <2>1
    <3> QED BY <2>1, <3>1 DEF ArchivesOK
  <2>2. CASE k = Len(archives) + 1
    BY <1>3, <2>2
  <2> QED BY <1>5, <2>1, <2>2
<1>8. archives' \in Seq({archives'[k] : k \in DOMAIN archives'})
  <2> DEFINE B == {archives'[k] : k \in DOMAIN archives'}
  <2>1. \A k \in 1..Len(archives') : archives'[k] \in B
    BY <1>3, <1>4
  <2>2. archives' = [k \in 1..Len(archives') |-> archives'[k]] /\ Len(archives') \in Nat
    BY <1>3, <1>4, LenProperties
  <2> HIDE DEF B
  <2>3. archives' \in [1..Len(archives') -> B]
    BY <2>1, <2>2
  <2>4. archives' \in Seq(B)
    BY <2>2, <2>3, SeqDef
  <2> QED BY <2>4 DEF B
<1> QED BY <1>6, <1>7, <1>8 DEF ArchivesOK, Consistent, Matching

\* The reference has names of the tree.
LEMMA ReferenceNames ==
  ASSUME ArchivesOK
  PROVE  DOMAIN Reference.cat \subseteq Path
<1>1. CASE archives = <<>>
  BY <1>1 DEF Reference, Empty
<1>2. CASE archives # <<>>
  <2> DEFINE A == {archives[k] : k \in DOMAIN archives}
  <2>1. archives \in Seq(A)
    BY DEF ArchivesOK
  <2> HIDE DEF A
  <2>2. Len(archives) \in Nat \ {0} /\ DOMAIN archives = 1..Len(archives)
    BY <1>2, <2>1, EmptySeq, LenProperties
  <2>3. Len(archives) \in DOMAIN archives
    BY <2>2
  <2> QED BY <1>2, <2>3 DEF Reference, ArchivesOK, Last
<1> QED BY <1>1, <1>2

\* A backup that is closed: the archive has nothing recorded as removed that
\* its catalogue has not, and the copies it names are consistent.
LEMMA CloseKeeps ==
  ASSUME IInv, UsersOK', NEW c, NEW inodes, NEW aborted, Close(c, inodes, aborted),
         DOMAIN c \subseteq Path,
         \A p \in DOMAIN c : c[p].kind = "file" /\ c[p].star \in DOMAIN inodes =>
                               Consistent(inodes[c[p].star])
  PROVE  /\ IInv'
         /\ \A p \in DOMAIN Last(archives').cat :
              Last(archives').cat[p].kind = "detruit" =>
                p \in DOMAIN c /\ c[p].kind = "detruit"
<1> DEFINE d == Dumped(c, inodes, aborted)
<1>1. /\ archives' = Append(archives, d) /\ pc' = "idle" /\ copying' = NoCopy /\ sure' = TRUE
  BY DEF Close
<1>2. /\ DOMAIN d.cat \subseteq DOMAIN c
      /\ \A p \in DOMAIN d.cat : d.cat[p].kind = "detruit" => c[p].kind = "detruit"
      /\ \A s \in DOMAIN d.etoile :
           /\ s \in DOMAIN inodes
           /\ \E p \in DOMAIN c : c[p].kind = "file" /\ c[p].star = s
           /\ Consistent(inodes[s]) => Consistent(d.etoile[s])
  BY DumpedIs, Zenon
<1> HIDE DEF d
<1>3. \A s \in DOMAIN d.etoile : Consistent(d.etoile[s])
  BY <1>2, Zenon
<1>4. DOMAIN d.cat \subseteq Path
  BY <1>2
<1>5. ArchivesOK' /\ Last(archives') = d
  BY <1>1, <1>3, <1>4, ArchiveAdded DEF IInv
<1>6. copying' \in Copies
  <2>1. <<>> \in Seq(Nat)
    BY EmptySeq
  <2> QED BY <1>1, <2>1 DEF NoCopy, Copies
<1>7. IInv'
  BY <1>1, <1>5, <1>6 DEF IInv
<1> QED BY <1>2, <1>5, <1>7, Zenon

\* What a whole backup records as removed was not there, or could not be read,
\* at some moment of it: all the rest has been read.
LEMMA FinishKeeps ==
  ASSUME IInv, Finish
  PROVE  /\ IInv'
         /\ \A p \in DOMAIN Last(archives').cat :
              Last(archives').cat[p].kind = "detruit" => p \in hidden
<1> DEFINE gone == {p \in DOMAIN Reference.cat : /\ Reference.cat[p].kind # "detruit"
                                                 /\ p \notin DOMAIN cat
                                                 /\ Reached(cat, p)}
           removed == [p \in gone |-> [kind |-> "detruit", star |-> p]]
           c == UpdateDestroyed(cat, Reference)
<1>1. /\ pc = "read" /\ pile = <<{}>> /\ UNCHANGED user /\ Close(c, etoile, FALSE)
  BY DEF Finish
<1>2. TreeOK /\ InodesOK /\ Covered /\ ArchivesOK /\ UsersOK
  BY <1>1 DEF IInv, BackupOK
<1>3. c = Over(cat, removed)
  BY DEF UpdateDestroyed
<1>4. gone \subseteq Path /\ gone \cap DOMAIN cat = {} /\ DOMAIN removed = gone
  BY <1>2, ReferenceNames
<1>5. \A p \in gone : p \in hidden
  <2> TAKE p \in gone
  <2>1. Waiting(pile) = {}
    <3>1. Len(pile) = 1 /\ pile[1] = {}
      BY <1>1
    <3> QED BY <3>1 DEF Waiting
  <2>2. p \in Path /\ Reached(cat, p) /\ p \notin DOMAIN cat /\ ~Busy
    BY <1>1, <1>4 DEF Busy
  <2> QED BY <1>2, <2>1, <2>2 DEF Covered
<1>6. \A p \in gone : removed[p].kind = "detruit"
  OBVIOUS
<1> HIDE DEF c, removed, gone
<1>7. /\ DOMAIN c = DOMAIN cat \cup gone
      /\ \A p \in DOMAIN cat : c[p] = cat[p]
      /\ \A p \in gone : c[p].kind = "detruit"
  <2>1. /\ DOMAIN c = DOMAIN cat \cup DOMAIN removed
        /\ \A p \in DOMAIN cat : c[p] = cat[p]
        /\ \A p \in DOMAIN removed : p \notin DOMAIN cat => c[p] = removed[p]
    BY <1>3 DEF Over
  <2> QED BY <1>4, <1>6, <2>1
<1>8. DOMAIN c \subseteq Path /\ \A p \in DOMAIN c : c[p].kind = "detruit" => p \in gone
  BY <1>2, <1>4, <1>7 DEF TreeOK
<1>9. \A p \in DOMAIN c : c[p].kind = "file" /\ c[p].star \in DOMAIN etoile =>
                            Consistent(etoile[c[p].star])
  <2> TAKE p \in DOMAIN c
  <2>1. ASSUME c[p].kind = "file", c[p].star \in DOMAIN etoile
        PROVE  Consistent(etoile[c[p].star])
    <3>1. p \in DOMAIN cat /\ c[p] = cat[p]
      BY <1>7, <2>1
    <3> QED BY <1>2, <2>1, <3>1, Zenon DEF InodesOK
  <2> QED BY <2>1
<1>10. UsersOK'
  BY <1>1, <1>2, Kept
<1>11. /\ IInv'
       /\ \A p \in DOMAIN Last(archives').cat :
            Last(archives').cat[p].kind = "detruit" => p \in DOMAIN c /\ c[p].kind = "detruit"
  BY <1>1, <1>8, <1>9, <1>10, CloseKeeps, Zenon
<1> QED BY <1>5, <1>8, <1>11, Zenon

\* The inode that a missing link is given: that of an entry of the catalogue,
\* or that of the first missing link, which is given its own.
LEMMA CloneIs ==
  ASSUME NEW c, NEW inodes, NEW ref, DOMAIN ref.cat \subseteq Path,
         NEW p \in Met(c, ref), p \notin DOMAIN c, ref.cat[p].kind = "file"
  PROVE  LET q == CorresClone(c, inodes, ref, p)
         IN \/ \E l \in DOMAIN c : c[l].kind = "file" /\ q = c[l].star
            \/ /\ q \in Met(c, ref) /\ q \notin DOMAIN c
               /\ ref.cat[q].kind = "file" /\ ref.cat[q].star = ref.cat[p].star
               /\ CorresClone(c, inodes, ref, q) = q
<1> DEFINE telling(s) == {q \in Met(c, ref) :
                            /\ ref.cat[q].kind = "file" /\ ref.cat[q].star = s
                            /\ q \in DOMAIN c => c[q].kind = "file" /\ inodes[c[q].star].mirage}
           T == telling(ref.cat[p].star)
           f == First(T)
<1>1. \A l : CorresClone(c, inodes, ref, l) =
               IF First(telling(ref.cat[l].star)) \in DOMAIN c
               THEN c[First(telling(ref.cat[l].star))].star
               ELSE First(telling(ref.cat[l].star))
  BY DEF CorresClone
<1>2. p \in T
  OBVIOUS
<1>3. T \subseteq Path
  BY DEF Met
<1>4. f \in T
  BY <1>2, <1>3, FirstIn
<1>5. CASE f \in DOMAIN c
  <2>1. CorresClone(c, inodes, ref, p) = c[f].star
    BY <1>1, <1>5
  <2>2. c[f].kind = "file"
    BY <1>4, <1>5
  <2> QED BY <1>5, <2>1, <2>2
<1>6. CASE f \notin DOMAIN c
  <2>1. CorresClone(c, inodes, ref, p) = f
    BY <1>1, <1>6
  <2>2. f \in Met(c, ref) /\ ref.cat[f].kind = "file" /\ ref.cat[f].star = ref.cat[p].star
    BY <1>4
  <2>3. telling(ref.cat[f].star) = T
    BY <2>2
  <2>4. CorresClone(c, inodes, ref, f) = f
    BY <1>1, <1>6, <2>3
  <2> QED BY <1>6, <2>1, <2>2, <2>4
<1> QED BY <1>5, <1>6

\* What completes the catalogue of an interrupted backup: nothing of it is
\* recorded as removed, and its copies are those of the catalogue.
LEMMA CompletedIs ==
  ASSUME TreeOK, InodesOK, ArchivesOK
  PROVE  LET a == UpdateAbsent(cat, etoile, Reference)
         IN /\ DOMAIN a.cat \subseteq Path
            /\ \A p \in DOMAIN a.cat :
                 /\ a.cat[p].kind # "detruit"
                 /\ a.cat[p].kind = "file" /\ a.cat[p].star \in DOMAIN a.etoile =>
                      Consistent(a.etoile[a.cat[p].star])
<1> DEFINE ref == Reference
           met == Met(cat, ref)
           missing == met \ DOMAIN cat
           star == [p \in missing |->
                     IF ref.cat[p].kind = "file" /\ ref.etoile[ref.cat[p].star].mirage
                     THEN CorresClone(cat, etoile, ref, p) ELSE p]
           cloned == {p \in missing : ref.cat[p].kind = "file" /\ star[p] = p}
           added == [p \in missing |-> [kind |-> ref.cat[p].kind, star |-> star[p]]]
           clones == [p \in cloned |-> NotSaved(ref.etoile[ref.cat[p].star])]
           a == UpdateAbsent(cat, etoile, Reference)
<1>1. a.cat = Over(cat, added) /\ a.etoile = Over(clones, etoile)
  BY DEF UpdateAbsent
<1>2. DOMAIN ref.cat \subseteq Path
  BY ReferenceNames
<1>3. missing \subseteq Path /\ \A p \in missing : ref.cat[p].kind # "detruit"
  BY <1>2 DEF Met
<1>4. DOMAIN added = missing /\ DOMAIN clones = cloned
  OBVIOUS
<1>5. \A p \in missing : added[p].kind = ref.cat[p].kind /\ added[p].star = star[p]
  OBVIOUS
<1>6. \A s \in cloned : ~clones[s].saved
  BY DEF NotSaved
<1>7. ASSUME NEW p \in missing, ref.cat[p].kind = "file"
      PROVE  \/ star[p] \in cloned
             \/ \E l \in DOMAIN cat : cat[l].kind = "file" /\ star[p] = cat[l].star
  <2>1. CASE ~ref.etoile[ref.cat[p].star].mirage
    BY <1>7, <2>1
  <2>2. CASE ref.etoile[ref.cat[p].star].mirage
    <3> DEFINE q == CorresClone(cat, etoile, ref, p)
    <3>1. star[p] = q
      BY <1>7, <2>2
    <3>2. p \in met /\ p \notin DOMAIN cat
      OBVIOUS
    <3>3. \/ \E l \in DOMAIN cat : cat[l].kind = "file" /\ q = cat[l].star
          \/ /\ q \in met /\ q \notin DOMAIN cat
             /\ ref.cat[q].kind = "file" /\ ref.cat[q].star = ref.cat[p].star
             /\ CorresClone(cat, etoile, ref, q) = q
      <4> HIDE DEF ref
      <4> QED BY <1>2, <1>7, <3>2, CloneIs
    <3>4. ASSUME q \in met, q \notin DOMAIN cat, ref.cat[q].kind = "file",
                 ref.cat[q].star = ref.cat[p].star, CorresClone(cat, etoile, ref, q) = q
          PROVE  q \in cloned
      <4>1. q \in missing
        BY <3>4
      <4>2. star[q] = CorresClone(cat, etoile, ref, q)
        BY <2>2, <3>4, <4>1
      <4> QED BY <3>4, <4>1, <4>2
    <3> HIDE DEF q, cloned, star, met, ref
    <3> QED BY <3>1, <3>3, <3>4
  <2> QED BY <2>1, <2>2
<1> HIDE DEF ref, star, cloned, added, clones, missing, a
<1>8. /\ DOMAIN a.cat = DOMAIN cat \cup missing
      /\ \A p \in DOMAIN cat : a.cat[p] = cat[p]
      /\ \A p \in missing : p \notin DOMAIN cat => a.cat[p] = added[p]
  BY <1>1, <1>4 DEF Over
<1>9. /\ DOMAIN a.etoile = cloned \cup DOMAIN etoile
      /\ \A s \in cloned : a.etoile[s] = clones[s]
      /\ \A s \in DOMAIN etoile : s \notin cloned => a.etoile[s] = etoile[s]
  BY <1>1, <1>4 DEF Over
<1>10. \A p \in missing : p \notin DOMAIN cat
  BY DEF missing
<1>11. DOMAIN a.cat \subseteq Path
  BY <1>3, <1>8 DEF TreeOK
<1>12. \A p \in DOMAIN a.cat : a.cat[p].kind # "detruit"
  <2> TAKE p \in DOMAIN a.cat
  <2>1. CASE p \in DOMAIN cat
    BY <1>8, <2>1 DEF TreeOK
  <2>2. CASE p \in missing
    BY <1>3, <1>5, <1>8, <1>10, <2>2
  <2> QED BY <1>8, <2>1, <2>2
<1>13. \A l \in DOMAIN cat : cat[l].kind = "file" => /\ cat[l].star \in DOMAIN etoile
                                                     /\ Consistent(etoile[cat[l].star])
  BY Zenon DEF InodesOK
<1>14. ASSUME NEW p \in DOMAIN a.cat, a.cat[p].kind = "file"
       PROVE  \/ a.cat[p].star \in cloned
              \/ \E l \in DOMAIN cat : cat[l].kind = "file" /\ a.cat[p].star = cat[l].star
  <2>1. CASE p \in DOMAIN cat
    BY <1>8, <1>14, <2>1
  <2>2. CASE p \in missing
    <3>1. a.cat[p] = added[p]
      BY <1>8, <1>10, <2>2
    <3>2. ref.cat[p].kind = "file" /\ a.cat[p].star = star[p]
      BY <1>5, <1>14, <2>2, <3>1
    <3> QED BY <1>7, <2>2, <3>2
  <2> QED BY <1>8, <2>1, <2>2
<1>15. ASSUME NEW p \in DOMAIN a.cat, a.cat[p].kind = "file"
       PROVE  Consistent(a.etoile[a.cat[p].star])
  <2> DEFINE s == a.cat[p].star
  <2>1. CASE s \in cloned
    <3>1. ~a.etoile[s].saved
      BY <1>6, <1>9, <2>1
    <3> QED BY <3>1 DEF Consistent
  <2>2. CASE s \notin cloned
    <3>1. PICK l \in DOMAIN cat : cat[l].kind = "file" /\ s = cat[l].star
      BY <1>14, <1>15, <2>2
    <3>2. s \in DOMAIN etoile /\ Consistent(etoile[s])
      BY <1>13, <3>1
    <3>3. a.etoile[s] = etoile[s]
      BY <1>9, <2>2, <3>2
    <3> QED BY <3>2, <3>3, Zenon
  <2> QED BY <2>1, <2>2
<1> QED BY <1>11, <1>12, <1>15, Zenon DEF a

\* An interrupted backup records nothing as removed.
LEMMA CancelKeeps ==
  ASSUME IInv, Cancel
  PROVE  /\ IInv'
         /\ \A p \in DOMAIN Last(archives').cat : Last(archives').cat[p].kind # "detruit"
<1> DEFINE a == UpdateAbsent(cat, etoile, Reference)
<1>1. /\ pc \in {"entry", "copy", "read"}
      /\ IF pc = "copy" THEN MakeDate(FALSE) ELSE UNCHANGED <<user, undated>>
      /\ Close(a.cat, a.etoile, TRUE)
  BY DEF Cancel
<1>2. TreeOK /\ InodesOK /\ ArchivesOK /\ UsersOK
  BY <1>1 DEF IInv, BackupOK
<1>3. /\ DOMAIN a.cat \subseteq Path
      /\ \A p \in DOMAIN a.cat :
           /\ a.cat[p].kind # "detruit"
           /\ a.cat[p].kind = "file" /\ a.cat[p].star \in DOMAIN a.etoile =>
                Consistent(a.etoile[a.cat[p].star])
  BY <1>2, CompletedIs, Zenon
<1>4. UsersOK'
  <2>1. CASE pc = "copy"
    BY <1>1, <2>1, DateSetBack
  <2>2. CASE pc # "copy"
    BY <1>1, <1>2, <2>2, Kept
  <2> QED BY <2>1, <2>2
<1> HIDE DEF a
<1>5. /\ IInv'
      /\ \A p \in DOMAIN Last(archives').cat :
           Last(archives').cat[p].kind = "detruit" =>
             p \in DOMAIN a.cat /\ a.cat[p].kind = "detruit"
  BY <1>1, <1>3, <1>4, CloseKeeps, Zenon
<1> QED BY <1>3, <1>5, Zenon
-----------------------------------------------------------------------------
(* What every backup keeps true.                                           *)

\* Before the first backup, the files there are have been written one at a
\* time, and no backup is being made.
LEMMA InitKeeps ==
  ASSUME Init
  PROVE  IInv
<1> DEFINE N == Cardinality(Inode)
           F == {f \in [Inode -> 1..N] : IsInjective(f)}
<1>1. IsFiniteSet(Inode)
  BY InodesAreApart
<1>2. N \in Nat /\ ExistsBijection(1..N, Inode)
  BY <1>1, FS_CardinalityType
<1>3. ExistsBijection(Inode, 1..N)
  BY <1>2, Fun_ExistsBijSymmetric
<1>4. \E f \in [Inode -> 1..N] : IsInjective(f)
  BY <1>3 DEF ExistsBijection, Bijection, Injection
<1>5. version \in [Inode -> 1..N] /\ mtime = version /\ clock = N
  BY <1>4 DEF Init
<1> HIDE DEF N
<1>6. /\ version \in [Inode -> Nat]
      /\ \A i \in Inode : version[i] <= clock
  <2>1. \A n \in 1..N : n \in Nat /\ n <= N
    BY <1>2
  <2> QED BY <1>5, <2>1
<1>7. disk \in [Path -> Inode \cup {"none", "dir"}]
  BY DisksHaveThePaths DEF Init
<1>8. UsersOK
  BY <1>2, <1>5, <1>6, <1>7 DEF UsersOK
<1>9. archives = <<>> /\ copying = NoCopy /\ sure = TRUE /\ pc = "idle"
  BY DEF Init
<1>10. ArchivesOK
  <2>1. DOMAIN archives = {} /\ \A S : archives \in Seq(S)
    BY <1>9, EmptySeq
  <2> QED BY <2>1 DEF ArchivesOK
<1>11. copying \in Copies
  <2>1. <<>> \in Seq(Nat)
    BY EmptySeq
  <2> QED BY <1>9, <2>1 DEF NoCopy, Copies
<1> QED BY <1>8, <1>9, <1>10, <1>11 DEF IInv

\* Nothing changes.
LEMMA StutterKeeps ==
  ASSUME IInv, UNCHANGED vars
  PROVE  IInv' /\ archives' = archives
<1>1. /\ UNCHANGED user /\ UNCHANGED <<pc, mask, e, copying, wasted_bytes, archives>>
      /\ UNCHANGED <<pile, current_dir, corres_read>> /\ UNCHANGED reference
      /\ UNCHANGED <<current_add, cat, etoile>> /\ UNCHANGED <<sure, undated, still, hidden>>
  BY DEF vars, walk, catalogue, history
<1>2. UsersOK' /\ ArchivesOK'
  BY <1>1, Kept DEF IInv
<1>3. ASSUME pc # "idle"  PROVE BackupOK'
  <2>1. WalkOK /\ EntryOK /\ CursorsOK /\ TreeOK /\ InodesOK /\ Covered /\ CopyOK
    BY <1>3 DEF IInv, BackupOK
  <2>2. Busy' = Busy /\ Where' = Where
    BY <1>1, Zenon DEF Busy, Where
  <2>3. TreeOK' /\ InodesOK' /\ CursorsOK'
    BY <1>1, <2>1, <2>2, Kept DEF user
  <2>4. WalkOK' /\ EntryOK'
    BY <1>1, <2>1, Zenon DEF WalkOK, EntryOK, Where, Busy, Levels, Waiting, Opened
  <2>5. Covered'
    BY <1>1, <2>1, Zenon DEF Covered, Busy, Reached, Waiting, user
  <2>6. CopyOK'
    BY <1>1, <2>1, Zenon DEF CopyOK, Own, Copied, Later, Matching, user
  <2> QED BY <2>3, <2>4, <2>5, <2>6 DEF BackupOK
<1> QED BY <1>1, <1>2, <1>3 DEF IInv, Copies

\* Every step keeps the invariant, and what a step that makes an archive
\* records as removed was hidden.
LEMMA NextKeeps ==
  ASSUME IInv, [Next]_vars
  PROVE  /\ IInv'
         /\ archives' # archives =>
              \A p \in DOMAIN Last(archives').cat :
                Last(archives').cat[p].kind = "detruit" => p \in hidden
<1>1. CASE Users
  BY <1>1, UsersKeep
<1>2. CASE \E m \in Masks : Start(m)
  BY <1>2, StartKeeps
<1>3. CASE Reading
  <2>1. CASE Vanished \/ Unreadable
    BY <2>1, SkippedKeeps
  <2>2. CASE \E readable \in BOOLEAN : ReadDirectory(readable)
    BY <2>2, ReadDirectoryKeeps
  <2>3. CASE ReadFile
    BY <2>3, ReadFileKeeps
  <2>4. CASE EndDirectory
    BY <2>4, EndDirectoryKeeps
  <2> QED BY <1>3, <2>1, <2>2, <2>3, <2>4 DEF Reading
<1>4. CASE Saving
  <2>1. CASE Ignore
    BY <2>1, IgnoreKeeps
  <2>2. CASE AddDirectory
    BY <2>2, AddDirectoryKeeps
  <2>3. CASE AddHardLink \/ AddUnchanged
    BY <2>3, AddUnsavedKeeps
  <2>4. CASE Save \/ CopyAgain
    BY <2>4, SaveKeeps
  <2>5. CASE Open
    BY <2>5, OpenKeeps
  <2>6. CASE Copy
    BY <2>6, CopyKeeps
  <2>7. CASE Retry
    BY <2>7, RetryKeeps
  <2>8. CASE Keep
    BY <2>8, KeepKeeps
  <2>9. CASE AddSaved
    BY <2>9, AddSavedKeeps
  <2>10. CASE Fail
    BY <2>10, FailKeeps
  <2> QED BY <1>4, <2>1, <2>2, <2>3, <2>4, <2>5, <2>6, <2>7, <2>8, <2>9, <2>10 DEF Saving
<1>5. CASE Finish
  BY <1>5, FinishKeeps
<1>6. CASE Cancel
  BY <1>6, CancelKeeps
<1>7. CASE UNCHANGED vars
  BY <1>7, StutterKeeps
<1> QED BY <1>1, <1>2, <1>3, <1>4, <1>5, <1>6, <1>7 DEF Next

\* Between two entries the three walks are in the same directory.
LEMMA IInvInStep == IInv => InStep
<1> SUFFICES ASSUME IInv, pc = "read"
             PROVE  /\ current_add = current_dir
                    /\ Len(pile) = Len(current_dir) + 1
                    /\ current_compare \o out_compare = current_dir
                    /\ out_compare # <<>> =>
                         LET p == Append(current_compare, Head(out_compare))
                         IN p \in DOMAIN Reference.cat => Reference.cat[p].kind # "dir"
  BY Zenon DEF InStep
<1>1. WalkOK /\ CursorsOK
  BY DEF IInv, BackupOK
<1>2. Where = current_dir
  BY DEF Where, Busy
<1>3. Len(pile) = Len(current_dir) + 1
  BY <1>1 DEF WalkOK, Levels
<1> QED BY <1>1, <1>2, <1>3, Zenon DEF CursorsOK, NotADirectory

\* A copy that is not dirty is of one version.
LEMMA IInvCopies == IInv => CopiesAreConsistent
<1> SUFFICES ASSUME IInv, NEW k \in DOMAIN archives, NEW s \in DOMAIN archives[k].etoile
             PROVE  Consistent(archives[k].etoile[s])
  BY Zenon DEF CopiesAreConsistent, Consistent, Matching
<1> QED BY Zenon DEF IInv, ArchivesOK

\* The invariant holds of every state of every behaviour.
LEMMA Invariant == Spec => []IInv
<1>1. IInv /\ [Next]_vars => IInv'
  BY NextKeeps
<1> QED BY <1>1, InitKeeps, PTL DEF Spec

\* Between two entries, whatever was skipped, ignored, changed meanwhile or
\* failed, the reading of the tree, the catalogue being built and the walk of
\* the reference are in the same directory, the latter as deep as it can be.
THEOREM BackupInStep == Spec => []InStep
BY Invariant, IInvInStep, PTL

\* A file saved and not dirty has the data of one single version, the one its
\* date tells if dates are not set back, unless its name was given to another
\* file meanwhile: the retries and the dirty flag of save_inode are enough.
THEOREM CopiesTheorem == Spec => []CopiesAreConsistent
BY Invariant, IInvCopies, PTL

\* What was there, and could be read, during the whole of a backup is not
\* recorded as removed by it, nor by a backup that is interrupted.
THEOREM RemovalTheorem == Spec => RemovedWasAbsent
<1>1. IInv /\ [Next]_vars =>
        [archives' # archives =>
           \A p \in DOMAIN Last(archives').cat :
             Last(archives').cat[p].kind = "detruit" => p \in hidden]_vars
  BY NextKeeps
<1> QED BY <1>1, Invariant, PTL DEF Spec, RemovedWasAbsent
=============================================================================
