-------------------------- MODULE DarManagerProofs --------------------------
(***************************************************************************)
(* What every session of dar_manager keeps true, whatever is killed,       *)
(* cancelled or refused, for any number of archives and of changes, and    *)
(* that the file given with -B implements DatabaseStore.                   *)
(*                                                                         *)
(* The header and the tree stay together because no operation changes one  *)
(* of them alone (Legal) and because a file is written only from a         *)
(* database that has its tree, looked into or not (InStep).  What the menu *)
(* says holds because the flag is set by the last step of a writing only.  *)
(***************************************************************************)
EXTENDS MCDarManager, SequenceTheorems, TLAPS

Stamps(c) == [i \in DOMAIN c |-> c[i].stamp]

\* The records, wherever they are, are those of the archives listed.
Legal(d) ==
  /\ d \in Database /\ Count(d) < ArchiveNumMax
  /\ d.files = NULL \/ d.data_files = NULL
  /\ d.files # NULL => d.files = Stamps(d.coordinate)
  /\ d.data_files # NULL => d.data_files = Stamps(d.coordinate)

-----------------------------------------------------------------------------
(* The dates of the archives *)

\* A list of archives and that of their dates have the same numbers.
LEMMA StampsType ==
  ASSUME NEW c \in Seq(ArchiveData)
  PROVE  /\ Stamps(c) \in Seq(Stamp) /\ Len(Stamps(c)) = Len(c) /\ Len(c) \in Nat
         /\ \A i \in 1..Len(c) : c[i] \in ArchiveData /\ Stamps(c)[i] = c[i].stamp
<1>1. Len(c) \in Nat /\ DOMAIN c = 1..Len(c) /\ \A i \in 1..Len(c) : c[i] \in ArchiveData
  BY LenProperties, ElementOfSeq
<1>2. Stamps(c) \in [1..Len(c) -> Stamp]
  BY <1>1 DEF Stamps, ArchiveData
<1>3. Stamps(c) \in Seq(Stamp)
  BY <1>1, <1>2
<1>4. Len(Stamps(c)) = Len(c)
  BY <1>1, <1>2, <1>3, LenProperties
<1> QED BY <1>1, <1>3, <1>4 DEF Stamps

\* The dates of a part are the part of the dates.
LEMMA StampsOfPart ==
  ASSUME NEW c \in Seq(ArchiveData), NEW m \in 1..(Len(c) + 1), NEW n \in 0..Len(c)
  PROVE  /\ SubSeq(c, m, n) \in Seq(ArchiveData)
         /\ Len(SubSeq(c, m, n)) = IF m <= n THEN n - m + 1 ELSE 0
         /\ SubSeq(Stamps(c), m, n) = Stamps(SubSeq(c, m, n))
<1> DEFINE part == SubSeq(c, m, n)
           dates == SubSeq(Stamps(c), m, n)
<1>1. /\ Stamps(c) \in Seq(Stamp) /\ Len(Stamps(c)) = Len(c) /\ Len(c) \in Nat
      /\ \A i \in 1..Len(c) : c[i] \in ArchiveData /\ Stamps(c)[i] = c[i].stamp
  BY StampsType
<1>2. /\ \A i \in m..n : i \in 1..Len(c) /\ c[i] \in ArchiveData /\ Stamps(c)[i] \in Stamp
      /\ \A i \in 1..(n - m + 1) : m + i - 1 \in 1..Len(c)
  BY <1>1 DEF ArchiveData
<1>3. /\ part \in Seq(ArchiveData) /\ Len(part) = IF m <= n THEN n - m + 1 ELSE 0
      /\ \A i \in 1..(n - m + 1) : part[i] = c[m + i - 1]
  BY <1>1, <1>2, SubSeqProperties
<1>4. /\ dates \in Seq(Stamp) /\ Len(dates) = IF m <= n THEN n - m + 1 ELSE 0
      /\ \A i \in 1..(n - m + 1) : dates[i] = Stamps(c)[m + i - 1]
  BY <1>1, <1>2, SubSeqProperties
<1> HIDE DEF part, dates
<1>5. /\ Stamps(part) \in Seq(Stamp) /\ Len(Stamps(part)) = Len(part)
      /\ \A i \in 1..Len(part) : Stamps(part)[i] = part[i].stamp
  BY <1>3, StampsType
<1>6. ASSUME NEW i \in 1..Len(dates) PROVE dates[i] = Stamps(part)[i]
  <2>1. i \in 1..(n - m + 1) /\ i \in 1..Len(part)
    BY <1>1, <1>3, <1>4
  <2>2. dates[i] = c[m + i - 1].stamp
    BY <1>1, <1>2, <1>4, <2>1
  <2>3. Stamps(part)[i] = c[m + i - 1].stamp
    BY <1>3, <1>5, <2>1
  <2> QED BY <2>2, <2>3
<1>7. dates = Stamps(part)
  BY <1>3, <1>4, <1>5, <1>6, SeqEqual
<1> QED BY <1>3, <1>7 DEF part, dates

\* The dates of two lists together.
LEMMA StampsOfBoth ==
  ASSUME NEW a \in Seq(ArchiveData), NEW b \in Seq(ArchiveData)
  PROVE  /\ a \o b \in Seq(ArchiveData) /\ Len(a \o b) = Len(a) + Len(b)
         /\ Stamps(a) \o Stamps(b) = Stamps(a \o b)
<1> DEFINE both == a \o b
           dates == Stamps(a) \o Stamps(b)
<1>1. /\ Stamps(a) \in Seq(Stamp) /\ Len(Stamps(a)) = Len(a) /\ Len(a) \in Nat
      /\ \A i \in 1..Len(a) : Stamps(a)[i] = a[i].stamp
  BY StampsType
<1>2. /\ Stamps(b) \in Seq(Stamp) /\ Len(Stamps(b)) = Len(b) /\ Len(b) \in Nat
      /\ \A i \in 1..Len(b) : Stamps(b)[i] = b[i].stamp
  BY StampsType
<1>3. /\ both \in Seq(ArchiveData) /\ Len(both) = Len(a) + Len(b)
      /\ \A i \in 1..(Len(a) + Len(b)) :
           both[i] = IF i <= Len(a) THEN a[i] ELSE b[i - Len(a)]
  BY ConcatProperties
<1>4. /\ dates \in Seq(Stamp) /\ Len(dates) = Len(Stamps(a)) + Len(Stamps(b))
      /\ \A i \in 1..(Len(Stamps(a)) + Len(Stamps(b))) :
           dates[i] = IF i <= Len(Stamps(a)) THEN Stamps(a)[i]
                      ELSE Stamps(b)[i - Len(Stamps(a))]
  <2>1. Stamps(a) \in Seq(Stamp) /\ Stamps(b) \in Seq(Stamp)
    BY <1>1, <1>2
  <2> QED BY <2>1, ConcatProperties
<1> HIDE DEF both, dates
<1>5. /\ Stamps(both) \in Seq(Stamp) /\ Len(Stamps(both)) = Len(both)
      /\ \A i \in 1..Len(both) : Stamps(both)[i] = both[i].stamp
  BY <1>3, StampsType
<1>6. ASSUME NEW i \in 1..Len(dates) PROVE dates[i] = Stamps(both)[i]
  <2>1. i \in 1..(Len(a) + Len(b)) /\ i \in 1..Len(both)
    BY <1>1, <1>2, <1>3, <1>4
  <2>2. CASE i <= Len(a)
    <3>1. i \in 1..Len(a)
      BY <1>1, <2>1, <2>2
    <3>2. dates[i] = Stamps(a)[i] /\ both[i] = a[i]
      BY <1>1, <1>2, <1>3, <1>4, <2>1, <2>2
    <3> QED BY <1>1, <1>5, <2>1, <3>1, <3>2
  <2>3. CASE ~(i <= Len(a))
    <3>1. i - Len(a) \in 1..Len(b)
      BY <1>1, <1>2, <2>1, <2>3
    <3>2. dates[i] = Stamps(b)[i - Len(a)] /\ both[i] = b[i - Len(a)]
      BY <1>1, <1>2, <1>3, <1>4, <2>1, <2>3
    <3> QED BY <1>2, <1>5, <2>1, <3>1, <3>2
  <2> QED BY <2>2, <2>3
<1>7. dates = Stamps(both)
  <2>1. Len(dates) = Len(Stamps(both))
    BY <1>1, <1>2, <1>3, <1>4, <1>5
  <2> QED BY <1>4, <1>5, <1>6, <2>1, SeqEqual
<1> QED BY <1>3, <1>7 DEF both, dates

\* The date of one archive.
LEMMA StampsOfOne ==
  ASSUME NEW x \in ArchiveData
  PROVE  <<x>> \in Seq(ArchiveData) /\ Len(<<x>>) = 1 /\ <<x.stamp>> = Stamps(<<x>>)
<1>1. <<x>> \in Seq(ArchiveData) /\ Len(<<x>>) = 1 /\ <<x>>[1] = x
  OBVIOUS
<1>2. <<x.stamp>> \in Seq(Stamp) /\ Len(<<x.stamp>>) = 1 /\ <<x.stamp>>[1] = x.stamp
  BY DEF ArchiveData
<1>3. /\ Stamps(<<x>>) \in Seq(Stamp) /\ Len(Stamps(<<x>>)) = 1
      /\ \A i \in 1..Len(<<x>>) : Stamps(<<x>>)[i] = <<x>>[i].stamp
  BY <1>1, StampsType
<1>4. \A i \in 1..Len(<<x.stamp>>) : <<x.stamp>>[i] = Stamps(<<x>>)[i]
  BY <1>1, <1>2, <1>3
<1>5. <<x.stamp>> = Stamps(<<x>>)
  BY <1>2, <1>3, <1>4, SeqEqual
<1> QED BY <1>1, <1>5

\* add_archive: the archive and its records come last.
LEMMA StampsOfMore ==
  ASSUME NEW c \in Seq(ArchiveData), NEW x \in ArchiveData
  PROVE  /\ Append(c, x) \in Seq(ArchiveData) /\ Len(Append(c, x)) = Len(c) + 1
         /\ Append(Stamps(c), x.stamp) = Stamps(Append(c, x))
<1>1. <<x>> \in Seq(ArchiveData) /\ Len(<<x>>) = 1 /\ <<x.stamp>> = Stamps(<<x>>)
  BY StampsOfOne
<1>2. /\ c \o <<x>> \in Seq(ArchiveData) /\ Len(c \o <<x>>) = Len(c) + 1
      /\ Stamps(c) \o <<x.stamp>> = Stamps(c \o <<x>>)
  BY <1>1, StampsOfBoth
<1>3. Append(c, x) = c \o <<x>>
  BY AppendIsConcat
<1>4. Append(Stamps(c), x.stamp) = Stamps(c) \o <<x.stamp>>
  BY StampsType, AppendIsConcat DEF ArchiveData
<1> QED BY <1>2, <1>3, <1>4

\* remove_archive: what is left of the archives, and of the records.
LEMMA StampsOfLeft ==
  ASSUME NEW c \in Seq(ArchiveData), NEW a \in 1..Len(c), NEW b \in a..Len(c)
  PROVE  LET left(s) == SubSeq(s, 1, a - 1) \o SubSeq(s, b + 1, Len(s))
         IN /\ left(c) \in Seq(ArchiveData) /\ Len(left(c)) = Len(c) - (b - a + 1)
            /\ left(Stamps(c)) = Stamps(left(c))
<1>1. Len(c) \in Nat /\ Len(Stamps(c)) = Len(c)
  BY StampsType
<1>2. /\ SubSeq(c, 1, a - 1) \in Seq(ArchiveData) /\ Len(SubSeq(c, 1, a - 1)) = a - 1
      /\ SubSeq(Stamps(c), 1, a - 1) = Stamps(SubSeq(c, 1, a - 1))
  <2>1. 1 \in 1..(Len(c) + 1) /\ a - 1 \in 0..Len(c)
    BY <1>1
  <2>2. /\ SubSeq(c, 1, a - 1) \in Seq(ArchiveData)
        /\ Len(SubSeq(c, 1, a - 1)) = IF 1 <= a - 1 THEN (a - 1) - 1 + 1 ELSE 0
        /\ SubSeq(Stamps(c), 1, a - 1) = Stamps(SubSeq(c, 1, a - 1))
    BY <2>1, StampsOfPart
  <2> QED BY <2>2
<1>3. /\ SubSeq(c, b + 1, Len(c)) \in Seq(ArchiveData)
      /\ Len(SubSeq(c, b + 1, Len(c))) = Len(c) - b
      /\ SubSeq(Stamps(c), b + 1, Len(c)) = Stamps(SubSeq(c, b + 1, Len(c)))
  <2>1. b + 1 \in 1..(Len(c) + 1) /\ Len(c) \in 0..Len(c)
    BY <1>1
  <2>2. /\ SubSeq(c, b + 1, Len(c)) \in Seq(ArchiveData)
        /\ Len(SubSeq(c, b + 1, Len(c)))
             = IF b + 1 <= Len(c) THEN Len(c) - (b + 1) + 1 ELSE 0
        /\ SubSeq(Stamps(c), b + 1, Len(c)) = Stamps(SubSeq(c, b + 1, Len(c)))
    BY <2>1, StampsOfPart
  <2> QED BY <1>1, <2>2
<1> DEFINE front == SubSeq(c, 1, a - 1)
           back == SubSeq(c, b + 1, Len(c))
<1>4. /\ front \o back \in Seq(ArchiveData) /\ Len(front \o back) = Len(front) + Len(back)
      /\ Stamps(front) \o Stamps(back) = Stamps(front \o back)
  <2> HIDE DEF front, back
  <2>1. front \in Seq(ArchiveData) /\ back \in Seq(ArchiveData)
    BY <1>2, <1>3 DEF front, back
  <2> QED BY <2>1, StampsOfBoth
<1>5. Len(front) + Len(back) = Len(c) - (b - a + 1)
  <2>1. Len(front) = a - 1 /\ Len(back) = Len(c) - b
    BY <1>2, <1>3
  <2> HIDE DEF front, back
  <2> QED BY <1>1, <2>1
<1> QED BY <1>1, <1>2, <1>3, <1>4, <1>5

\* set_permutation: the archive at i is put at j, and its records too.
LEMMA StampsOfMoved ==
  ASSUME NEW c \in Seq(ArchiveData), NEW i \in 1..Len(c), NEW j \in 1..Len(c)
  PROVE  LET move(s) == InsertAt(RemoveAt(s, i), j, s[i])
         IN /\ move(c) \in Seq(ArchiveData) /\ Len(move(c)) = Len(c)
            /\ move(Stamps(c)) = Stamps(move(c))
<1> DEFINE r == RemoveAt(c, i)
           front == SubSeq(r, 1, j - 1)
           back == SubSeq(r, j, Len(r))
<1>1. /\ r \in Seq(ArchiveData) /\ Len(r) = Len(c) - 1 /\ RemoveAt(Stamps(c), i) = Stamps(r)
  <2>1. i \in i..Len(c)
    OBVIOUS
  <2>2. /\ r \in Seq(ArchiveData) /\ Len(r) = Len(c) - (i - i + 1)
        /\ RemoveAt(Stamps(c), i) = Stamps(r)
    BY <2>1, StampsOfLeft DEF RemoveAt
  <2> QED BY <2>2, StampsType
<1>2. /\ c[i] \in ArchiveData /\ Stamps(c)[i] = c[i].stamp /\ Len(c) \in Nat
      /\ Len(Stamps(r)) = Len(r)
  BY <1>1, StampsType
<1> HIDE DEF r
<1>3. /\ front \in Seq(ArchiveData) /\ Len(front) = j - 1
      /\ SubSeq(Stamps(r), 1, j - 1) = Stamps(front)
  <2>1. 1 \in 1..(Len(r) + 1) /\ j - 1 \in 0..Len(r)
    BY <1>1, <1>2
  <2>2. /\ front \in Seq(ArchiveData)
        /\ Len(front) = IF 1 <= j - 1 THEN (j - 1) - 1 + 1 ELSE 0
        /\ SubSeq(Stamps(r), 1, j - 1) = Stamps(front)
    BY <1>1, <2>1, StampsOfPart
  <2> HIDE DEF front
  <2> QED BY <2>2
<1>4. /\ back \in Seq(ArchiveData) /\ Len(back) = Len(c) - j
      /\ SubSeq(Stamps(r), j, Len(r)) = Stamps(back)
  <2>1. j \in 1..(Len(r) + 1) /\ Len(r) \in 0..Len(r)
    BY <1>1, <1>2
  <2>2. /\ back \in Seq(ArchiveData)
        /\ Len(back) = IF j <= Len(r) THEN Len(r) - j + 1 ELSE 0
        /\ SubSeq(Stamps(r), j, Len(r)) = Stamps(back)
    BY <1>1, <2>1, StampsOfPart
  <2> HIDE DEF back
  <2> QED BY <1>1, <1>2, <2>2
<1> HIDE DEF front, back
<1>5. /\ <<c[i]>> \in Seq(ArchiveData) /\ Len(<<c[i]>>) = 1
      /\ <<c[i].stamp>> = Stamps(<<c[i]>>)
  BY <1>2, StampsOfOne
<1>6. /\ front \o <<c[i]>> \in Seq(ArchiveData) /\ Len(front \o <<c[i]>>) = Len(front) + 1
      /\ Stamps(front) \o <<c[i].stamp>> = Stamps(front \o <<c[i]>>)
  BY <1>3, <1>5, StampsOfBoth
<1>7. /\ (front \o <<c[i]>>) \o back \in Seq(ArchiveData)
      /\ Len((front \o <<c[i]>>) \o back) = Len(front \o <<c[i]>>) + Len(back)
      /\ Stamps(front \o <<c[i]>>) \o Stamps(back) = Stamps((front \o <<c[i]>>) \o back)
  BY <1>4, <1>6, StampsOfBoth
<1>8. InsertAt(r, j, c[i]) = (front \o <<c[i]>>) \o back
  BY DEF InsertAt, front, back
<1>9. InsertAt(Stamps(r), j, c[i].stamp) = (Stamps(front) \o <<c[i].stamp>>) \o Stamps(back)
  BY <1>2, <1>3, <1>4 DEF InsertAt
<1>10. Len((front \o <<c[i]>>) \o back) = Len(c)
  <2>1. /\ Len((front \o <<c[i]>>) \o back) = Len(front \o <<c[i]>>) + Len(back)
        /\ Len(front \o <<c[i]>>) = Len(front) + 1
        /\ Len(front) = j - 1 /\ Len(back) = Len(c) - j /\ Len(c) \in Nat
    BY <1>2, <1>3, <1>4, <1>6, <1>7
  <2>2. (j - 1) + 1 + (Len(c) - j) = Len(c)
    BY <2>1
  <2> QED BY <2>1, <2>2
<1> QED BY <1>1, <1>2, <1>6, <1>7, <1>8, <1>9, <1>10 DEF r

-----------------------------------------------------------------------------
(* The operations *)

\* What an operation may leave in memory: header and tree still together, and
\* what one request makes of what was there.
Follows(d, new) ==
  /\ Legal(new)
  /\ Content(new) \in Store!Edited(Content(d))
  /\ d.files # NULL => new.files # NULL

\* What throws has changed nothing.
Undone(d, r) == r.throws # "" => r.dat = d

\* The parts of a database in memory.
LEMMA LegalParts ==
  ASSUME NEW d, Legal(d)
  PROVE  /\ d.coordinate \in Seq(ArchiveData) /\ Count(d) \in Nat
         /\ d.settings \in SUBSET Setting
         /\ d.files # NULL => d.files = Stamps(d.coordinate) /\ d.data_files = NULL
         /\ DOMAIN d.coordinate = 1..Count(d)
         /\ d = [coordinate |-> d.coordinate, settings |-> d.settings, files |-> d.files,
                 data_files |-> d.data_files]
BY LenProperties DEF Legal, Database, Count

\* The mark of no tree is no tree.
LEMMA NoTree == NULL \notin Seq(Stamp)
<1>1. SUFFICES ASSUME NULL \in Seq(Stamp) PROVE FALSE
  OBVIOUS
<1>2. NULL[1] = 0 /\ 1 \in 1..Len(NULL)
  BY DEF NULL
<1>3. NULL[1] \in Stamp
  BY <1>1, <1>2, ElementOfSeq
<1> QED BY <1>2, <1>3, StampsAreDates

\* The requests there are (DatabaseStore).
LEMMA Requests ==
  ASSUME NEW c
  PROVE  /\ c \in Store!Edited(c)
         /\ \A s \in Stamp :
              Len(c.archives) < ArchiveNumMax - 1 =>
                [c EXCEPT !.archives = Append(@, Store!New(s))] \in Store!Edited(c)
         /\ \A a, b \in 1..Len(c.archives) :
              [c EXCEPT !.archives = SubSeq(@, 1, a - 1) \o SubSeq(@, b + 1, Len(@))]
                \in Store!Edited(c)
         /\ \A k \in 1..Len(c.archives) :
              /\ [c EXCEPT !.archives[k].name = "changed"] \in Store!Edited(c)
              /\ [c EXCEPT !.archives[k].path = "changed"] \in Store!Edited(c)
         /\ \A i, j \in 1..Len(c.archives) :
              [c EXCEPT !.archives = InsertAt(RemoveAt(@, i), j, @[i])] \in Store!Edited(c)
         /\ \A x \in Setting : [c EXCEPT !.settings = @ \cup {x}] \in Store!Edited(c)
<1>1. \A s, i, x : /\ Store!InsertAt(s, i, x) = InsertAt(s, i, x)
                   /\ Store!RemoveAt(s, i) = RemoveAt(s, i)
  BY DEF Store!InsertAt, InsertAt, Store!RemoveAt, RemoveAt
<1>2. Setting = Store!Setting
  BY DEF Setting, Store!Setting
<1>3. \A s \in Stamp :
        Len(c.archives) < ArchiveNumMax - 1 =>
          [c EXCEPT !.archives = Append(@, Store!New(s))] \in Store!Added(c)
  BY DEF Store!Added
<1>4. \A a, b \in 1..Len(c.archives) :
        [c EXCEPT !.archives = SubSeq(@, 1, a - 1) \o SubSeq(@, b + 1, Len(@))]
          \in Store!Removed(c)
  <2>1. \A a, b \in 1..Len(c.archives) :
          [c EXCEPT !.archives = Store!Without(@, a, b)] \in Store!Removed(c)
    BY DEF Store!Removed
  <2> QED BY <2>1 DEF Store!Without
<1>5. \A k \in 1..Len(c.archives) :
        [c EXCEPT !.archives[k].name = "changed"] \in Store!Renamed(c)
  BY DEF Store!Renamed
<1>6. \A k \in 1..Len(c.archives) :
        [c EXCEPT !.archives[k].path = "changed"] \in Store!Placed(c)
  BY DEF Store!Placed
<1>7. \A i, j \in 1..Len(c.archives) :
        [c EXCEPT !.archives = InsertAt(RemoveAt(@, i), j, @[i])] \in Store!Moved(c)
  BY <1>1 DEF Store!Moved
<1>8. \A x \in Setting : [c EXCEPT !.settings = @ \cup {x}] \in Store!Configured(c)
  BY <1>2 DEF Store!Configured
<1> QED BY <1>3, <1>4, <1>5, <1>6, <1>7, <1>8, Zenon DEF Store!Edited

\* What changes nothing follows.
LEMMA SameFollows ==
  ASSUME NEW d, Legal(d)
  PROVE  Follows(d, d)
BY Requests DEF Follows

\* Changes of the archives with their records.
LEMMA ChangeFollows ==
  ASSUME NEW d, Legal(d), d.files # NULL,
         NEW c \in Seq(ArchiveData), Len(c) < ArchiveNumMax,
         NEW t, t = Stamps(c),
         [Content(d) EXCEPT !.archives = c] \in Store!Edited(Content(d))
  PROVE  Follows(d, [d EXCEPT !.coordinate = c, !.files = t])
<1> DEFINE new == [d EXCEPT !.coordinate = c, !.files = t]
<1>1. t \in Seq(Stamp) /\ t # NULL
  BY StampsType, NoTree
<1>2. d \in Database /\ d.data_files = NULL
  BY LegalParts DEF Legal
<1>3. /\ new \in Database
      /\ new.coordinate = c /\ new.settings = d.settings /\ new.files = t
      /\ new.data_files = NULL
  BY <1>1, <1>2 DEF Database
<1> HIDE DEF new
<1>4. Content(new) = [Content(d) EXCEPT !.archives = c]
  BY <1>3 DEF Content
<1>5. Legal(new)
  BY <1>3 DEF Legal, Count
<1> QED BY <1>1, <1>3, <1>4, <1>5 DEF Follows, new

\* op_add
LEMMA AddResult ==
  ASSUME NEW d, Legal(d), NEW stamp \in Stamp
  PROVE  Follows(d, Add(d, stamp).dat)
<1> DEFINE x == [stamp |-> stamp, name |-> "given", path |-> "given"]
           c == Append(d.coordinate, x)
           new == [d EXCEPT !.coordinate = Append(@, x), !.files = Append(@, stamp)]
<1>1. CASE d.files # NULL /\ ~Full(d)
  <2>1. /\ d.coordinate \in Seq(ArchiveData) /\ Count(d) \in Nat
        /\ d.files = Stamps(d.coordinate)
    BY <1>1, LegalParts
  <2>2. x \in ArchiveData /\ x.stamp = stamp
    BY DEF ArchiveData, Value
  <2>3. /\ c \in Seq(ArchiveData) /\ Len(c) = Count(d) + 1
        /\ Append(Stamps(d.coordinate), stamp) = Stamps(c)
    <3> HIDE DEF x
    <3> QED BY <2>1, <2>2, StampsOfMore DEF Count
  <2>4. Count(d) < ArchiveNumMax - 1
    BY <1>1, <2>1, RoomForArchives DEF Full
  <2>5. [Content(d) EXCEPT !.archives = c] \in Store!Edited(Content(d))
    <3>1. [Content(d) EXCEPT !.archives = c]
            = [Content(d) EXCEPT !.archives = Append(@, Store!New(stamp))]
      BY DEF Content, Store!New
    <3>2. Len(Content(d).archives) < ArchiveNumMax - 1
      BY <2>4 DEF Content, Count
    <3> QED BY <3>1, <3>2, Requests
  <2>6. Follows(d, [d EXCEPT !.coordinate = c, !.files = Stamps(c)])
    <3>1. Len(c) < ArchiveNumMax
      BY <2>1, <2>3, <2>4, RoomForArchives
    <3> HIDE DEF c
    <3> QED BY <1>1, <2>3, <2>5, <3>1, ChangeFollows
  <2>7. new = [d EXCEPT !.coordinate = c, !.files = Stamps(c)]
    BY <2>1, <2>3
  <2>8. Add(d, stamp).dat = new
    BY <1>1 DEF Add, Ok, Throw
  <2> QED BY <2>6, <2>7, <2>8
<1>2. CASE d.files = NULL \/ Full(d)
  <2>1. Add(d, stamp).dat = d
    BY <1>2 DEF Add, Throw
  <2> QED BY <2>1, SameFollows
<1> QED BY <1>1, <1>2

\* A number of the user is refused or one from 1.
LEMMA RealNumType ==
  ASSUME NEW d, Legal(d), NEW num \in Int
  PROVE  /\ RealNum(d, num) \in Nat
         /\ RealNum(d, num) # 0 /\ RealNum(d, num) <= Count(d) =>
              RealNum(d, num) \in 1..Count(d)
BY LegalParts, RoomForArchives DEF RealNum

\* op_del
LEMMA DelResult ==
  ASSUME NEW d, Legal(d), NEW min \in Int, NEW max \in Int
  PROVE  /\ Follows(d, Del(d, min, max).dat)
         /\ Undone(d, Del(d, min, max))
<1> USE DEF Undone
<1> DEFINE first == RealNum(d, min)
           last == IF min < 0 THEN first ELSE max
           left(s) == SubSeq(s, 1, first - 1) \o SubSeq(s, last + 1, Len(s))
           refused == first = 0 \/ last = 0 \/ first > last \/ last > Count(d)
<1>1. CASE d.files # NULL /\ ~refused
  <2>1. /\ d.coordinate \in Seq(ArchiveData) /\ Count(d) \in Nat
        /\ d.files = Stamps(d.coordinate) /\ Count(d) < ArchiveNumMax
    BY <1>1, LegalParts DEF Legal
  <2>2. first \in 1..Count(d) /\ last \in first..Count(d)
    <3>1. first \in Nat
      BY RealNumType
    <3>2. last \in Int
      BY <3>1
    <3> QED BY <1>1, <2>1, <3>1, <3>2
  <2> HIDE DEF first, last
  <2> DEFINE c == left(d.coordinate)
  <2>3. /\ c \in Seq(ArchiveData) /\ Len(c) = Count(d) - (last - first + 1)
        /\ left(Stamps(d.coordinate)) = Stamps(c)
    BY <2>1, <2>2, StampsOfLeft DEF Count
  <2>4. last \in 1..Count(d)
    BY <2>1, <2>2
  <2>5. [Content(d) EXCEPT !.archives = c] \in Store!Edited(Content(d))
    <3>1. [Content(d) EXCEPT !.archives = c]
            = [Content(d) EXCEPT !.archives = SubSeq(@, 1, first - 1) \o SubSeq(@, last + 1, Len(@))]
      BY DEF Content
    <3>2. first \in 1..Len(Content(d).archives) /\ last \in 1..Len(Content(d).archives)
      BY <2>2, <2>4 DEF Content, Count
    <3> QED BY <3>1, <3>2, Requests
  <2>6. Follows(d, [d EXCEPT !.coordinate = c, !.files = Stamps(c)])
    <3>1. Len(c) < ArchiveNumMax
      <4> HIDE DEF c
      <4> QED BY <2>1, <2>2, <2>3, RoomForArchives
    <3> HIDE DEF c
    <3> QED BY <1>1, <2>3, <2>5, <3>1, ChangeFollows
  <2>7. RemoveRange(d, first, last) = [d EXCEPT !.coordinate = c, !.files = Stamps(c)]
    BY <2>1, <2>3 DEF RemoveRange
  <2>8. Del(d, min, max) = Ok(RemoveRange(d, first, last))
    BY <1>1 DEF Del, first, last
  <2> HIDE DEF c, left
  <2>9. /\ Del(d, min, max).dat = [d EXCEPT !.coordinate = c, !.files = Stamps(c)]
        /\ Del(d, min, max).throws = ""
    <3>1. \A z : Ok(z).dat = z /\ Ok(z).throws = ""
      BY DEF Ok
    <3> QED BY <2>7, <2>8, <3>1
  <2> QED BY <2>6, <2>9
<1>2. CASE d.files = NULL \/ refused
  <2>1. Del(d, min, max).dat = d
    BY <1>2 DEF Del, Throw
  <2> QED BY <2>1, SameFollows
<1> QED BY <1>1, <1>2

\* set_permutation and op_move
LEMMA MoveResult ==
  ASSUME NEW d, Legal(d), NEW src \in Int, NEW dst \in Int
  PROVE  Follows(d, Permuted(d, src, dst).dat) /\ Follows(d, Move(d, src, dst).dat)
<1> DEFINE move(s) == InsertAt(RemoveAt(s, src), dst, s[src])
           new == [d EXCEPT !.coordinate = move(@), !.files = move(@)]
<1>1. Follows(d, Permuted(d, src, dst).dat)
  <2>1. CASE d.files # NULL /\ {src, dst} \subseteq 1..Count(d)
    <3>1. /\ d.coordinate \in Seq(ArchiveData) /\ Count(d) \in Nat
          /\ d.files = Stamps(d.coordinate) /\ Count(d) < ArchiveNumMax
      BY <2>1, LegalParts DEF Legal
    <3> DEFINE c == move(d.coordinate)
    <3>2. /\ c \in Seq(ArchiveData) /\ Len(c) = Count(d)
          /\ move(Stamps(d.coordinate)) = Stamps(c)
      BY <2>1, <3>1, StampsOfMoved DEF Count
    <3>3. [Content(d) EXCEPT !.archives = c] \in Store!Edited(Content(d))
      <4>1. [Content(d) EXCEPT !.archives = c]
              = [Content(d) EXCEPT !.archives = InsertAt(RemoveAt(@, src), dst, @[src])]
        BY DEF Content
      <4>2. src \in 1..Len(Content(d).archives) /\ dst \in 1..Len(Content(d).archives)
        BY <2>1 DEF Content, Count
      <4> QED BY <4>1, <4>2, Requests
    <3>4. Follows(d, [d EXCEPT !.coordinate = c, !.files = Stamps(c)])
      <4> HIDE DEF c
      <4> QED BY <2>1, <3>1, <3>2, <3>3, ChangeFollows
    <3>5. new = [d EXCEPT !.coordinate = c, !.files = Stamps(c)]
      BY <3>1, <3>2
    <3>6. Permuted(d, src, dst).dat = new
      BY <2>1 DEF Permuted, Ok, Throw
    <3> QED BY <3>4, <3>5, <3>6
  <2>2. CASE d.files = NULL \/ ~({src, dst} \subseteq 1..Count(d))
    <3>1. Permuted(d, src, dst).dat = d
      BY <2>2 DEF Permuted, Throw
    <3> QED BY <3>1, SameFollows
  <2> QED BY <2>1, <2>2
<1>2. \/ Move(d, src, dst).dat = d
      \/ Move(d, src, dst).dat = Permuted(d, src, dst).dat
  BY DEF Move, Throw
<1> QED BY <1>1, <1>2, SameFollows

\* The operations on the header alone.
LEMMA HeaderResult ==
  ASSUME NEW d, Legal(d), NEW num \in Int, NEW x \in Setting,
         NEW r, r \in {ChBase(d, num), Where(d, num), Set(d, x)}
  PROVE  /\ Follows(d, r.dat)
         /\ Undone(d, r)
         /\ r.throws # "SRC_BUG"
<1> USE DEF Undone
<1> DEFINE k == RealNum(d, num)
           named == [d EXCEPT !.coordinate[k].name = "changed"]
           placed == [d EXCEPT !.coordinate[k].path = "changed"]
<1>0. /\ d \in Database /\ d.coordinate \in Seq(ArchiveData) /\ Count(d) \in Nat
      /\ DOMAIN d.coordinate = 1..Count(d) /\ Count(d) < ArchiveNumMax
  BY LegalParts DEF Legal
<1>1. \/ r = Throw(d, "Erange")
      \/ k \in 1..Count(d) /\ r = Ok(named)
      \/ k \in 1..Count(d) /\ r = Ok(placed)
      \/ r = Set(d, x)
  <2>1. k = 0 \/ k > Count(d) \/ k \in 1..Count(d)
    BY <1>0, RealNumType
  <2>2. ChBase(d, num) = IF k = 0 \/ k > Count(d) THEN Throw(d, "Erange") ELSE Ok(named)
    BY DEF ChBase
  <2>3. Where(d, num) = IF k = 0 \/ k > Count(d) THEN Throw(d, "Erange") ELSE Ok(placed)
    BY DEF Where
  <2> HIDE DEF k, named, placed
  <2> QED BY <2>1, <2>2, <2>3
<1>2. ASSUME NEW y \in ArchiveData, k \in 1..Count(d), y.stamp = d.coordinate[k].stamp
      PROVE  /\ Legal([d EXCEPT !.coordinate = [d.coordinate EXCEPT ![k] = y]])
             /\ [d EXCEPT !.coordinate = [d.coordinate EXCEPT ![k] = y]].files = d.files
  <2> DEFINE c == [d.coordinate EXCEPT ![k] = y]
             new == [d EXCEPT !.coordinate = c]
  <2>1. c \in Seq(ArchiveData) /\ Len(c) = Count(d) /\ DOMAIN c = DOMAIN d.coordinate
    BY <1>0, <1>2, ExceptSeq DEF Count
  <2>2. Stamps(c) = Stamps(d.coordinate)
    BY <1>0, <1>2 DEF Stamps
  <2> HIDE DEF c
  <2>3. /\ new \in Database /\ new.coordinate = c /\ new.files = d.files
        /\ new.data_files = d.data_files
    BY <1>0, <2>1 DEF Database
  <2> HIDE DEF new
  <2>4. Legal(new) /\ new.files = d.files
    BY <1>0, <2>1, <2>2, <2>3 DEF Legal, Count
  <2> QED BY <2>4 DEF new, c
<1>3. CASE k \in 1..Count(d) /\ r = Ok(named)
  <2> DEFINE y == [d.coordinate[k] EXCEPT !.name = "changed"]
  <2>1. d.coordinate[k] \in ArchiveData
    BY <1>0, <1>3, ElementOfSeq DEF Count
  <2>2. y \in ArchiveData /\ y.stamp = d.coordinate[k].stamp
    BY <2>1 DEF ArchiveData, Value
  <2>3. named = [d EXCEPT !.coordinate = [d.coordinate EXCEPT ![k] = y]]
    OBVIOUS
  <2>4. Content(named) \in Store!Edited(Content(d))
    <3>1. named.coordinate = [d.coordinate EXCEPT ![k] = y] /\ named.settings = d.settings
      BY <1>0 DEF Database
    <3>2. Content(named) = [Content(d) EXCEPT !.archives[k].name = "changed"]
      BY <3>1 DEF Content
    <3>3. k \in 1..Len(Content(d).archives)
      BY <1>3 DEF Content, Count
    <3> QED BY <3>2, <3>3, Requests
  <2> HIDE DEF y
  <2> QED BY <1>2, <1>3, <2>2, <2>3, <2>4 DEF Ok, Follows
<1>4. CASE k \in 1..Count(d) /\ r = Ok(placed)
  <2> DEFINE y == [d.coordinate[k] EXCEPT !.path = "changed"]
  <2>1. d.coordinate[k] \in ArchiveData
    BY <1>0, <1>4, ElementOfSeq DEF Count
  <2>2. y \in ArchiveData /\ y.stamp = d.coordinate[k].stamp
    BY <2>1 DEF ArchiveData, Value
  <2>3. placed = [d EXCEPT !.coordinate = [d.coordinate EXCEPT ![k] = y]]
    OBVIOUS
  <2>4. Content(placed) \in Store!Edited(Content(d))
    <3>1. placed.coordinate = [d.coordinate EXCEPT ![k] = y] /\ placed.settings = d.settings
      BY <1>0 DEF Database
    <3>2. Content(placed) = [Content(d) EXCEPT !.archives[k].path = "changed"]
      BY <3>1 DEF Content
    <3>3. k \in 1..Len(Content(d).archives)
      BY <1>4 DEF Content, Count
    <3> QED BY <3>2, <3>3, Requests
  <2> HIDE DEF y
  <2> QED BY <1>2, <1>4, <2>2, <2>3, <2>4 DEF Ok, Follows
<1>5. CASE r = Set(d, x)
  <2> DEFINE new == [d EXCEPT !.settings = @ \cup {x}]
  <2>1. /\ new \in Database /\ new.coordinate = d.coordinate /\ new.files = d.files
        /\ new.data_files = d.data_files /\ new.settings = d.settings \cup {x}
    BY <1>0 DEF Database
  <2>2. Content(new) \in Store!Edited(Content(d))
    <3>1. Content(new) = [Content(d) EXCEPT !.settings = @ \cup {x}]
      BY <2>1 DEF Content
    <3> QED BY <3>1, Requests
  <2>3. r = Ok(new)
    BY <1>5 DEF Set
  <2> HIDE DEF new
  <2>4. Legal(new)
    BY <1>0, <2>1 DEF Legal, Count
  <2> QED BY <2>1, <2>2, <2>3, <2>4 DEF Ok, Follows
<1>6. CASE r = Throw(d, "Erange")
  BY <1>6, SameFollows DEF Throw
<1> QED BY <1>1, <1>3, <1>4, <1>5, <1>6

\* The operations that only read, and op_restore.
LEMMA ReadResult ==
  ASSUME NEW d, Legal(d), NEW num \in Int, NEW early \in BOOLEAN,
         NEW r, r \in {Ok(d), Restore(d, early), Used(d, num), Read(d), Check(d)}
  PROVE  /\ Legal(r.dat) /\ Content(r.dat) = Content(d)
         /\ early = FALSE => r.dat = d
<1>1. r.dat = d \/ (early /\ r.dat = [d EXCEPT !.files = NULL])
  <2>1. Ok(d).dat = d /\ Used(d, num).dat = d /\ Read(d).dat = d /\ Check(d).dat = d
    BY DEF Ok, Throw, Used, Read, Check
  <2>2. \/ Restore(d, early).dat = d
        \/ early /\ Restore(d, early).dat = [d EXCEPT !.files = NULL]
    BY DEF Ok, Throw, Restore
  <2> QED BY <2>1, <2>2
<1>2. CASE r.dat = [d EXCEPT !.files = NULL]
  <2>1. /\ r.dat \in Database /\ r.dat.coordinate = d.coordinate /\ r.dat.files = NULL
        /\ r.dat.data_files = d.data_files /\ r.dat.settings = d.settings
    BY <1>2 DEF Legal, Database
  <2> QED BY <1>1, <1>2, <2>1 DEF Legal, Count, Content
<1> QED BY <1>1, <1>2

\* Every operation, in a command or in a batch: restorations aside, what it
\* leaves in memory is what one request makes.
LEMMA ActionResult ==
  ASSUME NEW d, Legal(d), NEW c \in Command, NEW early \in BOOLEAN,
         NEW r, r = Action(d, c, early)
  PROVE  /\ Legal(r.dat) /\ Content(r.dat) \in Store!Edited(Content(d))
         /\ early = FALSE => Follows(d, r.dat)
         /\ PartialRead(c.op) => r.throws # "SRC_BUG"
<1>1. /\ c.op \in {"add", "listing", "del", "chbase", "where", "options", "dar", "restore",
                   "used", "files", "stats", "moving", "check"}
      /\ c.num \in Int /\ c.num2 \in Int /\ (c.op = "add" => c.num \in Stamp)
  BY StampsAreDates, RoomForArchives DEF Command, Number
<1>2. CASE c.op = "add"
  <2>1. r = Add(d, c.num)
    BY <1>2 DEF Action
  <2> QED BY <1>1, <1>2, <2>1, AddResult DEF Follows, PartialRead
<1>3. CASE c.op = "del"
  <2>1. r = Del(d, c.num, c.num2)
    BY <1>3 DEF Action
  <2> QED BY <1>1, <1>3, <2>1, DelResult DEF Follows, PartialRead
<1>4. CASE c.op = "moving"
  <2>1. r = Move(d, c.num, c.num2)
    BY <1>4 DEF Action
  <2> QED BY <1>1, <1>4, <2>1, MoveResult DEF Follows, PartialRead
<1>5. CASE PartialRead(c.op)
  <2>1. "options" \in Setting /\ "dar_path" \in Setting
    BY DEF Setting
  <2>2. \E x \in Setting : r \in {ChBase(d, c.num), Where(d, c.num), Set(d, x)}
    BY <1>5, <2>1 DEF Action, PartialRead
  <2> QED BY <1>1, <1>5, <2>2, HeaderResult DEF Follows
<1>6. CASE c.op \in {"listing", "restore", "used", "files", "stats", "check"}
  <2>1. r \in {Ok(d), Restore(d, early), Used(d, c.num), Read(d), Check(d)}
    BY <1>6 DEF Action
  <2>2. /\ Legal(r.dat) /\ Content(r.dat) = Content(d)
        /\ early = FALSE => r.dat = d
    BY <1>1, <2>1, ReadResult
  <2> QED BY <1>6, <2>2, SameFollows, Requests DEF PartialRead, Follows
<1> QED BY <1>1, <1>2, <1>3, <1>4, <1>5, <1>6 DEF PartialRead

\* The operations behind the changes of the menu.
LEMMA MenuOperation ==
  ASSUME NEW d, Legal(d), NEW n \in Int, NEW m \in Int, NEW r,
         \/ r = Del(d, n, m)
         \/ \E x \in Setting : r \in {ChBase(d, n), Where(d, n), Set(d, x)}
  PROVE  Follows(d, r.dat) /\ Undone(d, r)
<1>1. CASE r = Del(d, n, m)
  BY <1>1, DelResult
<1>2. CASE \E x \in Setting : r \in {ChBase(d, n), Where(d, n), Set(d, x)}
  <2>1. PICK x \in Setting : r \in {ChBase(d, n), Where(d, n), Set(d, x)}
    BY <1>2
  <2> QED BY <2>1, HeaderResult, Zenon
<1> QED BY <1>1, <1>2

\* The changes of the menu: an exception leaves the memory as it was.
LEMMA MenuChangeResult ==
  ASSUME NEW d, Legal(d), NEW c \in Command,
         c.op \in {"del", "chbase", "where", "options", "dar"}
  PROVE  LET r == Action(d, [c EXCEPT !.num2 = IF c.num < 0 THEN 0 ELSE c.num], FALSE)
         IN Follows(d, r.dat) /\ Undone(d, r)
<1> DEFINE e == [c EXCEPT !.num2 = IF c.num < 0 THEN 0 ELSE c.num]
           r == Action(d, e, FALSE)
<1>1. c.num \in Int /\ e.op = c.op /\ e.num \in Int /\ e.num2 \in Int
  BY StampsAreDates, RoomForArchives DEF Command, Number
<1>2. "options" \in Setting /\ "dar_path" \in Setting
  BY DEF Setting
<1>3. \/ r = Del(d, e.num, e.num2)
      \/ \E x \in Setting : r \in {ChBase(d, e.num), Where(d, e.num), Set(d, x)}
  BY <1>1, <1>2 DEF Action
<1>4. PICK n \in Int, m \in Int : n = e.num /\ m = e.num2
  BY <1>1
<1>5. \/ r = Del(d, n, m)
      \/ \E x \in Setting : r \in {ChBase(d, n), Where(d, n), Set(d, x)}
  BY <1>3, <1>4
<1> HIDE DEF r
<1>6. Follows(d, r.dat) /\ Undone(d, r)
  BY <1>5, MenuOperation, Zenon
<1> QED BY <1>6 DEF r

-----------------------------------------------------------------------------
(* The sessions *)

FileRecord == [state : {"none", "torn", "whole"}, coordinate : Seq(ArchiveData),
               settings : SUBSET Setting, tree : Seq(Stamp)]

\* What the files hold, and what the one given with -B last held.
FilesOK ==
  /\ disk \in [File -> FileRecord]
  /\ \A f \in File : /\ Len(disk[f].coordinate) < ArchiveNumMax
                     /\ disk[f].tree = Stamps(disk[f].coordinate)
  /\ disk[Base].state = "none" => disk[Base] = NoFile
  /\ disk[Base].state # "torn" => good = Content(disk[Base])

\* Which operation a process may be in, and what it then has in memory.
InStep ==
  /\ pc \in {"shell", "reading"} =>
       dat = NewDatabase /\ base = Base /\ target = Base /\ slips = {} /\ saved /\ ~blocked
  /\ op = "create" =>
       pc \in {"opening", "writing", "flushing"} /\ dat = NewDatabase /\ target = Base
  /\ pc \in {"interactive", "edited", "cancelled"} => op = "interactive"
  /\ pc = "batch" => op = "batch"
  /\ pc = "action" => op \notin {"batch", "interactive"}
  /\ pc = "action" /\ dat.files = NULL => PartialRead(op)
  /\ op \in {"batch", "interactive"} /\ pc \notin {"shell", "reading"} => dat.files # NULL
  /\ pc \in {"writing", "flushing"} => dat.files # NULL \/ dat.data_files # NULL
  /\ pc \notin {"writing", "flushing"} /\ blocked => "write" \in slips

\* The flag of the menu, and what it says of the file.
MenuIsRight ==
  pc \in {"interactive", "opening"} /\ op = "interactive" /\ saved /\ slips = {} =>
    Same(base)

Typed ==
  /\ pc \in {"shell", "reading", "action", "batch", "opening", "writing", "flushing",
            "interactive", "edited", "cancelled"}
  /\ base \in File /\ target \in File
  /\ saved \in BOOLEAN /\ blocked \in BOOLEAN
  /\ cancel \in {"none", "delayed", "now"}
  /\ slips \subseteq {"edit", "flush", "write"}

SessionOK == Typed /\ Legal(dat) /\ InStep /\ MenuIsRight

IInv == FilesOK /\ SessionOK

\* good is what the file given with -B holds whenever it is complete.
GoodStep == good' = IF disk'[Base].state = "whole" THEN Content(disk'[Base]) ELSE good

\* What a step is for DatabaseStore, if anything.
StoreStep == Store!Next \/ UNCHANGED Store!vars

\* A database just created is one.
LEMMA NewIsLegal == Legal(NewDatabase)
<1>1. <<>> \in Seq(Stamp) /\ <<>> \in Seq(ArchiveData) /\ Stamps(<<>>) = <<>> /\ Len(<<>>) = 0
  BY DEF Stamps
<1>2. /\ NewDatabase.coordinate = <<>> /\ NewDatabase.files = <<>>
      /\ NewDatabase.data_files = NULL /\ NewDatabase \in Database
  BY <1>1 DEF NewDatabase, Database
<1> QED BY <1>1, <1>2, RoomForArchives DEF Legal, Count

\* Every session starts right.
LEMMA MCInitOK == MCInit => IInv /\ Store!Init
<1>1. SUFFICES ASSUME MCInit PROVE IInv /\ Store!Init
  OBVIOUS
<1>2. ASSUME NEW s \in Earlier
      PROVE  /\ Left(s) \in FileRecord /\ Left(s).state = "whole"
             /\ Len(Left(s).coordinate) < ArchiveNumMax
             /\ Left(s).tree = Stamps(Left(s).coordinate)
  <2>1. s \in Seq(Stamp) /\ Len(s) \in Nat /\ Len(s) < ArchiveNumMax /\ DOMAIN s = 1..Len(s)
    BY EarlierIsLegal, LenProperties
  <2>2. s \in [1..Len(s) -> Stamp]
    BY <2>1
  <2>3. Listing(s) \in [1..Len(s) -> ArchiveData] /\ \A i \in 1..Len(s) : Listing(s)[i].stamp = s[i]
    BY <2>1, <2>2 DEF Listing, ArchiveData, Value
  <2>4. Listing(s) \in Seq(ArchiveData) /\ Len(Listing(s)) = Len(s) /\ DOMAIN Listing(s) = 1..Len(s)
    BY <2>1, <2>3
  <2>5. Stamps(Listing(s)) = s
    BY <2>2, <2>3, <2>4 DEF Stamps
  <2> QED BY <2>1, <2>4, <2>5 DEF Left, FileRecord
<1>3. /\ NoFile \in FileRecord /\ NoFile.state = "none" /\ Len(NoFile.coordinate) < ArchiveNumMax
      /\ NoFile.tree = Stamps(NoFile.coordinate)
  <2>1. <<>> \in Seq(Stamp) /\ <<>> \in Seq(ArchiveData) /\ Stamps(<<>>) = <<>> /\ Len(<<>>) = 0
    BY DEF Stamps
  <2> QED BY <2>1, RoomForArchives DEF NoFile, FileRecord
<1>4. \A f \in File : disk[f] = NoFile \/ \E s \in Earlier : disk[f] = Left(s)
  BY <1>1 DEF MCInit, Init
<1>5. disk \in [File -> FileRecord]
  <2>1. {NoFile} \cup {Left(s) : s \in Earlier} \subseteq FileRecord
    BY <1>2, <1>3
  <2>2. disk \in [File -> {NoFile} \cup {Left(s) : s \in Earlier}]
    BY <1>1 DEF MCInit, Init
  <2> HIDE DEF FileRecord
  <2> QED BY <2>1, <2>2, Zenon
<1>6. FilesOK
  BY <1>1, <1>2, <1>3, <1>4, <1>5 DEF FilesOK, MCInit, File
<1>7. SessionOK
  BY <1>1, NewIsLegal DEF SessionOK, MCInit, Init, Typed, InStep, MenuIsRight, File
<1>8. Store!Init
  <2>1. Draft = good /\ good = Content(disk[Base])
    BY <1>1 DEF Draft, MCInit, Init
  <2>2. CASE disk[Base] = NoFile
    BY <2>1, <2>2 DEF Store!Init, Store!Empty, Content, NoFile
  <2>3. CASE \E s \in Earlier : disk[Base] = Left(s)
    BY <1>2, <2>1, <2>3 DEF Store!Init
  <2> QED BY <1>4, <2>2, <2>3 DEF File
<1> QED BY <1>6, <1>7, <1>8 DEF IInv

\* What leaves the files alone leaves alone what they last held.
LEMMA DiskKept ==
  ASSUME FilesOK, disk' = disk, GoodStep
  PROVE  FilesOK' /\ good' = good
<1>1. good' = good
  BY DEF FilesOK, GoodStep
<1> QED BY <1>1 DEF FilesOK

\* What is in memory once the process has ended.
LEMMA Ended ==
  ASSUME NEW how, Finish(how)
  PROVE  SessionOK' /\ Draft' = good'
<1>1. Legal(dat')
  BY NewIsLegal DEF Finish
<1>2. Typed'
  BY DEF Finish, Typed, File
<1>3. InStep' /\ MenuIsRight'
  BY DEF Finish, InStep, MenuIsRight
<1>4. Draft' = good'
  BY DEF Finish, Draft
<1> QED BY <1>1, <1>2, <1>3, <1>4 DEF SessionOK

\* A process that ends without having touched the files.
LEMMA EndStep ==
  ASSUME FilesOK, disk' = disk, GoodStep, NEW how, Finish(how)
  PROVE  IInv' /\ StoreStep
<1>1. FilesOK' /\ good' = good
  BY DiskKept
<1>2. SessionOK' /\ Draft' = good'
  BY Ended
<1>3. Store!Forget
  BY <1>1, <1>2 DEF Store!Forget
<1> QED BY <1>1, <1>2, <1>3 DEF IInv, StoreStep, Store!Next

-----------------------------------------------------------------------------
(* Reading, acting *)

\* Start
LEMMA StartStep ==
  ASSUME IInv, GoodStep, NEW o, Start(o)
  PROVE  IInv' /\ StoreStep
<1>1. FilesOK' /\ good' = good
  BY DiskKept DEF Start, IInv
<1>2. SessionOK'
  <2>1. Typed' /\ Legal(dat')
    BY DEF Start, IInv, SessionOK, Typed, session, signals
  <2>2. InStep' /\ MenuIsRight'
    BY DEF Start, IInv, SessionOK, InStep, MenuIsRight, session, signals
  <2> QED BY <2>1, <2>2 DEF SessionOK
<1>3. Draft' = Draft /\ disk' = disk
  BY <1>1 DEF Start, Draft
<1> QED BY <1>1, <1>2, <1>3 DEF IInv, StoreStep, Store!vars

\* What is read holds the archives and their records.
LEMMA LoadedIsLegal ==
  ASSUME FilesOK, disk[Base].state = "whole", NEW partial \in BOOLEAN
  PROVE  LET d == Loaded(disk[Base], partial)
         IN /\ Legal(d) /\ Content(d) = good
            /\ partial => d.data_files # NULL
            /\ ~partial => d.files # NULL /\ Dumped(d) = disk[Base]
<1> DEFINE f == disk[Base]
           d == Loaded(f, partial)
<1>1. f \in FileRecord /\ Len(f.coordinate) < ArchiveNumMax /\ f.tree = Stamps(f.coordinate)
      /\ f.state = "whole" /\ good = Content(f)
  BY DEF FilesOK, File
<1> HIDE DEF f
<1>2. f.tree # NULL
  BY <1>1, NoTree DEF FileRecord
<1>3. /\ d.coordinate = f.coordinate /\ d.settings = f.settings
      /\ d.files = (IF partial THEN NULL ELSE f.tree)
      /\ d.data_files = (IF partial THEN f.tree ELSE NULL)
      /\ d \in Database
  BY <1>1 DEF Loaded, Database, FileRecord
<1> HIDE DEF d
<1>4. Legal(d)
  BY <1>1, <1>2, <1>3 DEF Legal, Count
<1>5. Content(d) = good
  BY <1>1, <1>3 DEF Content
<1>6. ~partial => Dumped(d) = f
  <2>1. f = [state |-> "whole", coordinate |-> f.coordinate, settings |-> f.settings,
             tree |-> f.tree]
    BY <1>1 DEF FileRecord
  <2> QED BY <1>2, <1>3, <2>1 DEF Dumped
<1> QED BY <1>2, <1>3, <1>4, <1>5, <1>6 DEF f, d

\* read_base
LEMMA ReadStep ==
  ASSUME IInv, GoodStep, ReadBase
  PROVE  IInv' /\ StoreStep
<1>0. disk' = disk /\ FilesOK /\ FilesOK' /\ good' = good /\ PartialRead(op) \in BOOLEAN
  BY DiskKept DEF ReadBase, IInv, PartialRead
<1>1. CASE \E how : Finish(how)
  BY <1>0, <1>1, EndStep
<1>2. CASE ~ \E how : Finish(how)
  <2> DEFINE d == Loaded(disk[Base], PartialRead(op))
  <2>1. /\ disk[Base].state = "whole" /\ dat' = d /\ pc = "reading"
        /\ pc' = IF op \in {"batch", "interactive"} THEN op ELSE "action"
        /\ op' = op /\ base' = base /\ target' = target /\ saved' = saved
        /\ cancel' = cancel /\ blocked' = blocked /\ slips' = slips
    BY <1>2 DEF ReadBase, session, signals
  <2>2. /\ Legal(d) /\ Content(d) = good
        /\ d.files = NULL => PartialRead(op)
        /\ ~PartialRead(op) => Dumped(d) = disk[Base]
    BY <1>0, <2>1, LoadedIsLegal
  <2> HIDE DEF d
  <2>3. Typed'
    BY <2>1 DEF Typed, IInv, SessionOK
  <2>4. InStep'
    BY <2>1, <2>2 DEF InStep, IInv, SessionOK, PartialRead
  <2>5. MenuIsRight'
    BY <1>0, <2>1, <2>2 DEF MenuIsRight, Same, PartialRead, InStep, IInv, SessionOK
  <2>6. Draft' = Draft
    BY <1>0, <2>1, <2>2 DEF Draft, IInv, SessionOK, InStep
  <2> QED BY <1>0, <2>1, <2>2, <2>3, <2>4, <2>5, <2>6
       DEF IInv, SessionOK, StoreStep, Store!vars
<1> QED BY <1>1, <1>2

\* What follows an operation: the writing, or the end of the process.
LEMMA AfterActionStep ==
  ASSUME IInv, GoodStep, disk' = disk, pc \in {"action", "batch"},
         NEW d, NEW throws, AfterAction(d, throws),
         Legal(d), Content(d) \in Store!Edited(Content(dat)),
         op = "batch" => d.files # NULL
  PROVE  IInv' /\ StoreStep
<1>0. FilesOK /\ FilesOK' /\ good' = good
  BY DiskKept DEF IInv
<1>1. CASE \E how : Finish(how)
  BY <1>0, <1>1, EndStep
<1>2. CASE ~ \E how : Finish(how)
  <2>1. /\ dat' = d /\ pc' = "opening" /\ op' = op /\ base' = base /\ target' = target
        /\ saved' = saved /\ cancel' = cancel /\ blocked' = blocked /\ slips' = slips
    BY <1>2 DEF AfterAction, signals
  <2>2. op \notin {"create", "interactive"}
    BY DEF IInv, SessionOK, InStep
  <2>3. Typed'
    BY <2>1 DEF Typed, IInv, SessionOK
  <2>4. InStep' /\ MenuIsRight'
    BY <2>1, <2>2 DEF InStep, MenuIsRight, IInv, SessionOK
  <2>5. Draft = Content(dat) /\ Draft' = Content(d)
    BY <2>1, <2>2 DEF Draft
  <2>6. Store!Edit
    BY <1>0, <2>5 DEF Store!Edit
  <2> QED BY <1>0, <2>1, <2>3, <2>4, <2>6 DEF IInv, SessionOK, StoreStep, Store!Next
<1> QED BY <1>1, <1>2

\* One operation given on the command line.
LEMMA OneActionStep ==
  ASSUME IInv, GoodStep, NEW c \in Command, OneAction(c)
  PROVE  IInv' /\ StoreStep
<1> DEFINE r == Action(dat, c, EarlyRelease(op))
<1>0. disk' = disk /\ FilesOK /\ Legal(dat) /\ pc = "action" /\ op \notin {"batch", "interactive"}
  BY DEF OneAction, IInv, SessionOK, InStep
<1>1. EarlyRelease(op) \in BOOLEAN
  BY DEF EarlyRelease
<1>2. Legal(r.dat) /\ Content(r.dat) \in Store!Edited(Content(dat))
  BY <1>0, <1>1, ActionResult
<1>3. CASE Cancelled
  <2>1. Finish("Ethread_cancel")
    BY <1>3 DEF OneAction
  <2> QED BY <1>0, <2>1, EndStep
<1>4. CASE ~Cancelled
  <2>1. AfterAction(r.dat, r.throws)
    BY <1>4 DEF OneAction
  <2> HIDE DEF r
  <2> QED BY <1>0, <1>2, <2>1, AfterActionStep
<1> QED BY <1>3, <1>4

\* One line of a batch.
LEMMA BatchLineStep ==
  ASSUME IInv, GoodStep, NEW c \in Command, BatchLine(c)
  PROVE  IInv' /\ StoreStep
<1> DEFINE r == Action(dat, c, EarlyRelease(op))
<1>0. disk' = disk /\ FilesOK /\ Legal(dat) /\ pc = "batch" /\ op = "batch" /\ dat.files # NULL
  BY DEF BatchLine, IInv, SessionOK, InStep
<1>1. EarlyRelease(op) = FALSE
  BY <1>0 DEF EarlyRelease
<1>2. Follows(dat, r.dat)
  BY <1>0, <1>1, ActionResult
<1>3. CASE Cancelled
  <2>1. Finish("Ethread_cancel")
    BY <1>3 DEF BatchLine
  <2> QED BY <1>0, <2>1, EndStep
<1>4. CASE ~Cancelled /\ r.throws # ""
  <2>1. AfterAction(r.dat, r.throws)
    BY <1>4 DEF BatchLine
  <2> HIDE DEF r
  <2> QED BY <1>0, <1>2, <2>1, AfterActionStep DEF Follows
<1>5. CASE ~Cancelled /\ r.throws = ""
  <2>1. /\ dat' = r.dat /\ pc' = pc /\ op' = op /\ base' = base /\ target' = target
        /\ saved' = saved /\ cancel' = cancel /\ blocked' = blocked /\ slips' = slips
    BY <1>5 DEF BatchLine, session, signals
  <2>2. Legal(r.dat) /\ Content(r.dat) \in Store!Edited(Content(dat)) /\ r.dat.files # NULL
    BY <1>0, <1>2 DEF Follows
  <2> HIDE DEF r
  <2>3. FilesOK' /\ good' = good
    BY <1>0, DiskKept
  <2>4. Typed'
    BY <2>1 DEF Typed, IInv, SessionOK
  <2>5. InStep' /\ MenuIsRight'
    BY <1>0, <2>1, <2>2 DEF InStep, MenuIsRight, IInv, SessionOK
  <2>6. Draft = Content(dat) /\ Draft' = Content(r.dat)
    BY <1>0, <2>1 DEF Draft
  <2>7. Store!Edit
    BY <1>0, <2>2, <2>3, <2>6 DEF Store!Edit
  <2> QED BY <2>1, <2>2, <2>3, <2>4, <2>5, <2>7 DEF IInv, SessionOK, StoreStep, Store!Next
<1> QED BY <1>3, <1>4, <1>5

\* The end of a batch.
LEMMA BatchEndStep ==
  ASSUME IInv, GoodStep, BatchEnd
  PROVE  IInv' /\ StoreStep
<1>1. /\ disk' = disk /\ pc = "batch" /\ AfterAction(dat, "") /\ Legal(dat)
      /\ op = "batch" /\ dat.files # NULL
  BY DEF BatchEnd, IInv, SessionOK, InStep
<1>2. Content(dat) \in Store!Edited(Content(dat))
  BY Requests
<1> QED BY <1>1, <1>2, AfterActionStep
-----------------------------------------------------------------------------
(* Writing *)

\* What a file is once truncated.
LEMMA TornRecord ==
  /\ Torn.state = "torn" /\ Torn.coordinate = <<>> /\ Torn.tree = <<>>
  /\ Torn \in FileRecord
<1>1. <<>> \in Seq(Stamp) /\ <<>> \in Seq(ArchiveData)
  OBVIOUS
<1>2. NoFile \in FileRecord /\ NoFile.coordinate = <<>> /\ NoFile.tree = <<>>
  BY <1>1 DEF NoFile, FileRecord
<1> QED BY <1>2 DEF Torn, FileRecord

\* A file that is truncated.
LEMMA DiskTorn ==
  ASSUME FilesOK, target \in File, disk' = [disk EXCEPT ![target] = Torn], GoodStep
  PROVE  /\ FilesOK' /\ good' = good
         /\ target = Base => disk'[Base].state # "whole"
         /\ target # Base => disk'[Base] = disk[Base]
<1>1. /\ Torn \in FileRecord /\ Torn.state = "torn" /\ Len(Torn.coordinate) < ArchiveNumMax
      /\ Torn.tree = Stamps(Torn.coordinate)
  <2>1. <<>> \in Seq(Stamp) /\ <<>> \in Seq(ArchiveData) /\ Stamps(<<>>) = <<>> /\ Len(<<>>) = 0
    BY DEF Stamps
  <2> QED BY <2>1, TornRecord, RoomForArchives
<1>2. /\ disk' \in [File -> FileRecord]
      /\ \A f \in File : disk'[f] = IF f = target THEN Torn ELSE disk[f]
      /\ Base \in File
  BY <1>1 DEF FilesOK, File
<1>3. good' = good
  BY <1>1, <1>2 DEF FilesOK, GoodStep
<1>4. FilesOK'
  BY <1>1, <1>2, <1>3 DEF FilesOK
<1> QED BY <1>1, <1>2, <1>3, <1>4

\* A file that is written to its end.
LEMMA DiskWritten ==
  ASSUME FilesOK, target \in File, disk' = [disk EXCEPT ![target] = Dumped(dat)], GoodStep,
         Legal(dat), dat.files # NULL \/ dat.data_files # NULL
  PROVE  /\ FilesOK' /\ disk'[target] = Dumped(dat)
         /\ target = Base => good' = Content(dat) /\ disk'[Base].state = "whole"
         /\ target # Base => good' = good /\ disk'[Base] = disk[Base]
<1> DEFINE f == Dumped(dat)
<1>1. /\ f \in FileRecord /\ f.state = "whole" /\ Len(f.coordinate) < ArchiveNumMax
      /\ f.tree = Stamps(f.coordinate) /\ Content(f) = Content(dat)
  <2>1. /\ dat.coordinate \in Seq(ArchiveData) /\ dat.settings \in SUBSET Setting
        /\ Len(dat.coordinate) < ArchiveNumMax
    BY LegalParts DEF Legal, Count
  <2>2. Stamps(dat.coordinate) \in Seq(Stamp)
    BY <2>1, StampsType
  <2>3. (IF dat.files # NULL THEN dat.files ELSE dat.data_files) = Stamps(dat.coordinate)
    BY DEF Legal
  <2> QED BY <2>1, <2>2, <2>3 DEF Dumped, FileRecord, Content
<1> HIDE DEF f
<1>2. /\ disk' \in [File -> FileRecord]
      /\ \A g \in File : disk'[g] = IF g = target THEN f ELSE disk[g]
      /\ Base \in File
  BY <1>1 DEF FilesOK, File, f
<1>3. /\ target = Base => good' = Content(dat) /\ disk'[Base].state = "whole"
      /\ target # Base => good' = good /\ disk'[Base] = disk[Base]
  BY <1>1, <1>2 DEF FilesOK, GoodStep
<1>4. FilesOK'
  BY <1>1, <1>2, <1>3 DEF FilesOK
<1> QED BY <1>2, <1>3, <1>4 DEF f

\* write_base up to the truncation of the file.
LEMMA OpenStep ==
  ASSUME IInv, GoodStep, OpenBase
  PROVE  IInv' /\ StoreStep
<1>0. FilesOK /\ Typed /\ Legal(dat) /\ InStep /\ MenuIsRight /\ pc = "opening"
  BY DEF OpenBase, IInv, SessionOK
<1>1. CASE \E how : Finish(how)
  <2>1. disk' = disk
    BY <1>0, <1>1 DEF OpenBase, Finish
  <2> QED BY <1>0, <1>1, <2>1, EndStep
<1>2. CASE pc' # "writing" /\ ~ \E how : Finish(how)
  <2>1. /\ op = "interactive" /\ pc' = "interactive" /\ slips' = slips \cup {"write"}
        /\ blocked' = TRUE /\ dat' = dat /\ op' = op /\ base' = base /\ target' = target
        /\ saved' = saved /\ cancel' = cancel /\ disk' = disk
    BY <1>2, <1>0 DEF OpenBase, session
  <2>2. FilesOK' /\ good' = good
    BY <1>0, <2>1, DiskKept
  <2>3. Typed'
    BY <1>0, <2>1 DEF Typed
  <2>4. InStep' /\ MenuIsRight'
    BY <1>0, <2>1 DEF InStep, MenuIsRight
  <2>5. Draft' = Draft
    BY <1>0, <2>1 DEF Draft
  <2> QED BY <1>0, <2>1, <2>2, <2>3, <2>4, <2>5 DEF IInv, SessionOK, StoreStep, Store!vars
<1>3. CASE pc' = "writing"
  <2>1. /\ disk' = [disk EXCEPT ![target] = Torn]
        /\ blocked' = TRUE /\ dat' = dat /\ op' = op /\ base' = base /\ target' = target
        /\ saved' = saved /\ cancel' = cancel /\ slips' = slips
        /\ dat.files # NULL \/ dat.data_files # NULL
        /\ ~Refused(target)
    BY <1>0, <1>3 DEF OpenBase, Finish, session
  <2>2. /\ FilesOK' /\ good' = good
        /\ target = Base => disk'[Base].state # "whole"
        /\ target # Base => disk'[Base] = disk[Base]
    BY <1>0, <2>1, DiskTorn DEF Typed
  <2>3. Typed'
    BY <1>0, <1>3, <2>1 DEF Typed
  <2>4. InStep' /\ MenuIsRight'
    BY <1>0, <1>3, <2>1 DEF InStep, MenuIsRight
  <2>5. op = "create" => good = Content(dat)
    <3>1. op = "create" => disk[Base] = NoFile /\ dat = NewDatabase
      BY <1>0, <2>1 DEF InStep, Refused, Overwrite, FilesOK
    <3>2. Content(NoFile) = Content(NewDatabase)
      BY DEF Content, NoFile, NewDatabase
    <3> QED BY <1>0, <3>1, <3>2 DEF FilesOK, NoFile
  <2>6. Draft' = Draft
    BY <1>0, <1>3, <2>1, <2>2, <2>5 DEF Draft
  <2>7. StoreStep
    BY <2>2, <2>6 DEF StoreStep, Store!vars, Store!Next, Store!Tear
  <2> QED BY <1>0, <2>1, <2>2, <2>3, <2>4, <2>7 DEF IInv, SessionOK
<1> QED BY <1>1, <1>2, <1>3

\* The dump of the database.
LEMMA WriteStep ==
  ASSUME IInv, GoodStep, WriteBase
  PROVE  IInv' /\ StoreStep
<1>0. /\ FilesOK /\ Typed /\ Legal(dat) /\ InStep /\ MenuIsRight /\ pc = "writing"
      /\ disk' = disk
  BY DEF WriteBase, IInv, SessionOK
<1>1. CASE \E how : Finish(how)
  BY <1>0, <1>1, EndStep
<1>2. CASE ~ \E how : Finish(how)
  <2>1. /\ dat' = dat /\ op' = op /\ base' = base /\ target' = target
        /\ saved' = saved /\ blocked' = blocked /\ cancel' \in {"none", cancel}
    BY <1>0, <1>2 DEF WriteBase, Thrown, session, signals
  <2>2. \/ op = "interactive" /\ pc' \in {"cancelled", "interactive"} /\ "write" \in slips'
           /\ slips' = slips \cup {"write"}
        \/ pc' = "flushing" /\ slips' = slips
    BY <1>0, <1>2 DEF WriteBase, Thrown, session, signals
  <2>3. FilesOK' /\ good' = good
    BY <1>0, DiskKept
  <2>4. Typed'
    BY <1>0, <2>1, <2>2 DEF Typed
  <2>5. InStep' /\ MenuIsRight'
    BY <1>0, <2>1, <2>2 DEF InStep, MenuIsRight
  <2>6. Draft' = Draft
    BY <1>0, <2>1, <2>2 DEF Draft
  <2> QED BY <1>0, <2>1, <2>3, <2>4, <2>5, <2>6 DEF IInv, SessionOK, StoreStep, Store!vars
<1> QED BY <1>1, <1>2

\* The end of write_base.
LEMMA CloseStep ==
  ASSUME IInv, GoodStep, CloseBase
  PROVE  IInv' /\ StoreStep
<1>0. /\ FilesOK /\ Typed /\ Legal(dat) /\ InStep /\ pc = "flushing"
      /\ dat.files # NULL \/ dat.data_files # NULL
  BY DEF CloseBase, IInv, SessionOK, InStep
<1>1. PICK complete \in BOOLEAN, request \in {"none", cancel} : EndWrite(complete, request)
  BY DEF CloseBase
<1>2. /\ FilesOK'
      /\ complete => disk'[target] = Dumped(dat)
      /\ \/ target = Base /\ good' = Content(dat) /\ disk'[Base].state = "whole"
         \/ good' = good /\ disk'[Base] = disk[Base]
  <2>1. CASE complete
    BY <1>0, <1>1, <2>1, DiskWritten DEF EndWrite, Typed
  <2>2. CASE ~complete
    BY <1>0, <1>1, <2>2, DiskKept DEF EndWrite
  <2> QED BY <2>1, <2>2
<1>3. Draft = Content(dat)
  BY <1>0 DEF Draft
<1>4. CASE \E how : Finish(how)
  <2>1. SessionOK' /\ Draft' = good'
    BY <1>4, Ended
  <2>2. StoreStep
    BY <1>2, <1>3, <2>1 DEF StoreStep, Store!Next, Store!Forget, Store!Write
  <2> QED BY <1>2, <2>1, <2>2 DEF IInv
<1>5. CASE ~ \E how : Finish(how)
  <2>1. /\ op = "interactive" /\ dat' = dat /\ op' = op /\ target' = target
        /\ pc' \in {"cancelled", "interactive"} /\ blocked' = FALSE /\ cancel' = "none"
    BY <1>1, <1>5 DEF EndWrite, AfterDump, session
  <2>2. /\ saved' \in BOOLEAN /\ base' \in File /\ slips' \subseteq {"edit", "flush", "write"}
    BY <1>0, <1>1, <1>5 DEF EndWrite, Typed, session, NextBase
  <2>3. pc' = "interactive" => base' = target /\ (complete \/ "flush" \in slips')
    BY <1>0, <1>1, <1>5 DEF EndWrite, session, NextBase
  <2>4. Typed'
    BY <1>0, <2>1, <2>2 DEF Typed
  <2>5. InStep'
    BY <1>0, <2>1 DEF InStep
  <2>6. MenuIsRight'
    BY <1>2, <2>1, <2>3 DEF MenuIsRight, Same, Dumped
  <2>7. Draft' = Content(dat)
    BY <2>1 DEF Draft
  <2>8. StoreStep
    BY <1>2, <1>3, <2>7 DEF StoreStep, Store!Next, Store!Write, Store!vars
  <2> QED BY <1>0, <1>2, <2>1, <2>4, <2>5, <2>6, <2>8 DEF IInv, SessionOK
<1> QED BY <1>4, <1>5
-----------------------------------------------------------------------------
(* The menu, the signals, the kill *)

\* 'A' and 'm': what is thrown before the flag is cleared leaves a trace.
LEMMA MenuAddOrMoveStep ==
  ASSUME IInv, GoodStep, NEW c \in Command, MenuAddOrMove(c)
  PROVE  IInv' /\ StoreStep
<1> DEFINE r == IF c.op = "add" THEN Add(dat, c.num) ELSE Permuted(dat, c.num, c.num2)
<1>0. /\ FilesOK /\ Typed /\ Legal(dat) /\ InStep /\ MenuIsRight
      /\ pc = "interactive" /\ op = "interactive" /\ dat.files # NULL
  BY DEF MenuAddOrMove, IInv, SessionOK, InStep
<1>1. c.num \in Int /\ c.num2 \in Int /\ (c.op = "add" => c.num \in Stamp)
  BY StampsAreDates, RoomForArchives DEF Command, Number
<1>2. Follows(dat, r.dat)
  <2>1. CASE c.op = "add"
    BY <1>0, <1>1, <2>1, AddResult
  <2>2. CASE c.op # "add"
    BY <1>0, <1>1, <2>2, MoveResult
  <2> QED BY <2>1, <2>2
<1>3. /\ dat' = r.dat /\ disk' = disk /\ op' = op /\ base' = base /\ target' = target
      /\ saved' = saved /\ cancel' = cancel /\ blocked' = blocked
      /\ \/ pc' = "edited" /\ slips' = slips
         \/ pc' = "interactive" /\ slips' = slips \cup {"edit"}
         \/ pc' = "interactive" /\ slips' = slips /\ r.dat = dat
  BY <1>0 DEF MenuAddOrMove, Edit, session, signals
<1> HIDE DEF r
<1>4. Legal(r.dat) /\ Content(r.dat) \in Store!Edited(Content(dat)) /\ r.dat.files # NULL
  BY <1>0, <1>2 DEF Follows
<1>5. FilesOK' /\ good' = good
  BY <1>0, <1>3, DiskKept
<1>6. Typed'
  BY <1>0, <1>3 DEF Typed
<1>7. InStep' /\ MenuIsRight'
  BY <1>0, <1>3, <1>4 DEF InStep, MenuIsRight, Same, Dumped
<1>8. Draft = Content(dat) /\ Draft' = Content(r.dat)
  BY <1>0, <1>3 DEF Draft
<1>9. Store!Edit
  BY <1>3, <1>4, <1>5, <1>8 DEF Store!Edit
<1> QED BY <1>3, <1>4, <1>5, <1>6, <1>7, <1>9 DEF IInv, SessionOK, StoreStep, Store!Next

\* 'D', 'b', 'p', 'o' and 'd': the flag is cleared unless nothing was changed.
LEMMA MenuChangeStep ==
  ASSUME IInv, GoodStep, NEW c \in Command, MenuChange(c)
  PROVE  IInv' /\ StoreStep
<1> DEFINE e == [c EXCEPT !.num2 = IF c.num < 0 THEN 0 ELSE c.num]
           r == Action(dat, e, FALSE)
<1>0. /\ FilesOK /\ Typed /\ Legal(dat) /\ InStep /\ MenuIsRight
      /\ pc = "interactive" /\ op = "interactive" /\ dat.files # NULL
      /\ c.op \in {"del", "chbase", "where", "options", "dar"}
  BY DEF MenuChange, IInv, SessionOK, InStep
<1>1. Follows(dat, r.dat) /\ Undone(dat, r)
  BY <1>0, MenuChangeResult
<1>2. /\ dat' = r.dat /\ disk' = disk /\ pc' = pc /\ op' = op /\ base' = base
      /\ target' = target /\ cancel' = cancel /\ blocked' = blocked /\ slips' = slips
      /\ saved' = IF r.throws = "" THEN FALSE ELSE saved
  BY DEF MenuChange, Edit, signals
<1> HIDE DEF r
<1>3. Legal(r.dat) /\ Content(r.dat) \in Store!Edited(Content(dat)) /\ r.dat.files # NULL
  BY <1>0, <1>1 DEF Follows
<1>4. saved' => r.dat = dat /\ saved
  BY <1>1, <1>2 DEF Undone
<1>5. FilesOK' /\ good' = good
  BY <1>0, <1>2, DiskKept
<1>6. Typed'
  BY <1>0, <1>2 DEF Typed
<1>7. InStep' /\ MenuIsRight'
  BY <1>0, <1>2, <1>3, <1>4 DEF InStep, MenuIsRight, Same, Dumped
<1>8. Draft = Content(dat) /\ Draft' = Content(r.dat)
  BY <1>0, <1>2 DEF Draft
<1>9. Store!Edit
  BY <1>2, <1>3, <1>5, <1>8 DEF Store!Edit
<1> QED BY <1>2, <1>3, <1>5, <1>6, <1>7, <1>9 DEF IInv, SessionOK, StoreStep, Store!Next

\* The steps that touch neither the files nor the database in memory.
LEMMA QuietStep ==
  ASSUME IInv, GoodStep,
         \/ MenuEdited \/ MenuCancel \/ \E choice \in {"w", "a"} : MenuSave(choice)
         \/ \E kind \in {"delayed", "now"} : Signal(kind)
  PROVE  IInv' /\ StoreStep
<1>0. FilesOK /\ Typed /\ Legal(dat) /\ InStep /\ MenuIsRight
  BY DEF IInv, SessionOK
<1>1. /\ dat' = dat /\ disk' = disk /\ op' = op /\ base' = base /\ blocked' = blocked
      /\ cancel' \in {cancel, "none", "delayed", "now"}
  BY DEF MenuEdited, MenuCancel, MenuSave, Signal, session, signals
<1>2. \/ /\ pc = "edited" /\ target' = target
         /\ \/ pc' = "cancelled" /\ slips' = slips \cup {"edit"} /\ saved' = saved
            \/ pc' = "interactive" /\ saved' = FALSE /\ slips' = slips
      \/ /\ pc = "interactive" /\ pc' \in {"cancelled", "opening"}
         /\ target' \in {target, base, Other} /\ slips' = slips /\ saved' = saved
      \/ /\ pc' = pc /\ pc \notin {"shell", "cancelled"} /\ target' = target
         /\ slips' = slips /\ saved' = saved
  BY DEF MenuEdited, MenuCancel, MenuSave, TargetOf, Signal, session, signals
<1>3. FilesOK' /\ good' = good
  BY <1>0, <1>1, DiskKept
<1>4. Typed'
  BY <1>0, <1>1, <1>2 DEF Typed, File
<1>5. InStep'
  BY <1>0, <1>1, <1>2 DEF InStep
<1>6. MenuIsRight'
  BY <1>0, <1>1, <1>2 DEF MenuIsRight, Same, Dumped, InStep
<1>7. Draft' = Draft
  BY <1>0, <1>1, <1>2, <1>3 DEF Draft, InStep
<1> QED BY <1>0, <1>1, <1>3, <1>4, <1>5, <1>6, <1>7 DEF IInv, SessionOK, StoreStep, Store!vars

\* The steps that may end the process, and else leave it at the menu.
LEMMA LeaveStep ==
  ASSUME IInv, GoodStep, MenuLeave \/ BatchBadLine \/ Crash
  PROVE  IInv' /\ StoreStep
<1>0. FilesOK /\ Typed /\ Legal(dat) /\ InStep /\ disk' = disk
  BY DEF IInv, SessionOK, MenuLeave, BatchBadLine, Crash
<1>1. CASE \E how : Finish(how)
  BY <1>0, <1>1, EndStep
<1>2. CASE ~ \E how : Finish(how)
  <2>1. /\ pc = "cancelled" /\ ~saved /\ pc' = "interactive"
        /\ dat' = dat /\ op' = op /\ base' = base /\ target' = target /\ saved' = saved
        /\ cancel' = cancel /\ blocked' = blocked /\ slips' = slips
    BY <1>2 DEF MenuLeave, BatchBadLine, Crash, session, signals
  <2>2. FilesOK' /\ good' = good
    BY <1>0, DiskKept
  <2>3. Typed' /\ InStep' /\ MenuIsRight'
    BY <1>0, <2>1 DEF Typed, InStep, MenuIsRight
  <2>4. Draft' = Draft
    BY <1>0, <2>1 DEF Draft
  <2> QED BY <1>0, <2>1, <2>2, <2>3, <2>4 DEF IInv, SessionOK, StoreStep, Store!vars
<1> QED BY <1>1, <1>2

-----------------------------------------------------------------------------
(* The theorems *)

\* A step that changes nothing.
LEMMA Stutter ==
  ASSUME IInv, UNCHANGED <<vars, good>>
  PROVE  IInv' /\ StoreStep
<1>1. /\ disk' = disk /\ dat' = dat /\ pc' = pc /\ op' = op /\ base' = base
      /\ target' = target /\ saved' = saved /\ cancel' = cancel /\ blocked' = blocked
      /\ slips' = slips /\ good' = good
  BY DEF vars, session, signals
<1>2. FilesOK' /\ SessionOK'
  BY <1>1 DEF IInv, FilesOK, SessionOK, Typed, InStep, MenuIsRight, Same, Dumped
<1>3. UNCHANGED Store!vars
  BY <1>1 DEF Store!vars, Draft
<1> QED BY <1>2, <1>3 DEF IInv, StoreStep

\* Every step of a session keeps the invariant, and is one of the file's or none.
LEMMA SessionStep ==
  ASSUME IInv, [MCNext]_<<vars, good>>
  PROVE  IInv' /\ StoreStep
<1>1. CASE MCNext
  <2>1. GoodStep /\ Next
    BY <1>1 DEF MCNext, GoodStep
  <2>2. CASE \E o \in Operation : Start(o)
    BY <2>1, <2>2, StartStep
  <2>3. CASE ReadBase
    BY <2>1, <2>3, ReadStep
  <2>4. CASE \E c \in Command : OneAction(c) \/ BatchLine(c) \/ MenuAddOrMove(c) \/ MenuChange(c)
    BY <2>1, <2>4, OneActionStep, BatchLineStep, MenuAddOrMoveStep, MenuChangeStep
  <2>5. CASE BatchEnd
    BY <2>1, <2>5, BatchEndStep
  <2>6. CASE OpenBase \/ WriteBase \/ CloseBase
    BY <2>1, <2>6, OpenStep, WriteStep, CloseStep
  <2>7. CASE MenuLeave \/ BatchBadLine \/ Crash
    BY <2>1, <2>7, LeaveStep
  <2>8. CASE \/ MenuEdited \/ MenuCancel \/ \E choice \in {"w", "a"} : MenuSave(choice)
             \/ \E kind \in {"delayed", "now"} : Signal(kind)
    BY <2>1, <2>8, QuietStep
  <2> QED BY <2>1, <2>2, <2>3, <2>4, <2>5, <2>6, <2>7, <2>8 DEF Next
<1>2. CASE UNCHANGED <<vars, good>>
  BY <1>2, Stutter
<1> QED BY <1>1, <1>2

\* The invariant holds in every state of every session.
LEMMA SessionInv == MCSpec => []IInv
<1>1. MCInit => IInv
  BY MCInitOK
<1>2. IInv /\ [MCNext]_<<vars, good>> => IInv'
  BY SessionStep
<1> QED BY <1>1, <1>2, PTL DEF MCSpec

\* Whatever the sessions do, the variables keep their types and no database has
\* ARCHIVE_NUM_MAX archives (database::add_archive).
THEOREM SessionTyped == MCSpec => []TypeOK
<1>1. IInv => TypeOK
  BY DEF IInv, FilesOK, FileRecord, SessionOK, Typed, Legal, TypeOK
<1> QED BY <1>1, SessionInv, PTL

\* Header and tree stay together on disk and in memory, no operation of a
\* session meets a database without the tree it works on, and only a failed
\* writing leaves the delayed requests blocked, for any number of archives and
\* of changes (little_main, op_batch, op_interactive, database::dump).
THEOREM SessionsAreWhole == MCSpec => []MemoryIsWhole
<1>1. IInv => HeaderMatchesTree
  BY DEF IInv, FilesOK, HeaderMatchesTree, Stamps
<1>2. IInv => TreeIsThere
  <2>1. SUFFICES ASSUME IInv PROVE TreeIsThere
    OBVIOUS
  <2>2. Legal(dat) /\ InStep
    BY <2>1 DEF IInv, SessionOK
  <2>3. pc \in {"batch", "interactive"} => dat.files # NULL
    BY <2>2 DEF InStep
  <2>4. ASSUME pc = "action", NEW c \in Command, c.op = op, dat.files = NULL
        PROVE  Action(dat, c, TRUE).throws # "SRC_BUG"
    BY <2>2, <2>4, ActionResult DEF InStep
  <2> QED BY <2>3, <2>4 DEF TreeIsThere
<1>3. IInv => BlockedByFailureOnly
  BY DEF IInv, SessionOK, InStep, BlockedByFailureOnly
<1>4. IInv => MemoryIsWhole
  BY <1>1, <1>2, <1>3 DEF MemoryIsWhole
<1> QED BY <1>4, SessionInv, PTL

\* The menu says "Saved" only of what the file holds, unless an exception came
\* in between, for any number of archives and of changes (op_interactive).
THEOREM MenuTellsTheFile == MCSpec => []SavedUnlessSlipped
<1>1. IInv => SavedUnlessSlipped
  BY DEF IInv, SessionOK, InStep, MenuIsRight, SavedUnlessSlipped
<1> QED BY <1>1, SessionInv, PTL

\* The file given with -B goes from one content to what requests make of it, or
\* is torn, whatever is killed, cancelled or refused (DatabaseStore).
THEOREM StoreTheorem == MCSpec => StoreIsImplemented
<1>1. MCInit => Store!Init
  BY MCInitOK
<1>2. IInv /\ [MCNext]_<<vars, good>> => [Store!Next]_Store!vars
  BY SessionStep DEF StoreStep
<1> QED BY <1>1, <1>2, SessionInv, PTL DEF MCSpec, Store!Spec, StoreIsImplemented
=============================================================================
