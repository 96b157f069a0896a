--------------------------- MODULE DatabaseProofs ---------------------------
(***************************************************************************)
(* What every call on a dar_manager database keeps true, for any number of *)
(* archives, files and dates.                                              *)
(*                                                                         *)
(* IInv is the inductive invariant.  RecordsMatchArchives needs NoStray-   *)
(* Record (an archive is added at a number no record uses), the bound on   *)
(* the archives (their numbers are keys of the maps), and the fact that    *)
(* the walk is about an archive the database has.  NoCorruptionReport      *)
(* needs RecordsMatchArchives: what exists below a directory exists in an  *)
(* archive that has the directory too.                                     *)
(*                                                                         *)
(* The first lemmas are on the operations of DataTree: what a lookup may   *)
(* return, and what each update makes of the record a map has of one       *)
(* archive, for every map and every ARCHIVE_NUM_MAX.                       *)
(***************************************************************************)
EXTENDS Database, SequenceTheorems, WellFoundedInduction, TLAPS

Bounded ==
  /\ Count < ArchiveNumMax
  /\ walk # <<>> => archive \in 1..Count

IInv ==
  /\ TypeOK
  /\ Bounded
  /\ NoStrayRecord
  /\ RecordsMatchArchives
  /\ TreeIsSound
  /\ NoCorruptionReport

-----------------------------------------------------------------------------
(* Extrema *)

\* A non-empty set of naturals has a least element.
LEMMA LeastNatural ==
  ASSUME NEW T, T \subseteq Nat, T # {}
  PROVE  \E x \in T : \A y \in T : x <= y
<1>1. PICK x \in T : \A y \in T : ~ (<<y, x>> \in OpToRel(<, Nat))
  BY NatLessThanWellFounded, WFMin
<1>2. \A y \in T : <<y, x>> \in OpToRel(<, Nat) <=> y < x
  BY DEF OpToRel
<1>3. \A y \in T : ~(y < x)
  BY <1>1, <1>2
<1> QED
  BY <1>3

\* Min of a non-empty set, as set_permutation takes archives from its set.
LEMMA MinIsLeast ==
  ASSUME NEW T, T \subseteq Nat, T # {}
  PROVE  Min(T) \in T /\ \A y \in T : Min(T) <= y
BY LeastNatural DEF Min

\* Max of a non-empty set of archive numbers.
LEMMA MaxIsGreatest ==
  ASSUME NEW S, S \subseteq ArchiveNum, S # {}
  PROVE  Max(S) \in S /\ \A y \in S : y <= Max(S)
<1> DEFINE T == {ArchiveNumMax - x : x \in S}
<1>1. T \subseteq Nat
  BY ArchiveNumMaxIsPositive DEF ArchiveNum
<1>2. T # {}
  OBVIOUS
<1> HIDE DEF T
<1>3. PICK t \in T : \A y \in T : t <= y
  BY <1>1, <1>2, LeastNatural
<1> USE DEF T
<1>4. PICK x \in S : t = ArchiveNumMax - x
  BY <1>3
<1>5. \A y \in S : t <= ArchiveNumMax - y
  BY <1>3
<1> HIDE DEF T
<1>6. \A y \in S : x >= y
  BY <1>4, <1>5, ArchiveNumMaxIsPositive DEF ArchiveNum
<1>7. Max(S) \in S /\ \A y \in S : Max(S) >= y
  BY <1>4, <1>6 DEF Max
<1> QED
  BY <1>7, ArchiveNumMaxIsPositive DEF ArchiveNum

\* Entry j is no better a match than entry k for the scans of get_data.
NotBetter(m, j, k) ==
  m[j].date < m[k].date \/ (m[j].date = m[k].date /\ j <= k)
HasBest(m, S) == \E k \in S : \A j \in S : NotBetter(m, j, k)
Dated(m) == \A k \in ArchiveNum : m[k].date \in Nat
Upto(S, b) == {j \in S : j <= b}

\* A best entry remains when an entry of greater number is looked at.
LEMMA BestOfOneMore ==
  ASSUME NEW m, Dated(m), NEW S, S \subseteq ArchiveNum, HasBest(m, S),
         NEW b \in ArchiveNum, \A j \in S : j < b
  PROVE  HasBest(m, S \cup {b})
<1>1. PICK k \in S : \A j \in S : NotBetter(m, j, k)
  BY DEF HasBest
<1>2. /\ m[k].date \in Nat /\ m[b].date \in Nat
      /\ k \in Nat /\ b \in Nat /\ k < b
      /\ \A j \in S : m[j].date \in Nat /\ j \in Nat /\ j < b
  BY ArchiveNumMaxIsPositive DEF Dated, ArchiveNum
<1>3. NotBetter(m, b, b)
  BY <1>2 DEF NotBetter
<1>4. CASE m[b].date < m[k].date
  <2>1. NotBetter(m, b, k)
    BY <1>4 DEF NotBetter
  <2> QED
    BY <1>1, <2>1 DEF HasBest
<1>5. CASE m[k].date <= m[b].date
  <2>1. \A j \in S : NotBetter(m, j, b)
    BY <1>1, <1>2, <1>5 DEF NotBetter
  <2> QED
    BY <2>1, <1>3 DEF HasBest
<1> QED
  BY <1>2, <1>4, <1>5

\* Every non-empty set of entries has a best one, whatever their dates.
LEMMA LatestExists ==
  ASSUME NEW m, Dated(m), NEW S, S \subseteq ArchiveNum, S # {}
  PROVE  HasBest(m, S)
<1> DEFINE Bad == {b \in Nat : Upto(S, b) # {} /\ ~HasBest(m, Upto(S, b))}
<1>0. /\ ArchiveNumMax \in Nat
      /\ \A j \in S : j \in Nat /\ 1 <= j /\ j <= ArchiveNumMax
  BY ArchiveNumMaxIsPositive DEF ArchiveNum
<1>1. Upto(S, ArchiveNumMax) = S
  <2>1. \A j : j \in Upto(S, ArchiveNumMax) <=> j \in S
    BY <1>0 DEF Upto
  <2> QED BY <2>1
<1>2. Bad \subseteq Nat
  OBVIOUS
<1>3. SUFFICES ASSUME Bad # {} PROVE FALSE
  BY <1>0, <1>1
<1>4. PICK b \in Bad : \A c \in Bad : b <= c
  <2> HIDE DEF Bad
  <2> QED BY <1>2, <1>3, LeastNatural
<1>5. b \in Nat /\ b # 0
  <2>1. b \in Nat /\ \E j \in S : j <= b
    BY <1>4 DEF Upto
  <2> QED BY <2>1, <1>0
<1>6. b - 1 \in Nat /\ b - 1 \notin Bad
  <2> HIDE DEF Bad
  <2> QED BY <1>4, <1>5
<1>7. b \in S
  <2> SUFFICES ASSUME b \notin S PROVE FALSE
    OBVIOUS
  <2>0. \A j \in S : j <= b <=> j <= b - 1
    BY <1>0, <1>5
  <2>1. Upto(S, b - 1) = Upto(S, b)
    BY <2>0, Zenon DEF Upto
  <2> QED BY <2>1, <1>4, <1>6
<1>8. Upto(S, b) = Upto(S, b - 1) \cup {b}
  <2>1. \A j \in S : j <= b <=> (j <= b - 1 \/ j = b)
    BY <1>0, <1>5
  <2>2. \A j : j \in Upto(S, b) <=> j \in Upto(S, b - 1) \cup {b}
    BY <2>1, <1>7, Zenon DEF Upto
  <2> QED BY <2>2
<1>9. \A j \in Upto(S, b - 1) : j < b
  BY <1>0, <1>5 DEF Upto
<1>10. b \in ArchiveNum /\ Upto(S, b - 1) \subseteq ArchiveNum
  BY <1>7 DEF Upto
<1>11. CASE Upto(S, b - 1) = {}
  <2>1. NotBetter(m, b, b)
    BY <1>5, <1>10 DEF NotBetter, Dated
  <2>2. HasBest(m, {b})
    BY <2>1 DEF HasBest
  <2> QED BY <1>8, <1>11, <2>2, <1>4
<1>12. CASE Upto(S, b - 1) # {}
  <2>1. HasBest(m, Upto(S, b - 1))
    BY <1>6, <1>12
  <2>2. HasBest(m, Upto(S, b))
    BY <2>1, <1>8, <1>9, <1>10, BestOfOneMore
  <2> QED BY <2>2, <1>4
<1> QED BY <1>11, <1>12

\* The archive a scan retains is the best of those it went through.
LEMMA LatestIsBest ==
  ASSUME NEW m, Dated(m), NEW S, S \subseteq ArchiveNum, S # {}
  PROVE  Latest(m, S) \in S /\ \A j \in S : NotBetter(m, j, Latest(m, S))
<1>1. \E k \in S : \A j \in S : NotBetter(m, j, k)
  BY LatestExists DEF HasBest
<1> QED BY <1>1 DEF Latest, NotBetter

-----------------------------------------------------------------------------
(* Lookups *)

\* The dates and numbers of a well-typed map.
LEMMA StatusMapFacts ==
  ASSUME NEW m \in StatusMap, NEW date
  PROVE  /\ Dated(m)
         /\ \A k \in ArchiveNum : m[k] \in Status \/ m[k] = NotMentioned
         /\ Real(m, date) \subseteq Seen(m, date)
         /\ SavedRecords(m, date) \subseteq Real(m, date)
         /\ Seen(m, date) \subseteq ArchiveNum
<1>1. \A k \in ArchiveNum : m[k] \in Status \/ m[k] = NotMentioned
  BY DEF StatusMap
<1>2. \A k \in ArchiveNum : m[k].date \in Nat
  BY <1>1 DEF Status, NotMentioned
<1> QED
  BY <1>1, <1>2 DEF StatusMap, Dated, Real, Seen, SavedRecords, Mentioned

\* The best entry of all and the best real one are one entry when the former
\* says that the file is gone.
LEMMA GoneIsReal ==
  ASSUME NEW m \in StatusMap, NEW date,
         Real(m, date) # {},
         ~MentionsExistence(m[Latest(m, Seen(m, date))])
  PROVE  Latest(m, Seen(m, date)) = Latest(m, Real(m, date))
<1> DEFINE s == Latest(m, Seen(m, date))
           r == Latest(m, Real(m, date))
<1>1. /\ s \in Seen(m, date) /\ \A j \in Seen(m, date) : NotBetter(m, j, s)
      /\ r \in Real(m, date) /\ \A j \in Real(m, date) : NotBetter(m, j, r)
  BY StatusMapFacts, LatestIsBest
<1>2. s \in Real(m, date)
  BY <1>1 DEF MentionsExistence, Real
<1>3. r \in Seen(m, date)
  BY <1>1, StatusMapFacts
<1>4. NotBetter(m, r, s) /\ NotBetter(m, s, r)
  BY <1>1, <1>2, <1>3
<1>5. s \in ArchiveNum /\ r \in ArchiveNum
  BY <1>1, <1>3, StatusMapFacts
<1>6. m[s].date \in Nat /\ m[r].date \in Nat /\ s \in Nat /\ r \in Nat
  BY <1>5, StatusMapFacts, ArchiveNumMaxIsPositive DEF Dated, ArchiveNum
<1> HIDE DEF s, r
<1>7. s = r
  BY <1>4, <1>6 DEF NotBetter
<1> QED
  BY <1>7 DEF s, r

\* Whatever a map records, at any date and with or without -k, a lookup never
\* meets the contradiction get_data throws SRC_BUG for; what it finds saved is
\* saved, and what it finds at all is in an archive.
LEMMA LookupIsSound ==
  ASSUME NEW m \in StatusMap, NEW date, NEW even \in BOOLEAN
  PROVE  LET found == GetData(m, date, even)
         IN /\ found.lookup # "SRC_BUG"
            /\ found.lookup \in {"found_present", "found_removed", "not_found",
                                 "not_restorable"}
            /\ found.lookup # "not_found" => found.archive \in ArchiveNum
            /\ found.lookup = "not_found" => Seen(m, date) = {}
            /\ found.lookup = "found_present" =>
                 m[found.archive].present = "et_saved"
<1> DEFINE seen         == Seen(m, date)
           real         == Real(m, date)
           records      == SavedRecords(m, date)
           override     == even /\ records # {}
           archiveSeen  == IF seen = {} THEN 0 ELSE Latest(m, seen)
           archiveReal  == IF real = {} THEN 0 ELSE Latest(m, real)
           ar           == IF override THEN Max(records) ELSE archiveReal
           presenceSeen == override \/ (seen # {} /\ MentionsExistence(m[archiveSeen]))
           presenceReal == override \/ (real # {} /\ m[archiveReal].present = "et_saved")
           found        == GetData(m, date, even)
<1>0. 0 \notin ArchiveNum
  BY ArchiveNumMaxIsPositive DEF ArchiveNum
<1>1. /\ records \subseteq real /\ real \subseteq seen /\ seen \subseteq ArchiveNum
      /\ Dated(m)
  BY StatusMapFacts
<1>2. /\ seen # {} => archiveSeen \in ArchiveNum
      /\ real # {} => archiveReal \in ArchiveNum
      /\ override => ar \in ArchiveNum /\ m[ar].present = "et_saved"
  <2>1. seen # {} => archiveSeen \in ArchiveNum
    BY <1>1, LatestIsBest
  <2>2. real # {} => archiveReal \in ArchiveNum
    BY <1>1, LatestIsBest
  <2>3. ASSUME override PROVE ar \in ArchiveNum /\ m[ar].present = "et_saved"
    <3>1. Max(records) \in records
      BY <1>1, <2>3, MaxIsGreatest
    <3> QED
      BY <1>1, <2>3, <3>1 DEF SavedRecords
  <2> QED
    BY <2>1, <2>2, <2>3
<1>3. /\ seen = {} => real = {} /\ ~override
      /\ real = {} => ~override
  BY <1>1
<1>4. ~presenceSeen /\ presenceReal => FALSE
  <2> SUFFICES ASSUME ~presenceSeen, presenceReal PROVE FALSE
    OBVIOUS
  <2>1. ~override /\ real # {} /\ m[archiveReal].present = "et_saved"
    OBVIOUS
  <2>2. seen # {} /\ ~MentionsExistence(m[archiveSeen])
    BY <2>1, <1>3
  <2>3. archiveSeen = archiveReal
    BY <2>1, <2>2, GoneIsReal
  <2> QED
    BY <2>1, <2>2, <2>3 DEF MentionsExistence
<1>5. /\ presenceSeen \in BOOLEAN /\ presenceReal \in BOOLEAN
      /\ archiveSeen = 0 <=> seen = {}
      /\ ar = 0 <=> (real = {} /\ ~override)
  BY <1>0, <1>2, <1>3
<1>6. ~override => ar = archiveReal
  OBVIOUS
<1>7. found =
        CASE ar = 0 /\ archiveSeen = 0 -> [archive |-> 0, lookup |-> "not_found"]
          [] ar # 0 /\ archiveSeen = 0 -> [archive |-> ar, lookup |-> "SRC_BUG"]
          [] archiveSeen # 0 /\ (ar = 0 \/ (presenceSeen /\ ~presenceReal)) ->
               [archive |-> archiveSeen, lookup |-> "not_restorable"]
          [] archiveSeen # 0 /\ ar # 0 /\ ~presenceSeen /\ presenceReal ->
               [archive |-> ar, lookup |-> "SRC_BUG"]
          [] archiveSeen # 0 /\ ar # 0 /\ presenceSeen = presenceReal ->
               [archive |-> ar,
                lookup  |-> IF presenceReal THEN "found_present" ELSE "found_removed"]
  BY DEF GetData
<1>8. presenceReal => ar \in ArchiveNum /\ m[ar].present = "et_saved"
  BY <1>2, <1>6
<1>9. /\ archiveSeen # 0 => archiveSeen \in ArchiveNum
      /\ ar # 0 => ar \in ArchiveNum
      /\ archiveSeen = 0 => ar = 0
      /\ (presenceSeen /\ ~presenceReal) \/ presenceSeen = presenceReal
  BY <1>2, <1>3, <1>4, <1>5, <1>6
<1> HIDE DEF seen, real, records, override, archiveSeen, archiveReal, ar,
             presenceSeen, presenceReal
<1>10. CASE archiveSeen = 0
  <2>1. found = [archive |-> 0, lookup |-> "not_found"]
    BY <1>7, <1>9, <1>10
  <2>2. Seen(m, date) = {}
    BY <1>5, <1>10 DEF seen
  <2> QED BY <2>1, <2>2
<1>11. CASE archiveSeen # 0 /\ (ar = 0 \/ (presenceSeen /\ ~presenceReal))
  <2>1. found = [archive |-> archiveSeen, lookup |-> "not_restorable"]
    BY <1>7, <1>9, <1>11
  <2> QED BY <2>1, <1>9, <1>11
<1>12. CASE archiveSeen # 0 /\ ar # 0 /\ presenceSeen = presenceReal
  <2>1. found = [archive |-> ar,
                 lookup |-> IF presenceReal THEN "found_present" ELSE "found_removed"]
    BY <1>7, <1>9, <1>12
  <2> QED BY <2>1, <1>8, <1>9, <1>12
<1> QED
  BY <1>9, <1>10, <1>11, <1>12

\* get_EA ends as get_data does: it differs by a number nobody uses.
LEMMA LookupOfEA ==
  ASSUME NEW m \in StatusMap, NEW date, NEW even \in BOOLEAN
  PROVE  /\ GetEA(m, date, even).lookup = GetData(m, date, even).lookup
         /\ GetEA(m, date, even).lookup = "found_present" =>
              GetEA(m, date, even) = GetData(m, date, even)
<1> DEFINE found == GetData(m, date, even)
<1>1. \E a, l : found = [archive |-> a, lookup |-> l]
  BY DEF GetData
<1> QED
  BY <1>1 DEF GetEA

-----------------------------------------------------------------------------
(* Updates *)

\* Writing one status keeps the type of a map.
LEMMA SetStatusType ==
  ASSUME NEW m \in StatusMap, NEW k \in ArchiveNum, NEW date \in Nat,
         NEW present \in Etat
  PROVE  SetStatus(m, k, date, present) \in StatusMap
BY DEF SetStatus, StatusMap, Status

\* EmptyMap is a map, and the statuses of existence are not NotMentioned.
LEMMA EmptyMapFacts ==
  /\ EmptyMap \in StatusMap
  /\ \A k \in ArchiveNum : EmptyMap[k] = NotMentioned
  /\ ~MentionsExistence(NotMentioned)
BY DEF EmptyMap, StatusMap, NotMentioned, MentionsExistence

\* The status the scan of finalize ends with.
LEMMA LastScannedType ==
  ASSUME NEW m \in StatusMap, NEW k, NEW ignoreFrom
  PROVE  LastScanned(m, k, ignoreFrom).date \in Nat
<1> DEFINE S == Scanned(m, k, ignoreFrom)
<1>1. S \subseteq ArchiveNum
  BY DEF Scanned, Mentioned, StatusMap
<1>2. S # {} => Max(S) \in ArchiveNum
  BY <1>1, MaxIsGreatest
<1> QED
  BY <1>2, StatusMapFacts DEF LastScanned, Dated, NotMentioned

\* What an update may not do to a map: turn it into something else than a
\* map, or touch what an archive itself says of a file that exists there.
KeepsExistence(m, m2) ==
  /\ m2 \in StatusMap
  /\ \A k \in ArchiveNum : /\ MentionsExistence(m[k]) => m2[k] = m[k]
                           /\ MentionsExistence(m2[k]) => MentionsExistence(m[k])

\* finalize writes the status of one archive only, and never over what that
\* archive itself says.
LEMMA FinalizeDataKeeps ==
  ASSUME NEW m \in StatusMap, NEW ar \in ArchiveNum,
         NEW deletedDate \in Nat, NEW ignoreFrom \in Nat
  PROVE  LET m2 == FinalizeData(m, ar, deletedDate, ignoreFrom)
         IN /\ KeepsExistence(m, m2)
            /\ \A k \in ArchiveNum \ {ar} : m2[k] = m[k]
<1> DEFINE last == LastScanned(m, ar, ignoreFrom)
           absence == IF deletedDate > last.date THEN deletedDate ELSE last.date + 1
           m2 == FinalizeData(m, ar, deletedDate, ignoreFrom)
<1>1. CASE FoundInArchive(m, ar)
  BY <1>1 DEF FinalizeData, KeepsExistence
<1>2. CASE ~FoundInArchive(m, ar) /\ MentionsExistence(last)
  <2>1. m2 = SetStatus(m, ar, absence, "et_absent")
    BY <1>2 DEF FinalizeData
  <2>2. absence \in Nat
    BY LastScannedType
  <2>3. m2 \in StatusMap
    BY <2>1, <2>2, SetStatusType DEF Etat
  <2>4. \A k \in ArchiveNum \ {ar} : m2[k] = m[k]
    BY <2>1 DEF SetStatus, StatusMap
  <2>5. ~MentionsExistence(m[ar]) /\ ~MentionsExistence(m2[ar])
    <3>1. m2[ar].present = "et_absent"
      BY <2>1 DEF SetStatus, StatusMap
    <3> QED
      BY <1>2, <3>1, EmptyMapFacts DEF FoundInArchive, MentionsExistence
  <2> QED
    BY <2>3, <2>4, <2>5 DEF KeepsExistence
<1>3. CASE ~FoundInArchive(m, ar) /\ ~MentionsExistence(last)
  <2>1. m2 = [m EXCEPT ![ar] = NotMentioned]
    BY <1>3 DEF FinalizeData
  <2>2. m2 \in StatusMap
    BY <2>1 DEF StatusMap
  <2>3. m2[ar] = NotMentioned /\ \A k \in ArchiveNum \ {ar} : m2[k] = m[k]
    BY <2>1 DEF StatusMap
  <2>4. ~MentionsExistence(m[ar])
    BY <1>3, EmptyMapFacts DEF FoundInArchive, MentionsExistence
  <2> QED
    BY <2>2, <2>3, <2>4, EmptyMapFacts DEF KeepsExistence
<1> QED
  BY <1>1, <1>2, <1>3

\* The same of the map of EA.
LEMMA FinalizeEAKeeps ==
  ASSUME NEW c \in StatusMap, NEW m \in StatusMap, NEW ar \in ArchiveNum,
         NEW deletedDate \in Nat, NEW ignoreFrom \in Nat
  PROVE  LET c2 == FinalizeEA(c, m, ar, deletedDate, ignoreFrom)
         IN /\ KeepsExistence(c, c2)
            /\ \A k \in ArchiveNum \ {ar} : c2[k] = c[k]
<1> DEFINE lastMtime == LastScanned(m, ar, ignoreFrom).date
           date == IF lastMtime < deletedDate THEN deletedDate ELSE lastMtime
           c2 == FinalizeEA(c, m, ar, deletedDate, ignoreFrom)
           writes == /\ ~FoundInArchive(c, ar)
                     /\ MentionsExistence(LastScanned(c, ar, ignoreFrom))
<1>1. CASE ~writes
  <2>1. c2 = c
    BY <1>1 DEF FinalizeEA
  <2> QED
    BY <2>1 DEF KeepsExistence
<1>2. CASE writes
  <2>1. c2 = SetStatus(c, ar, date, "et_absent")
    BY <1>2 DEF FinalizeEA
  <2>2. date \in Nat
    BY LastScannedType
  <2>3. c2 \in StatusMap
    BY <2>1, <2>2, SetStatusType DEF Etat
  <2>4. \A k \in ArchiveNum \ {ar} : c2[k] = c[k]
    BY <2>1 DEF SetStatus, StatusMap
  <2>5. ~MentionsExistence(c[ar]) /\ ~MentionsExistence(c2[ar])
    <3>1. c2[ar].present = "et_absent"
      BY <2>1 DEF SetStatus, StatusMap
    <3> QED
      BY <1>2, <3>1, EmptyMapFacts DEF FoundInArchive, MentionsExistence
  <2> QED
    BY <2>3, <2>4, <2>5 DEF KeepsExistence
<1> QED
  BY <1>1, <1>2

\* remove_all_from erases one status and may write a removal after it.
LEMMA RemoveFromKeeps ==
  ASSUME NEW m \in StatusMap, NEW ar \in ArchiveNum, NEW lastArchive \in ArchiveNum
  PROVE  LET m2 == RemoveFrom(m, ar, lastArchive)
         IN /\ m2 \in StatusMap
            /\ m2[ar] = NotMentioned
            /\ \A k \in ArchiveNum \ {ar} :
                 /\ MentionsExistence(m[k]) => m2[k] = m[k]
                 /\ MentionsExistence(m2[k]) => MentionsExistence(m[k])
                 /\ k > lastArchive => m2[k] = m[k]
            /\ m = EmptyMap => m2 = EmptyMap
<1> DEFINE handOver == /\ ar < lastArchive
                       /\ Cardinality(Mentioned(m)) > 1
                       /\ m[ar].present = "et_removed"
                       /\ m[ar + 1] = NotMentioned
           handed == SetStatus(m, ar + 1, m[ar].date, "et_removed")
           m2 == RemoveFrom(m, ar, lastArchive)
<1>0. ar \in Nat /\ lastArchive \in Nat /\ lastArchive < ArchiveNumMax
      /\ ArchiveNumMax \in Nat /\ 0 < ar
  BY ArchiveNumMaxIsPositive DEF ArchiveNum
<1>1. CASE ~handOver
  <2>1. m2 = [m EXCEPT ![ar] = NotMentioned]
    BY <1>1 DEF RemoveFrom
  <2>2. m2 \in StatusMap /\ m2[ar] = NotMentioned
    BY <2>1 DEF StatusMap
  <2>3. \A k \in ArchiveNum \ {ar} : m2[k] = m[k]
    BY <2>1 DEF StatusMap
  <2>4. m = EmptyMap => m2 = EmptyMap
    BY <2>1 DEF EmptyMap
  <2> QED
    BY <2>2, <2>3, <2>4
<1>2. CASE handOver
  <2>0. ar + 1 \in ArchiveNum /\ ar + 1 # ar /\ ~(ar + 1 > lastArchive)
    BY <1>0, <1>2 DEF ArchiveNum
  <2>1. m2 = [handed EXCEPT ![ar] = NotMentioned]
    BY <1>2 DEF RemoveFrom
  <2>2. m[ar].date \in Nat
    BY StatusMapFacts DEF Dated
  <2>3. handed \in StatusMap
    BY <2>0, <2>2, SetStatusType DEF Etat
  <2>4. m2 \in StatusMap /\ m2[ar] = NotMentioned
    BY <2>1, <2>3 DEF StatusMap
  <2>5. \A k \in ArchiveNum \ {ar, ar + 1} : m2[k] = m[k]
    BY <2>0, <2>1 DEF StatusMap, SetStatus
  <2>6. m2[ar + 1].present = "et_removed"
    BY <2>0, <2>1 DEF StatusMap, SetStatus
  <2>7. ~MentionsExistence(m[ar + 1]) /\ ~MentionsExistence(m2[ar + 1])
    BY <1>2, <2>6, EmptyMapFacts DEF MentionsExistence
  <2>8. m # EmptyMap
    BY <1>2 DEF EmptyMap, NotMentioned
  <2> QED
    BY <2>0, <2>4, <2>5, <2>7, <2>8
<1> QED
  BY <1>1, <1>2

\* Once the statuses of num are erased, skip_out closes the gap.
LEMMA SkipOutCloses ==
  ASSUME NEW m \in StatusMap, NEW num \in ArchiveNum, m[num] = NotMentioned
  PROVE  LET m2 == SkipOut(m, num)
         IN /\ m2 \in StatusMap
            /\ \A k \in ArchiveNum : k < num => m2[k] = m[k]
            /\ \A k \in ArchiveNum :
                 k >= num => m2[k] = IF k + 1 \in ArchiveNum THEN m[k + 1]
                                     ELSE NotMentioned
            /\ m = EmptyMap => m2 = EmptyMap
<1> DEFINE m2 == SkipOut(m, num)
<1>0. ArchiveNum \subseteq Nat
  BY ArchiveNumMaxIsPositive DEF ArchiveNum
<1>1. \A k \in ArchiveNum : k < num => m2[k] = m[k]
  BY <1>0 DEF SkipOut
<1>2. \A k \in ArchiveNum :
        k >= num => m2[k] = IF k + 1 \in ArchiveNum THEN m[k + 1] ELSE NotMentioned
  <2> SUFFICES ASSUME NEW k \in ArchiveNum, k >= num
               PROVE  m2[k] = IF k + 1 \in ArchiveNum THEN m[k + 1] ELSE NotMentioned
    OBVIOUS
  <2>1. CASE k = num
    BY <1>0, <2>1 DEF SkipOut
  <2>2. CASE k > num
    BY <1>0, <2>2 DEF SkipOut
  <2> QED BY <1>0, <2>1, <2>2
<1>3. \A k \in ArchiveNum : m[k] \in Status \cup {NotMentioned}
  BY DEF StatusMap
<1>4. \A k \in ArchiveNum : m2[k] \in Status \cup {NotMentioned}
  BY <1>0, <1>1, <1>2, <1>3
<1>5. DOMAIN m2 = ArchiveNum /\ m2 = [k \in ArchiveNum |-> m2[k]]
  BY DEF SkipOut
<1>6. m2 \in StatusMap
  BY <1>4, <1>5 DEF StatusMap
<1>7. ASSUME m = EmptyMap PROVE m2 = EmptyMap
  <2>1. \A k \in ArchiveNum : m[k] = NotMentioned
    BY <1>7, EmptyMapFacts
  <2>2. \A k \in ArchiveNum : m2[k] = NotMentioned
    <3> HIDE DEF m2
    <3> QED BY <1>0, <1>1, <1>2, <2>1
  <2> QED BY <2>2, <1>5 DEF EmptyMap
<1> QED
  BY <1>1, <1>2, <1>6, <1>7

\* Moving an archive from src to dst and moving it back from dst to src are
\* inverse renumberings, and neither leaves the numbers in use.
LEMMA PermutationInverse ==
  ASSUME NEW n \in Nat, NEW src \in 1..n, NEW dst \in 1..n, NEW x \in Nat
  PROVE  /\ Permutation(src, dst, Permutation(dst, src, x)) = x
         /\ x \in 1..n => Permutation(src, dst, x) \in 1..n
         /\ x \notin 1..n => Permutation(src, dst, x) = x
<1>1. CASE src < dst
  BY <1>1 DEF Permutation
<1>2. CASE dst < src
  BY <1>2 DEF Permutation
<1>3. CASE src = dst
  BY <1>3 DEF Permutation
<1> QED
  BY <1>1, <1>2, <1>3

\* apply_permutation gives entry k the number Permutation(src, dst, k).
LEMMA ApplyPermutationMoves ==
  ASSUME NEW m \in StatusMap, NEW n \in 0..(ArchiveNumMax - 1),
         NEW src \in 1..n, NEW dst \in 1..n
  PROVE  LET m2 == ApplyPermutation(m, src, dst)
         IN /\ m2 \in StatusMap
            /\ \A x \in ArchiveNum : m2[x] = m[Permutation(dst, src, x)]
            /\ m = EmptyMap => m2 = EmptyMap
<1>1. ArchiveNumMax \in Nat /\ n \in Nat /\ n < ArchiveNumMax
  BY ArchiveNumMaxIsPositive
<1>2. \A x \in ArchiveNum : Permutation(dst, src, x) \in ArchiveNum
  <2> SUFFICES ASSUME NEW x \in ArchiveNum
               PROVE  Permutation(dst, src, x) \in ArchiveNum
    OBVIOUS
  <2>1. x \in Nat /\ 1 <= x /\ x < ArchiveNumMax
    BY <1>1 DEF ArchiveNum
  <2>2. /\ x \in 1..n => Permutation(dst, src, x) \in 1..n
        /\ x \notin 1..n => Permutation(dst, src, x) = x
    BY <1>1, <2>1, PermutationInverse
  <2>3. 1..n \subseteq ArchiveNum
    BY <1>1 DEF ArchiveNum
  <2> QED
    BY <2>2, <2>3
<1>3. \A x \in ArchiveNum : m[Permutation(dst, src, x)] \in Status \cup {NotMentioned}
  BY <1>2 DEF StatusMap
<1> QED
  BY <1>2, <1>3 DEF ApplyPermutation, StatusMap, EmptyMap

-----------------------------------------------------------------------------
(* Numbers and archives *)

\* The numbers of the archives are keys of the maps.
LEMMA CountFacts ==
  ASSUME TypeOK, Bounded
  PROVE  /\ Count \in Nat
         /\ ArchiveNumMax \in Nat
         /\ 1..Count \subseteq ArchiveNum
         /\ ArchiveNum \subseteq Nat \ {0}
         /\ \A k \in 1..Count : coordinate[k] \in Archive
<1>1. coordinate \in Seq(Archive)
  BY DEF TypeOK
<1>2. Count \in Nat /\ \A k \in 1..Count : coordinate[k] \in Archive
  BY <1>1 DEF Count
<1> QED
  BY <1>2, ArchiveNumMaxIsPositive DEF Bounded, ArchiveNum

\* What the archives a user may add are made of.
LEMMA ArchiveFacts ==
  ASSUME NEW a \in Archive
  PROVE  /\ a.root \in Nat
         /\ \A n \in Node : a.entry[n] \in Entry
         /\ \A n \in Node : a.entry[n] = NoEntry \/ Parent[n] = Root
                            \/ IsDirectory(a.entry[Parent[n]])
BY ArchivesAreWellFormed DEF ArchiveType, IsDirectory

\* Adding an archive writes nothing but the status of its own number, which
\* says that the file exists when the archive holds it, and only then.
LEMMA AddDataWrites ==
  ASSUME NEW m \in StatusMap, NEW e \in Entry, NEW k \in ArchiveNum,
         m[k] = NotMentioned
  PROVE  /\ AddData(m, e, k) \in StatusMap
         /\ \A j \in ArchiveNum \ {k} : AddData(m, e, k)[j] = m[j]
         /\ MentionsExistence(AddData(m, e, k)[k]) <=> e.kind = "inode"
         /\ e.kind = "inode" =>
              AddData(m, e, k)[k] = AddData(EmptyMap, e, k)[k]
         /\ ~IsAdded(e) => AddData(m, e, k) = m
<1> DEFINE present == IF e.saved = "s_not_saved" THEN "et_present" ELSE "et_saved"
           date == LaterOf(e.mtime, e.ctime)
<1>1. CASE e.kind = "inode"
  <2>1. e.mtime \in Nat /\ e.ctime \in Nat
    BY <1>1 DEF Entry, NoEntry
  <2>2. date \in Nat /\ present \in Etat
    BY <2>1 DEF LaterOf, Etat
  <2>3. /\ AddData(m, e, k) = SetStatus(m, k, date, present)
        /\ AddData(EmptyMap, e, k) = SetStatus(EmptyMap, k, date, present)
    BY <1>1, Zenon DEF AddData
  <2> HIDE DEF date
  <2>4. SetStatus(m, k, date, present) \in StatusMap
    BY <2>2, SetStatusType
  <2>5. /\ \A j \in ArchiveNum \ {k} : SetStatus(m, k, date, present)[j] = m[j]
        /\ SetStatus(m, k, date, present)[k] = [date |-> date, present |-> present]
        /\ SetStatus(EmptyMap, k, date, present)[k] = [date |-> date, present |-> present]
    BY EmptyMapFacts DEF SetStatus, StatusMap
  <2>6. MentionsExistence([date |-> date, present |-> present])
    BY DEF MentionsExistence
  <2> QED
    BY <1>1, <2>3, <2>4, <2>5, <2>6 DEF IsAdded
<1>2. CASE e.kind # "inode" /\ IsAdded(e) /\ Known(GetData(m, 0, FALSE))
  <2>1. e.kind = "detruit" /\ e.date # 0 /\ e.date \in Nat
    BY <1>2 DEF Entry, NoEntry, IsAdded
  <2>2. AddData(m, e, k) = SetStatus(m, k, e.date, "et_removed")
    BY <1>2, <2>1, Zenon DEF AddData
  <2>3. SetStatus(m, k, e.date, "et_removed") \in StatusMap
    BY <2>1, SetStatusType DEF Etat
  <2>4. /\ \A j \in ArchiveNum \ {k} : SetStatus(m, k, e.date, "et_removed")[j] = m[j]
        /\ ~MentionsExistence(SetStatus(m, k, e.date, "et_removed")[k])
    BY DEF SetStatus, StatusMap, MentionsExistence
  <2> QED
    BY <1>2, <2>2, <2>3, <2>4
<1>3. CASE e.kind # "inode" /\ ~(IsAdded(e) /\ Known(GetData(m, 0, FALSE)))
  <2>1. AddData(m, e, k) = m
    BY <1>3, Zenon DEF AddData, IsAdded
  <2> QED
    BY <1>3, <2>1, EmptyMapFacts
<1> QED
  BY <1>1, <1>2, <1>3

\* The entry of an archive has EA when it is an inode with EA of its own.
EntryHasEA(e) == e.kind = "inode" /\ e.ea \in {"ea_partial", "ea_fake", "ea_full"}

\* The same of the map of EA.
LEMMA AddEAWrites ==
  ASSUME NEW c \in StatusMap, NEW e \in Entry, NEW k \in ArchiveNum,
         c[k] = NotMentioned
  PROVE  /\ AddEA(c, e, k) \in StatusMap
         /\ \A j \in ArchiveNum \ {k} : AddEA(c, e, k)[j] = c[j]
         /\ MentionsExistence(AddEA(c, e, k)[k]) <=> EntryHasEA(e)
         /\ EntryHasEA(e) => AddEA(c, e, k)[k] = AddEA(EmptyMap, e, k)[k]
         /\ ~IsAdded(e) => AddEA(c, e, k) = c
<1> DEFINE present == IF e.ea = "ea_partial" THEN "et_present" ELSE "et_saved"
           gone == \/ e.kind = "inode" /\ e.ea = "ea_removed"
                   \/ e.kind = "detruit" /\ e.date # 0
           date == IF e.kind = "inode" THEN e.ctime ELSE e.date
<1>1. CASE EntryHasEA(e)
  <2>1. e.ctime \in Nat /\ e.kind = "inode"
    BY <1>1 DEF Entry, NoEntry, EntryHasEA
  <2>2. /\ AddEA(c, e, k) = SetStatus(c, k, e.ctime, present)
        /\ AddEA(EmptyMap, e, k) = SetStatus(EmptyMap, k, e.ctime, present)
    <3>1. CASE e.ea = "ea_partial"
      BY <2>1, <3>1, Zenon DEF AddEA
    <3>2. CASE e.ea \in {"ea_fake", "ea_full"}
      <4>1. e.ea # "ea_partial" /\ e.ea # "ea_removed"
        BY <3>2
      <4> QED
        BY <2>1, <3>2, <4>1, Zenon DEF AddEA
    <3> QED
      BY <1>1, <3>1, <3>2 DEF EntryHasEA
  <2>3. present \in Etat
    BY DEF Etat
  <2>4. SetStatus(c, k, e.ctime, present) \in StatusMap
    BY <2>1, <2>3, SetStatusType
  <2>5. /\ \A j \in ArchiveNum \ {k} : SetStatus(c, k, e.ctime, present)[j] = c[j]
        /\ SetStatus(c, k, e.ctime, present)[k] = [date |-> e.ctime, present |-> present]
        /\ SetStatus(EmptyMap, k, e.ctime, present)[k]
             = [date |-> e.ctime, present |-> present]
    BY EmptyMapFacts DEF SetStatus, StatusMap
  <2>6. MentionsExistence([date |-> e.ctime, present |-> present])
    BY DEF MentionsExistence
  <2> QED
    BY <1>1, <2>1, <2>2, <2>4, <2>5, <2>6 DEF IsAdded
<1>2. CASE gone /\ Known(GetEA(c, 0, FALSE))
  <2>1. date \in Nat /\ ~EntryHasEA(e) /\ IsAdded(e)
    BY <1>2 DEF Entry, NoEntry, EntryHasEA, IsAdded
  <2>2. AddEA(c, e, k) = SetStatus(c, k, date, "et_removed")
    <3>1. CASE e.kind = "inode" /\ e.ea = "ea_removed"
      <4>1. e.ea # "ea_partial" /\ e.ea \notin {"ea_fake", "ea_full"}
            /\ e.kind # "detruit"
        BY <3>1
      <4> QED
        BY <1>2, <3>1, <4>1, Zenon DEF AddEA
    <3>2. CASE e.kind = "detruit" /\ e.date # 0
      <4>1. e.kind # "inode"
        BY <3>2
      <4> QED
        BY <1>2, <3>2, <4>1, Zenon DEF AddEA
    <3> QED
      BY <1>2, <3>1, <3>2
  <2> HIDE DEF date
  <2>3. SetStatus(c, k, date, "et_removed") \in StatusMap
    BY <2>1, SetStatusType DEF Etat
  <2>4. /\ \A j \in ArchiveNum \ {k} : SetStatus(c, k, date, "et_removed")[j] = c[j]
        /\ ~MentionsExistence(SetStatus(c, k, date, "et_removed")[k])
    BY DEF SetStatus, StatusMap, MentionsExistence
  <2> QED
    BY <2>1, <2>2, <2>3, <2>4
<1>3. CASE ~EntryHasEA(e) /\ ~(gone /\ Known(GetEA(c, 0, FALSE)))
  <2>1. AddEA(c, e, k) = c
    BY <1>3, Zenon DEF AddEA, EntryHasEA
  <2> QED
    BY <1>3, <2>1, EmptyMapFacts
<1> QED
  BY <1>1, <1>2, <1>3

-----------------------------------------------------------------------------
(* The tree *)

\* A set that has n and the children of what it has, has all that is below n.
LEMMA UnderIsLeast ==
  ASSUME NEW n \in Node, NEW S, S \subseteq Node, n \in S,
         \A x \in Node : Parent[x] \in S => x \in S
  PROVE  Under(n) \subseteq S
BY DEF Under

\* Under is such a set itself.
LEMMA UnderFacts ==
  ASSUME NEW n \in Node
  PROVE  /\ n \in Under(n) /\ Under(n) \subseteq Node
         /\ \A c \in Node : Parent[c] \in Under(n) => c \in Under(n)
         /\ \A p \in Under(n) : Under(p) \subseteq Under(n)
<1>1. n \in Under(n) /\ Under(n) \subseteq Node
  BY DEF Under
<1>2. \A c \in Node : Parent[c] \in Under(n) => c \in Under(n)
  BY DEF Under
<1>3. \A p \in Under(n) : Under(p) \subseteq Under(n)
  BY <1>1, <1>2, UnderIsLeast
<1> QED
  BY <1>1, <1>2, <1>3

\* An archive that holds something below a directory holds that directory.
LEMMA HeldWithItsDirectory ==
  ASSUME TypeOK, Bounded, NEW n \in Node, NEW c \in Under(n), NEW k, HasData(k, c)
  PROVE  HasData(k, n)
<1> SUFFICES ASSUME ~HasData(k, n) PROVE FALSE
  OBVIOUS
<1> DEFINE S == {x \in Node : ~HasData(k, x)}
<1>1. k \in 1..Count /\ coordinate[k] \in Archive
  BY CountFacts DEF HasData
<1>2. ASSUME NEW x \in Node, Parent[x] \in S PROVE x \in S
  <2> SUFFICES ASSUME HasData(k, x) PROVE FALSE
    OBVIOUS
  <2>1. coordinate[k].entry[x].kind = "inode"
    BY DEF HasData
  <2>2. coordinate[k].entry[x] # NoEntry
    BY <2>1 DEF NoEntry
  <2>3. Parent[x] # Root
    BY <1>2, RootIsNotANode
  <2>4. IsDirectory(coordinate[k].entry[Parent[x]])
    BY <1>1, <2>2, <2>3, ArchiveFacts
  <2>5. HasData(k, Parent[x])
    BY <1>1, <2>4 DEF HasData, IsDirectory
  <2> QED
    BY <1>2, <2>5
<1>3. Under(n) \subseteq S
  <2>1. S \subseteq Node /\ n \in S
    OBVIOUS
  <2> HIDE DEF S
  <2> QED
    BY <1>2, <2>1, UnderIsLeast
<1> QED
  BY <1>3

-----------------------------------------------------------------------------
(* The calls *)

\* What a step that renumbers nothing has to check of the maps.
LEMMA MapsKept ==
  ASSUME IInv, coordinate' = coordinate,
         \A n \in Node : /\ KeepsExistence(last_mod[n], last_mod'[n])
                         /\ KeepsExistence(last_change[n], last_change'[n])
                         /\ \A k \in ArchiveNum : k > Count =>
                              /\ last_mod'[n][k] = last_mod[n][k]
                              /\ last_change'[n][k] = last_change[n][k]
  PROVE  NoStrayRecord' /\ RecordsMatchArchives'
<1> USE DEF IInv
<1>1. NoStrayRecord'
  BY DEF NoStrayRecord, Count
<1>2. \A n \in Node, k \in ArchiveNum : (HasData(k, n)' <=> HasData(k, n))
                                     /\ (HasEA(k, n)' <=> HasEA(k, n))
  BY DEF HasData, HasEA, Count
<1>3. RecordsMatchArchives'
  <2> SUFFICES ASSUME NEW n \in Node, NEW k \in ArchiveNum
               PROVE  /\ MentionsExistence(last_mod'[n][k]) <=> HasData(k, n)
                      /\ MentionsExistence(last_change'[n][k]) <=> HasEA(k, n)
                      /\ HasData(k, n) =>
                           last_mod'[n][k] = AddData(EmptyMap, coordinate[k].entry[n], k)[k]
                      /\ HasEA(k, n) =>
                           last_change'[n][k] = AddEA(EmptyMap, coordinate[k].entry[n], k)[k]
    BY <1>2 DEF RecordsMatchArchives
  <2>1. /\ MentionsExistence(last_mod[n][k]) <=> HasData(k, n)
        /\ MentionsExistence(last_change[n][k]) <=> HasEA(k, n)
        /\ HasData(k, n) =>
             last_mod[n][k] = AddData(EmptyMap, coordinate[k].entry[n], k)[k]
        /\ HasEA(k, n) =>
             last_change[n][k] = AddEA(EmptyMap, coordinate[k].entry[n], k)[k]
    BY DEF RecordsMatchArchives
  <2>2. /\ MentionsExistence(last_mod[n][k]) => last_mod'[n][k] = last_mod[n][k]
        /\ MentionsExistence(last_mod'[n][k]) => MentionsExistence(last_mod[n][k])
        /\ MentionsExistence(last_change[n][k]) => last_change'[n][k] = last_change[n][k]
        /\ MentionsExistence(last_change'[n][k]) => MentionsExistence(last_change[n][k])
    BY DEF KeepsExistence
  <2> QED
    BY <2>1, <2>2
<1> QED
  BY <1>1, <1>3

\* A call that is refused changes nothing but the exception it throws.
LEMMA RefusedStep ==
  ASSUME IInv, UNCHANGED <<coordinate, tree, dirs, maps, walkVars>>, result' = "Erange"
  PROVE  IInv'
<1> USE DEF IInv, maps, walkVars
<1>1. TypeOK'
  BY DEF TypeOK
<1>2. Bounded'
  BY DEF Bounded, Count
<1>3. NoStrayRecord'
  BY DEF NoStrayRecord, Count
<1>4. RecordsMatchArchives'
  BY DEF RecordsMatchArchives, HasData, HasEA, Count
<1>5. TreeIsSound'
  BY DEF TreeIsSound
<1>6. NoCorruptionReport'
  BY DEF NoCorruptionReport
<1> QED
  BY <1>1, <1>2, <1>3, <1>4, <1>5, <1>6

\* add_archive: the new archive takes the first free number, and only its own
\* record is written.
LEMMA AddArchiveStep ==
  ASSUME IInv, NEW a \in Archive, AddArchive(a)
  PROVE  IInv'
<1> DEFINE number == Count + 1
<1>0. CASE number >= ArchiveNumMax
  <2>1. UNCHANGED <<coordinate, tree, dirs, maps, walkVars>> /\ result' = "Erange"
    BY <1>0 DEF AddArchive
  <2> QED
    BY <2>1, RefusedStep
<1> SUFFICES ASSUME ~(number >= ArchiveNumMax) PROVE IInv'
  BY <1>0
<1>1. /\ walk = <<>>
      /\ coordinate' = Append(coordinate, a)
      /\ tree' = tree \cup {n \in Node : IsAdded(a.entry[n])}
      /\ dirs' = dirs \cup {n \in Node : IsDirectory(a.entry[n])}
      /\ last_mod' = [n \in Node |-> AddData(last_mod[n], a.entry[n], number)]
      /\ last_change' = [n \in Node |-> AddEA(last_change[n], a.entry[n], number)]
      /\ todo' = IF number > 1 THEN {number} ELSE {}
      /\ ignoring' = FALSE
      /\ result' = "ok"
      /\ archive' = archive /\ walk' = walk
  BY DEF AddArchive, Idle
<1>2. /\ TypeOK /\ Bounded /\ NoStrayRecord /\ RecordsMatchArchives
      /\ TreeIsSound /\ NoCorruptionReport
  BY DEF IInv
<1>3. /\ Count \in Nat /\ number \in ArchiveNum /\ 1..Count \subseteq ArchiveNum
      /\ ArchiveNum \subseteq Nat \ {0} /\ ArchiveNumMax \in Nat
      /\ coordinate \in Seq(Archive)
  BY <1>2, CountFacts DEF ArchiveNum, TypeOK
<1>4. /\ Count' = number
      /\ coordinate' \in Seq(Archive)
      /\ coordinate'[number] = a
      /\ \A k \in 1..Count : coordinate'[k] = coordinate[k]
  BY <1>1, <1>3 DEF Count
<1>5. \A n \in Node : /\ last_mod[n] \in StatusMap /\ last_change[n] \in StatusMap
                      /\ last_mod[n][number] = NotMentioned
                      /\ last_change[n][number] = NotMentioned
                      /\ a.entry[n] \in Entry
  BY <1>2, <1>3, ArchiveFacts DEF TypeOK, NoStrayRecord
<1>6. \A n \in Node :
        LET e == a.entry[n]
            m2 == AddData(last_mod[n], e, number)
        IN /\ m2 \in StatusMap
           /\ \A j \in ArchiveNum \ {number} : m2[j] = last_mod[n][j]
           /\ MentionsExistence(m2[number]) <=> e.kind = "inode"
           /\ e.kind = "inode" => m2[number] = AddData(EmptyMap, e, number)[number]
           /\ ~IsAdded(e) => m2 = last_mod[n]
  BY <1>3, <1>5, AddDataWrites
<1>7. \A n \in Node :
        LET e == a.entry[n]
            c2 == AddEA(last_change[n], e, number)
        IN /\ c2 \in StatusMap
           /\ \A j \in ArchiveNum \ {number} : c2[j] = last_change[n][j]
           /\ MentionsExistence(c2[number]) <=> EntryHasEA(e)
           /\ EntryHasEA(e) => c2[number] = AddEA(EmptyMap, e, number)[number]
           /\ ~IsAdded(e) => c2 = last_change[n]
  BY <1>3, <1>5, AddEAWrites
<1>8. \A n \in Node : /\ last_mod'[n] = AddData(last_mod[n], a.entry[n], number)
                      /\ last_change'[n] = AddEA(last_change[n], a.entry[n], number)
  BY <1>1
<1>9. TypeOK'
  <2>1. last_mod' \in [Node -> StatusMap] /\ last_change' \in [Node -> StatusMap]
    BY <1>1, <1>6, <1>7
  <2>2. todo' \subseteq Nat \ {0}
    BY <1>1, <1>3
  <2>3. tree' \subseteq Node /\ dirs' \subseteq Node
    BY <1>1, <1>2 DEF TypeOK
  <2> QED
    BY <1>1, <1>2, <1>4, <2>1, <2>2, <2>3 DEF TypeOK
<1>10. Bounded'
  BY <1>1, <1>3, <1>4 DEF Bounded
<1>11. NoStrayRecord'
  <2> SUFFICES ASSUME NEW n \in Node, NEW k \in ArchiveNum, k > Count'
               PROVE  last_mod'[n][k] = NotMentioned /\ last_change'[n][k] = NotMentioned
    BY DEF NoStrayRecord
  <2>1. k \in ArchiveNum \ {number} /\ k > Count
    BY <1>3, <1>4
  <2>2. last_mod'[n][k] = last_mod[n][k] /\ last_change'[n][k] = last_change[n][k]
    BY <2>1, <1>6, <1>7, <1>8
  <2> QED
    BY <1>2, <2>1, <2>2 DEF NoStrayRecord
<1>12. RecordsMatchArchives'
  <2> SUFFICES ASSUME NEW n \in Node, NEW k \in ArchiveNum
               PROVE  /\ MentionsExistence(last_mod'[n][k]) <=> HasData(k, n)'
                      /\ MentionsExistence(last_change'[n][k]) <=> HasEA(k, n)'
                      /\ HasData(k, n)' =>
                           last_mod'[n][k] = AddData(EmptyMap, coordinate'[k].entry[n], k)[k]
                      /\ HasEA(k, n)' =>
                           last_change'[n][k] = AddEA(EmptyMap, coordinate'[k].entry[n], k)[k]
    BY DEF RecordsMatchArchives
  <2>1. CASE k = number
    <3>1. HasData(k, n)' <=> a.entry[n].kind = "inode"
      BY <1>3, <1>4, <2>1 DEF HasData
    <3>2. HasEA(k, n)' <=> EntryHasEA(a.entry[n])
      BY <1>4, <2>1, <3>1 DEF HasEA, EntryHasEA
    <3> QED
      BY <1>4, <1>6, <1>7, <1>8, <2>1, <3>1, <3>2
  <2>2. CASE k # number
    <3>1. HasData(k, n)' <=> HasData(k, n)
      BY <1>3, <1>4, <2>2 DEF HasData
    <3>2. HasEA(k, n)' <=> HasEA(k, n)
      BY <1>4, <3>1, <1>3, <2>2 DEF HasEA, HasData
    <3>3. HasData(k, n) => coordinate'[k] = coordinate[k]
      BY <1>4 DEF HasData
    <3>4. HasEA(k, n) => HasData(k, n)
      BY DEF HasEA
    <3>5. last_mod'[n][k] = last_mod[n][k] /\ last_change'[n][k] = last_change[n][k]
      BY <2>2, <1>6, <1>7, <1>8
    <3> QED
      BY <1>2, <3>1, <3>2, <3>3, <3>4, <3>5 DEF RecordsMatchArchives
  <2> QED
    BY <2>1, <2>2
<1>13. TreeIsSound'
  <2>1. ASSUME NEW n \in tree'
        PROVE  Parent[n] \in {Root} \cup (dirs' \cap tree')
    <3>1. CASE n \in tree
      BY <1>1, <1>2, <3>1 DEF TreeIsSound
    <3>2. CASE n \in Node /\ IsAdded(a.entry[n]) /\ Parent[n] # Root
      <4>1. a.entry[n] # NoEntry
        BY <3>2 DEF IsAdded, NoEntry
      <4>2. IsDirectory(a.entry[Parent[n]])
        BY <3>2, <4>1, ArchiveFacts
      <4>3. Parent[n] \in Node
        BY <3>2, ParentIsADirectory DEF Dir
      <4>4. IsAdded(a.entry[Parent[n]])
        BY <4>2 DEF IsDirectory, IsAdded
      <4> QED
        BY <1>1, <4>2, <4>3, <4>4
    <3> QED
      BY <1>1, <2>1, <3>1, <3>2
  <2>2. ASSUME NEW n \in Node \ tree'
        PROVE  last_mod'[n] = EmptyMap /\ last_change'[n] = EmptyMap
    <3>1. n \notin tree /\ ~IsAdded(a.entry[n])
      BY <1>1, <2>2
    <3> QED
      BY <1>2, <1>6, <1>7, <1>8, <2>2, <3>1 DEF TreeIsSound
  <2> QED
    BY <2>1, <2>2 DEF TreeIsSound
<1>14. NoCorruptionReport'
  BY <1>1 DEF NoCorruptionReport
<1> QED
  BY <1>9, <1>10, <1>11, <1>12, <1>13, <1>14 DEF IInv

\* What RecordsMatchArchives and NoStrayRecord say of one archive number.
RecordMatches(n, k) ==
  /\ MentionsExistence(last_mod[n][k]) <=> HasData(k, n)
  /\ MentionsExistence(last_change[n][k]) <=> HasEA(k, n)
  /\ HasData(k, n) =>
       last_mod[n][k] = AddData(EmptyMap, coordinate[k].entry[n], k)[k]
  /\ HasEA(k, n) =>
       last_change[n][k] = AddEA(EmptyMap, coordinate[k].entry[n], k)[k]

\* The record an archive leaves does not depend on the number it has.
LEMMA RecordOfAnyNumber ==
  ASSUME NEW e \in Entry, NEW j \in ArchiveNum, NEW k \in ArchiveNum
  PROVE  /\ e.kind = "inode" => AddData(EmptyMap, e, j)[j] = AddData(EmptyMap, e, k)[k]
         /\ EntryHasEA(e) => AddEA(EmptyMap, e, j)[j] = AddEA(EmptyMap, e, k)[k]
<1>1. ASSUME e.kind = "inode"
      PROVE  AddData(EmptyMap, e, j)[j] = AddData(EmptyMap, e, k)[k]
  <2> DEFINE st == [date |-> LaterOf(e.mtime, e.ctime),
                    present |-> IF e.saved = "s_not_saved" THEN "et_present"
                                ELSE "et_saved"]
  <2>1. ASSUME NEW i \in ArchiveNum PROVE AddData(EmptyMap, e, i)[i] = st
    <3>1. AddData(EmptyMap, e, i) = SetStatus(EmptyMap, i, st.date, st.present)
      <4>1. AddData(EmptyMap, e, i) =
              SetStatus(EmptyMap, i, LaterOf(e.mtime, e.ctime),
                        IF e.saved = "s_not_saved" THEN "et_present" ELSE "et_saved")
        BY <1>1, Zenon DEF AddData
      <4> QED BY <4>1
    <3> QED
      BY <3>1, EmptyMapFacts DEF SetStatus, StatusMap
  <2> QED
    BY <2>1
<1>2. ASSUME EntryHasEA(e)
      PROVE  AddEA(EmptyMap, e, j)[j] = AddEA(EmptyMap, e, k)[k]
  <2> DEFINE present == IF e.ea = "ea_partial" THEN "et_present" ELSE "et_saved"
  <2>1. ASSUME NEW i \in ArchiveNum
        PROVE  AddEA(EmptyMap, e, i)[i] = [date |-> e.ctime, present |-> present]
    <3>1. AddEA(EmptyMap, e, i) = SetStatus(EmptyMap, i, e.ctime, present)
      <4>1. CASE e.ea = "ea_partial"
        BY <1>2, <4>1, Zenon DEF AddEA, EntryHasEA
      <4>2. CASE e.ea \in {"ea_fake", "ea_full"}
        <5>1. e.ea # "ea_partial" /\ e.kind = "inode"
          BY <1>2, <4>2 DEF EntryHasEA
        <5> QED
          BY <4>2, <5>1, Zenon DEF AddEA
      <4> QED
        BY <1>2, <4>1, <4>2 DEF EntryHasEA
    <3> QED
      BY <3>1, EmptyMapFacts DEF SetStatus, StatusMap
  <2> QED
    BY <2>1
<1> QED
  BY <1>1, <1>2

\* A record and the archive it is about take the same new number.
LEMMA RecordRenumbered ==
  ASSUME IInv, NEW n \in Node, NEW j \in ArchiveNum, NEW k \in ArchiveNum,
         k \in 1..Count' <=> j \in 1..Count,
         k \in 1..Count' => coordinate'[k] = coordinate[j],
         MentionsExistence(last_mod[n][j]) => last_mod'[n][k] = last_mod[n][j],
         MentionsExistence(last_mod'[n][k]) => MentionsExistence(last_mod[n][j]),
         MentionsExistence(last_change[n][j]) => last_change'[n][k] = last_change[n][j],
         MentionsExistence(last_change'[n][k]) => MentionsExistence(last_change[n][j])
  PROVE  RecordMatches(n, k)'
<1>1. RecordMatches(n, j)
  BY DEF IInv, RecordsMatchArchives, RecordMatches
<1>2. (HasData(k, n)' <=> HasData(j, n)) /\ (HasEA(k, n)' <=> HasEA(j, n))
  BY DEF HasData, HasEA
<1>3. ASSUME HasData(j, n)
      PROVE  /\ coordinate'[k].entry[n] \in Entry
             /\ coordinate'[k].entry[n] = coordinate[j].entry[n]
  <2>1. coordinate'[k] = coordinate[j] /\ coordinate[j] \in Archive
    BY <1>3, CountFacts DEF IInv, HasData
  <2> QED
    BY <2>1, ArchiveFacts
<1>4. ASSUME HasData(j, n)
      PROVE  last_mod'[n][k] = AddData(EmptyMap, coordinate'[k].entry[n], k)[k]
  <2>1. last_mod'[n][k] = AddData(EmptyMap, coordinate[j].entry[n], j)[j]
    BY <1>1, <1>4 DEF RecordMatches
  <2>2. coordinate'[k].entry[n].kind = "inode"
    BY <1>3, <1>4 DEF HasData
  <2> QED
    BY <1>3, <1>4, <2>1, <2>2, RecordOfAnyNumber
<1>5. ASSUME HasEA(j, n)
      PROVE  last_change'[n][k] = AddEA(EmptyMap, coordinate'[k].entry[n], k)[k]
  <2>0. HasData(j, n)
    BY <1>5 DEF HasEA
  <2>1. last_change'[n][k] = AddEA(EmptyMap, coordinate[j].entry[n], j)[j]
    BY <1>1, <1>5 DEF RecordMatches
  <2>2. EntryHasEA(coordinate'[k].entry[n])
    BY <1>3, <2>0, <1>5 DEF HasEA, HasData, EntryHasEA
  <2> QED
    BY <1>3, <2>0, <2>1, <2>2, RecordOfAnyNumber
<1> QED
  BY <1>1, <1>2, <1>4, <1>5 DEF RecordMatches

\* coordinate.erase: the archives above k come down by one.
LEMMA EraseFacts ==
  ASSUME NEW S, NEW s \in Seq(S), NEW k \in 1..Len(s)
  PROVE  /\ RemoveAt(s, k) \in Seq(S)
         /\ Len(RemoveAt(s, k)) = Len(s) - 1
         /\ \A i \in 1..(Len(s) - 1) :
              RemoveAt(s, k)[i] = IF i < k THEN s[i] ELSE s[i + 1]
<1> DEFINE front == SubSeq(s, 1, k - 1)
           back == SubSeq(s, k + 1, Len(s))
<1>1. /\ front \in Seq(S) /\ Len(front) = k - 1
      /\ \A i \in 1..(k - 1) : front[i] = s[i]
  BY SubSeqProperties
<1>2. /\ back \in Seq(S) /\ Len(back) = Len(s) - k
      /\ \A i \in 1..(Len(s) - k) : back[i] = s[k + i]
  BY SubSeqProperties
<1>3. RemoveAt(s, k) = front \o back
  BY DEF RemoveAt
<1> HIDE DEF front, back
<1>4. /\ front \o back \in Seq(S)
      /\ Len(front \o back) = Len(s) - 1
  <2>1. /\ front \o back \in Seq(S)
        /\ Len(front \o back) = Len(front) + Len(back)
    <3>1. front \in Seq(S) /\ back \in Seq(S)
      BY <1>1, <1>2
    <3> QED BY <3>1, ConcatProperties
  <2>2. Len(front) + Len(back) = Len(s) - 1
    <3>1. Len(s) \in Nat /\ k \in Nat
      OBVIOUS
    <3>2. Len(front) = k - 1 /\ Len(back) = Len(s) - k
      BY <1>1, <1>2
    <3> QED BY <3>1, <3>2
  <2> QED BY <2>1, <2>2
<1>5. ASSUME NEW i \in 1..(Len(s) - 1)
      PROVE  (front \o back)[i] = IF i < k THEN s[i] ELSE s[i + 1]
  <2>1. CASE i < k
    <3>1. (front \o back)[i] = front[i]
      BY <1>1, <1>2, <2>1, ConcatProperties
    <3>2. i \in 1..(k - 1)
      BY <2>1
    <3> QED BY <1>1, <2>1, <3>1, <3>2
  <2>2. CASE i >= k
    <3>1. (front \o back)[i] = back[i - (k - 1)]
      BY <1>1, <1>2, <2>2, ConcatProperties
    <3>2. i - (k - 1) \in 1..(Len(s) - k) /\ k + (i - (k - 1)) = i + 1
      BY <2>2
    <3>3. back[i - (k - 1)] = s[k + (i - (k - 1))]
      BY <1>2, <3>2
    <3>4. ~(i < k)
      BY <2>2
    <3> QED BY <3>1, <3>2, <3>3, <3>4
  <2>3. i < k \/ i >= k
    OBVIOUS
  <2> QED BY <2>1, <2>2, <2>3
<1> QED
  BY <1>3, <1>4, <1>5

\* set_permutation's erase and insert put at x the archive that
\* data_tree_permutation says comes there.
LEMMA MoveFacts ==
  ASSUME NEW S, NEW s \in Seq(S), NEW src \in 1..Len(s), NEW dst \in 1..Len(s)
  PROVE  LET t == InsertAt(RemoveAt(s, src), dst, s[src])
         IN /\ t \in Seq(S)
            /\ Len(t) = Len(s)
            /\ \A x \in 1..Len(s) : t[x] = s[Permutation(dst, src, x)]
<1> DEFINE r == RemoveAt(s, src)
           front == SubSeq(r, 1, dst - 1)
           back == SubSeq(r, dst, Len(r))
           t == InsertAt(r, dst, s[src])
<1>1. /\ r \in Seq(S) /\ Len(r) = Len(s) - 1
      /\ \A i \in 1..(Len(s) - 1) : r[i] = IF i < src THEN s[i] ELSE s[i + 1]
  BY EraseFacts
<1> HIDE DEF r
<1>2. /\ front \in Seq(S) /\ Len(front) = dst - 1
      /\ \A i \in 1..(dst - 1) : front[i] = r[i]
  BY <1>1, SubSeqProperties
<1>3. /\ back \in Seq(S) /\ Len(back) = Len(s) - dst
      /\ \A i \in 1..(Len(s) - dst) : back[i] = r[dst + i - 1]
  BY <1>1, SubSeqProperties
<1>4. t = front \o <<s[src]>> \o back
  BY DEF InsertAt
<1> HIDE DEF front, back, t
<1>5. /\ t \in Seq(S) /\ Len(t) = Len(s)
      /\ \A i \in 1..(dst - 1) : t[i] = front[i]
      /\ t[dst] = s[src]
      /\ \A i \in (dst + 1)..Len(s) : t[i] = back[i - dst]
  <2> DEFINE u == front \o <<s[src]>>
  <2>1. /\ u \in Seq(S) /\ Len(u) = dst /\ u[dst] = s[src]
        /\ \A i \in 1..(dst - 1) : u[i] = front[i]
    BY <1>2
  <2> HIDE DEF u
  <2>2. t = u \o back
    BY <1>4 DEF u
  <2>3. u \o back \in Seq(S) /\ Len(u \o back) = Len(s)
    BY <1>3, <2>1, ConcatProperties
  <2>4. \A i \in 1..dst : (u \o back)[i] = u[i]
    BY <1>3, <2>1, ConcatProperties
  <2>5. \A i \in (dst + 1)..Len(s) : (u \o back)[i] = back[i - dst]
    BY <1>3, <2>1, ConcatProperties
  <2> QED
    BY <2>1, <2>2, <2>3, <2>4, <2>5
<1>6. ASSUME NEW x \in 1..Len(s) PROVE t[x] = s[Permutation(dst, src, x)]
  <2>1. CASE x < dst
    <3>1. t[x] = IF x < src THEN s[x] ELSE s[x + 1]
      BY <1>1, <1>2, <1>5, <2>1
    <3>2. Permutation(dst, src, x) = IF x < src THEN x ELSE x + 1
      BY <2>1 DEF Permutation
    <3> QED BY <3>1, <3>2
  <2>2. CASE x = dst
    BY <1>5, <2>2 DEF Permutation
  <2>3. CASE x > dst
    <3>0. x \in (dst + 1)..Len(s)
      BY <2>3
    <3>1. x - dst \in 1..(Len(s) - dst) /\ dst + (x - dst) - 1 = x - 1
      BY <2>3
    <3>2. t[x] = r[x - 1]
      <4>1. t[x] = back[x - dst]
        BY <1>5, <3>0
      <4>2. back[x - dst] = r[dst + (x - dst) - 1]
        BY <1>3, <3>1
      <4> QED BY <3>1, <4>1, <4>2
    <3>3. t[x] = IF x - 1 < src THEN s[x - 1] ELSE s[x]
      BY <1>1, <2>3, <3>2
    <3>4. Permutation(dst, src, x) = IF x - 1 < src THEN x - 1 ELSE x
      BY <2>3 DEF Permutation
    <3> QED BY <3>3, <3>4
  <2> QED BY <2>1, <2>2, <2>3
<1> QED
  BY <1>5, <1>6 DEF t, r

\* remove_archive: the records of the archives above k come down with them.
LEMMA RemoveArchiveStep ==
  ASSUME IInv, NEW num \in Number, NEW revert \in BOOLEAN, RemoveArchive(num, revert)
  PROVE  IInv'
<1> DEFINE k == RealArchiveNum(num, revert)
           mod == [n \in Node |-> RemoveFrom(last_mod[n], k, Count)]
           ea  == [n \in Node |-> RemoveFrom(last_change[n], k, Count)]
           gone == Emptied(mod, ea)
<1>0. CASE k = 0 \/ k > Count
  <2>1. UNCHANGED <<coordinate, tree, dirs, maps, walkVars>> /\ result' = "Erange"
    BY <1>0 DEF RemoveArchive
  <2> QED
    BY <2>1, RefusedStep
<1> SUFFICES ASSUME ~(k = 0 \/ k > Count) PROVE IInv'
  BY <1>0
<1>1. /\ walk = <<>>
      /\ coordinate' = RemoveAt(coordinate, k)
      /\ tree' = tree \ gone
      /\ dirs' = dirs \ gone
      /\ last_mod' = [n \in Node |-> SkipOut(mod[n], k)]
      /\ last_change' = [n \in Node |-> SkipOut(ea[n], k)]
      /\ result' = "ok"
      /\ UNCHANGED walkVars
  BY DEF RemoveArchive, Idle
<1>2. /\ TypeOK /\ Bounded /\ NoStrayRecord /\ RecordsMatchArchives
      /\ TreeIsSound /\ NoCorruptionReport
  BY DEF IInv
<1>3. /\ Count \in Nat /\ 1..Count \subseteq ArchiveNum /\ Count < ArchiveNumMax
      /\ ArchiveNum \subseteq Nat \ {0} /\ ArchiveNumMax \in Nat
      /\ coordinate \in Seq(Archive)
  BY <1>2, CountFacts DEF TypeOK, Bounded
<1>4. k \in 1..Count
  BY <1>3 DEF RealArchiveNum, Number
<1>5. /\ Count' = Count - 1
      /\ coordinate' \in Seq(Archive)
      /\ \A i \in 1..(Count - 1) :
           coordinate'[i] = IF i < k THEN coordinate[i] ELSE coordinate[i + 1]
  BY <1>1, <1>3, <1>4, EraseFacts DEF Count
<1> HIDE DEF k
<1>6. k \in ArchiveNum /\ Count \in ArchiveNum
  BY <1>3, <1>4
<1>7. \A n \in Node :
        /\ mod[n] \in StatusMap /\ ea[n] \in StatusMap
        /\ mod[n][k] = NotMentioned /\ ea[n][k] = NotMentioned
        /\ \A j \in ArchiveNum \ {k} :
             /\ MentionsExistence(last_mod[n][j]) => mod[n][j] = last_mod[n][j]
             /\ MentionsExistence(mod[n][j]) => MentionsExistence(last_mod[n][j])
             /\ j > Count => mod[n][j] = last_mod[n][j]
             /\ MentionsExistence(last_change[n][j]) => ea[n][j] = last_change[n][j]
             /\ MentionsExistence(ea[n][j]) => MentionsExistence(last_change[n][j])
             /\ j > Count => ea[n][j] = last_change[n][j]
        /\ last_mod[n] = EmptyMap => mod[n] = EmptyMap
        /\ last_change[n] = EmptyMap => ea[n] = EmptyMap
  <2> SUFFICES ASSUME NEW n \in Node
               PROVE  LET m2 == RemoveFrom(last_mod[n], k, Count)
                          c2 == RemoveFrom(last_change[n], k, Count)
                      IN /\ m2 \in StatusMap /\ c2 \in StatusMap
                         /\ m2[k] = NotMentioned /\ c2[k] = NotMentioned
                         /\ \A j \in ArchiveNum \ {k} :
                              /\ MentionsExistence(last_mod[n][j]) => m2[j] = last_mod[n][j]
                              /\ MentionsExistence(m2[j]) => MentionsExistence(last_mod[n][j])
                              /\ j > Count => m2[j] = last_mod[n][j]
                              /\ MentionsExistence(last_change[n][j]) => c2[j] = last_change[n][j]
                              /\ MentionsExistence(c2[j]) => MentionsExistence(last_change[n][j])
                              /\ j > Count => c2[j] = last_change[n][j]
                         /\ last_mod[n] = EmptyMap => m2 = EmptyMap
                         /\ last_change[n] = EmptyMap => c2 = EmptyMap
    OBVIOUS
  <2>1. last_mod[n] \in StatusMap /\ last_change[n] \in StatusMap
    BY <1>2 DEF TypeOK
  <2> DEFINE m2 == RemoveFrom(last_mod[n], k, Count)
             c2 == RemoveFrom(last_change[n], k, Count)
  <2>2. /\ m2 \in StatusMap
        /\ m2[k] = NotMentioned
        /\ \A j \in ArchiveNum \ {k} :
             /\ MentionsExistence(last_mod[n][j]) => m2[j] = last_mod[n][j]
             /\ MentionsExistence(m2[j]) => MentionsExistence(last_mod[n][j])
             /\ j > Count => m2[j] = last_mod[n][j]
        /\ last_mod[n] = EmptyMap => m2 = EmptyMap
    BY <1>6, <2>1, RemoveFromKeeps
  <2>3. /\ c2 \in StatusMap
        /\ c2[k] = NotMentioned
        /\ \A j \in ArchiveNum \ {k} :
             /\ MentionsExistence(last_change[n][j]) => c2[j] = last_change[n][j]
             /\ MentionsExistence(c2[j]) => MentionsExistence(last_change[n][j])
             /\ j > Count => c2[j] = last_change[n][j]
        /\ last_change[n] = EmptyMap => c2 = EmptyMap
    BY <1>6, <2>1, RemoveFromKeeps
  <2> HIDE DEF m2, c2
  <2> QED
    BY <2>2, <2>3 DEF m2, c2
<1> HIDE DEF mod, ea
<1>8. \A n \in Node : last_mod'[n] = SkipOut(mod[n], k)
                      /\ last_change'[n] = SkipOut(ea[n], k)
  BY <1>1
<1>9. \A n \in Node :
        /\ last_mod'[n] \in StatusMap /\ last_change'[n] \in StatusMap
        /\ \A j \in ArchiveNum : j < k =>
             last_mod'[n][j] = mod[n][j] /\ last_change'[n][j] = ea[n][j]
        /\ \A j \in ArchiveNum : j >= k =>
             /\ last_mod'[n][j] = IF j + 1 \in ArchiveNum THEN mod[n][j + 1]
                                  ELSE NotMentioned
             /\ last_change'[n][j] = IF j + 1 \in ArchiveNum THEN ea[n][j + 1]
                                     ELSE NotMentioned
        /\ mod[n] = EmptyMap => last_mod'[n] = EmptyMap
        /\ ea[n] = EmptyMap => last_change'[n] = EmptyMap
  BY <1>6, <1>7, <1>8, SkipOutCloses
<1>10. TypeOK'
  <2>1. last_mod' \in [Node -> StatusMap] /\ last_change' \in [Node -> StatusMap]
    <3>1. /\ last_mod' = [n \in Node |-> last_mod'[n]]
          /\ last_change' = [n \in Node |-> last_change'[n]]
      BY <1>1
    <3> QED BY <1>9, <3>1
  <2> QED
    BY <1>1, <1>2, <1>5, <2>1 DEF TypeOK, walkVars
<1>11. Bounded'
  BY <1>1, <1>3, <1>5 DEF Bounded, walkVars
<1>12. NoStrayRecord'
  <2> SUFFICES ASSUME NEW n \in Node, NEW j \in ArchiveNum, j > Count'
               PROVE  last_mod'[n][j] = NotMentioned /\ last_change'[n][j] = NotMentioned
    BY DEF NoStrayRecord
  <2>1. j >= k /\ j + 1 > Count /\ j + 1 # k /\ j \in Nat
    BY <1>3, <1>4, <1>5
  <2>2. CASE j + 1 \in ArchiveNum
    <3>1. mod[n][j + 1] = last_mod[n][j + 1] /\ ea[n][j + 1] = last_change[n][j + 1]
      BY <1>7, <2>1, <2>2
    <3>2. last_mod[n][j + 1] = NotMentioned /\ last_change[n][j + 1] = NotMentioned
      BY <1>2, <2>1, <2>2 DEF NoStrayRecord
    <3> QED
      BY <1>9, <2>1, <2>2, <3>1, <3>2
  <2>3. CASE j + 1 \notin ArchiveNum
    BY <1>9, <2>1, <2>3
  <2> QED
    BY <2>2, <2>3
<1>13. RecordsMatchArchives'
  <2> SUFFICES ASSUME NEW n \in Node, NEW j \in ArchiveNum
               PROVE  RecordMatches(n, j)'
    BY DEF RecordsMatchArchives, RecordMatches
  <2>1. CASE j < k
    <3>1. j \in 1..Count' <=> j \in 1..Count
      BY <1>3, <1>4, <1>5, <2>1
    <3>2. j \in 1..Count' => coordinate'[j] = coordinate[j]
      BY <1>5, <2>1
    <3>3. j \in ArchiveNum \ {k}
      BY <1>3, <1>4, <2>1
    <3>4. last_mod'[n][j] = mod[n][j] /\ last_change'[n][j] = ea[n][j]
      BY <1>9, <2>1
    <3> QED
      BY <1>7, <3>1, <3>2, <3>3, <3>4, RecordRenumbered
  <2>2. CASE j >= k /\ j + 1 \in ArchiveNum
    <3>1. j \in 1..Count' <=> j + 1 \in 1..Count
      BY <1>3, <1>4, <1>5, <2>2
    <3>2. j \in 1..Count' => coordinate'[j] = coordinate[j + 1]
      BY <1>3, <1>4, <1>5, <2>2
    <3>3. j + 1 \in ArchiveNum \ {k}
      BY <1>3, <1>4, <2>2
    <3>4. last_mod'[n][j] = mod[n][j + 1] /\ last_change'[n][j] = ea[n][j + 1]
      BY <1>9, <2>2
    <3>5. /\ MentionsExistence(last_mod[n][j + 1]) => mod[n][j + 1] = last_mod[n][j + 1]
          /\ MentionsExistence(mod[n][j + 1]) => MentionsExistence(last_mod[n][j + 1])
          /\ MentionsExistence(last_change[n][j + 1]) => ea[n][j + 1] = last_change[n][j + 1]
          /\ MentionsExistence(ea[n][j + 1]) => MentionsExistence(last_change[n][j + 1])
      BY <1>7, <3>3
    <3> QED
      BY <2>2, <3>1, <3>2, <3>4, <3>5, RecordRenumbered
  <2>3. CASE j >= k /\ j + 1 \notin ArchiveNum
    <3>1. j \notin 1..Count'
      BY <1>3, <1>4, <1>5, <2>3 DEF ArchiveNum
    <3>2. last_mod'[n][j] = NotMentioned /\ last_change'[n][j] = NotMentioned
      BY <1>9, <2>3
    <3> QED
      BY <3>1, <3>2, EmptyMapFacts DEF RecordMatches, HasData, HasEA
  <2>4. j < k \/ j >= k
    BY <1>3, <1>4
  <2> QED
    BY <2>1, <2>2, <2>3, <2>4
<1>14. TreeIsSound'
  <2>1. gone = {n \in tree : \A c \in Under(n) : mod[c] = EmptyMap /\ ea[c] = EmptyMap}
    BY DEF Emptied
  <2>2. ASSUME NEW n \in tree' PROVE Parent[n] \in {Root} \cup (dirs' \cap tree')
    <3>1. n \in tree /\ n \notin gone /\ n \in Node
      BY <1>1, <1>2, <2>2 DEF TypeOK
    <3>2. CASE Parent[n] = Root
      BY <3>2
    <3>3. CASE Parent[n] # Root
      <4>1. Parent[n] \in dirs \cap tree /\ Parent[n] \in Node
        BY <1>2, <3>1, <3>3 DEF TreeIsSound, TypeOK
      <4>2. Parent[n] \notin gone
        <5> SUFFICES ASSUME Parent[n] \in gone PROVE n \in gone
          BY <3>1
        <5>1. Under(n) \subseteq Under(Parent[n])
          BY <3>1, <4>1, UnderFacts
        <5>2. \A c \in Under(Parent[n]) : mod[c] = EmptyMap /\ ea[c] = EmptyMap
          BY <2>1
        <5> QED
          BY <2>1, <3>1, <5>1, <5>2
      <4> QED
        BY <1>1, <4>1, <4>2
    <3> QED
      BY <3>2, <3>3
  <2>3. ASSUME NEW n \in Node \ tree'
        PROVE  last_mod'[n] = EmptyMap /\ last_change'[n] = EmptyMap
    <3>1. mod[n] = EmptyMap /\ ea[n] = EmptyMap
      <4>1. CASE n \notin tree
        BY <1>2, <1>7, <4>1 DEF TreeIsSound
      <4>2. CASE n \in gone
        BY <2>1, <4>2, UnderFacts
      <4> QED
        BY <1>1, <4>1, <4>2
    <3> QED
      BY <1>9, <3>1
  <2> QED
    BY <2>2, <2>3 DEF TreeIsSound
<1>15. NoCorruptionReport'
  BY <1>1 DEF NoCorruptionReport
<1> QED
  BY <1>10, <1>11, <1>12, <1>13, <1>14, <1>15 DEF IInv

\* set_permutation: records and archives go through the same renumbering.
LEMMA SetPermutationStep ==
  ASSUME IInv, NEW src \in Number, NEW dst \in Number, SetPermutation(src, dst)
  PROVE  IInv'
<1>0. CASE ~({src, dst} \subseteq 1..Count)
  <2>1. UNCHANGED <<coordinate, tree, dirs, maps, walkVars>> /\ result' = "Erange"
    BY <1>0 DEF SetPermutation
  <2> QED
    BY <2>1, RefusedStep
<1> SUFFICES ASSUME src \in 1..Count, dst \in 1..Count PROVE IInv'
  BY <1>0
<1>1. /\ walk = <<>>
      /\ coordinate' = InsertAt(RemoveAt(coordinate, src), dst, coordinate[src])
      /\ last_mod' = [n \in Node |-> ApplyPermutation(last_mod[n], src, dst)]
      /\ last_change' = [n \in Node |-> ApplyPermutation(last_change[n], src, dst)]
      /\ todo' = IF src < dst THEN {src, dst, dst + 1} ELSE {src + 1, dst, dst + 1}
      /\ ignoring' = TRUE
      /\ result' = "ok"
      /\ UNCHANGED <<tree, dirs, archive, walk>>
  BY DEF SetPermutation, Idle
<1>2. /\ TypeOK /\ Bounded /\ NoStrayRecord /\ RecordsMatchArchives
      /\ TreeIsSound /\ NoCorruptionReport
  BY DEF IInv
<1>3. /\ Count \in Nat /\ 1..Count \subseteq ArchiveNum /\ Count < ArchiveNumMax
      /\ ArchiveNum \subseteq Nat \ {0} /\ ArchiveNumMax \in Nat
      /\ coordinate \in Seq(Archive) /\ Count \in 0..(ArchiveNumMax - 1)
  BY <1>2, CountFacts DEF TypeOK, Bounded
<1>4. /\ coordinate' \in Seq(Archive)
      /\ Count' = Count
      /\ \A x \in 1..Count : coordinate'[x] = coordinate[Permutation(dst, src, x)]
  <2> DEFINE t == InsertAt(RemoveAt(coordinate, src), dst, coordinate[src])
  <2>1. /\ src \in 1..Len(coordinate) /\ dst \in 1..Len(coordinate)
        /\ coordinate \in Seq(Archive)
    BY <1>3 DEF Count
  <2>2. /\ t \in Seq(Archive)
        /\ Len(t) = Len(coordinate)
        /\ \A x \in 1..Len(coordinate) : t[x] = coordinate[Permutation(dst, src, x)]
    BY <2>1, MoveFacts
  <2>3. coordinate' = t
    BY <1>1
  <2> HIDE DEF t
  <2> QED
    BY <2>2, <2>3 DEF Count
<1>5. \A n \in Node :
        /\ last_mod'[n] \in StatusMap
        /\ \A x \in ArchiveNum : last_mod'[n][x] = last_mod[n][Permutation(dst, src, x)]
        /\ last_mod[n] = EmptyMap => last_mod'[n] = EmptyMap
  <2> SUFFICES ASSUME NEW n \in Node
               PROVE  LET m2 == ApplyPermutation(last_mod[n], src, dst)
                      IN /\ m2 \in StatusMap
                         /\ \A x \in ArchiveNum : m2[x] = last_mod[n][Permutation(dst, src, x)]
                         /\ last_mod[n] = EmptyMap => m2 = EmptyMap
    BY <1>1
  <2>1. last_mod[n] \in StatusMap
    BY <1>2 DEF TypeOK
  <2> QED
    BY <1>3, <2>1, ApplyPermutationMoves
<1>6. \A n \in Node :
        /\ last_change'[n] \in StatusMap
        /\ \A x \in ArchiveNum : last_change'[n][x] = last_change[n][Permutation(dst, src, x)]
        /\ last_change[n] = EmptyMap => last_change'[n] = EmptyMap
  <2> SUFFICES ASSUME NEW n \in Node
               PROVE  LET m2 == ApplyPermutation(last_change[n], src, dst)
                      IN /\ m2 \in StatusMap
                         /\ \A x \in ArchiveNum : m2[x] = last_change[n][Permutation(dst, src, x)]
                         /\ last_change[n] = EmptyMap => m2 = EmptyMap
    BY <1>1
  <2>1. last_change[n] \in StatusMap
    BY <1>2 DEF TypeOK
  <2> QED
    BY <1>3, <2>1, ApplyPermutationMoves
<1>7. ASSUME NEW x \in ArchiveNum
      PROVE  /\ x \in 1..Count => Permutation(dst, src, x) \in 1..Count
             /\ x \notin 1..Count => Permutation(dst, src, x) = x
             /\ Permutation(dst, src, x) \in ArchiveNum
  <2>1. x \in Nat
    BY <1>3
  <2>2. /\ x \in 1..Count => Permutation(dst, src, x) \in 1..Count
        /\ x \notin 1..Count => Permutation(dst, src, x) = x
    BY <1>3, <2>1, PermutationInverse
  <2> QED
    BY <1>3, <2>2
<1>8. TypeOK'
  <2>1. last_mod' \in [Node -> StatusMap] /\ last_change' \in [Node -> StatusMap]
    <3>1. /\ last_mod' = [n \in Node |-> last_mod'[n]]
          /\ last_change' = [n \in Node |-> last_change'[n]]
      BY <1>1
    <3> QED BY <1>5, <1>6, <3>1
  <2>2. todo' \subseteq Nat \ {0}
    BY <1>1, <1>3
  <2> QED
    BY <1>1, <1>2, <1>4, <2>1, <2>2 DEF TypeOK
<1>9. Bounded'
  BY <1>1, <1>3, <1>4 DEF Bounded
<1>10. NoStrayRecord'
  <2> SUFFICES ASSUME NEW n \in Node, NEW x \in ArchiveNum, x > Count'
               PROVE  last_mod'[n][x] = NotMentioned /\ last_change'[n][x] = NotMentioned
    BY DEF NoStrayRecord
  <2>1. x > Count /\ Permutation(dst, src, x) = x
    BY <1>3, <1>4, <1>7
  <2> QED
    BY <1>2, <1>5, <1>6, <2>1 DEF NoStrayRecord
<1>11. RecordsMatchArchives'
  <2> SUFFICES ASSUME NEW n \in Node, NEW x \in ArchiveNum
               PROVE  RecordMatches(n, x)'
    BY DEF RecordsMatchArchives, RecordMatches
  <2> DEFINE j == Permutation(dst, src, x)
  <2>1. j \in ArchiveNum
    BY <1>7
  <2>2. x \in 1..Count' <=> j \in 1..Count
    BY <1>4, <1>7
  <2>3. x \in 1..Count' => coordinate'[x] = coordinate[j]
    BY <1>4
  <2>4. last_mod'[n][x] = last_mod[n][j] /\ last_change'[n][x] = last_change[n][j]
    BY <1>5, <1>6
  <2> HIDE DEF j
  <2> QED
    BY <2>1, <2>2, <2>3, <2>4, RecordRenumbered
<1>12. TreeIsSound'
  BY <1>1, <1>2, <1>5, <1>6 DEF TreeIsSound
<1>13. NoCorruptionReport'
  BY <1>1 DEF NoCorruptionReport
<1> QED
  BY <1>8, <1>9, <1>10, <1>11, <1>12, <1>13 DEF IInv

-----------------------------------------------------------------------------
(* The walk *)

\* A step that touches neither an archive nor a record nor the tree.
LEMMA RecordsUntouched ==
  ASSUME IInv, UNCHANGED <<coordinate, tree, dirs, maps>>
  PROVE  NoStrayRecord' /\ RecordsMatchArchives' /\ TreeIsSound'
<1> USE DEF IInv, maps
<1>1. NoStrayRecord'
  BY DEF NoStrayRecord, Count
<1>2. RecordsMatchArchives'
  BY DEF RecordsMatchArchives, HasData, HasEA, Count
<1>3. TreeIsSound'
  BY DEF TreeIsSound
<1> QED
  BY <1>1, <1>2, <1>3

\* Where the walk stands, and the stack after a node was dealt with.
LEMMA WalkFacts ==
  ASSUME TypeOK, Bounded, walk # <<>>
  PROVE  /\ archive \in ArchiveNum /\ archive \in 1..Count
         /\ IgnoreFrom \in Nat
         /\ Top.date \in Nat /\ Top.done \in SUBSET Node
         /\ \A nodes \in SUBSET Node :
              Done(nodes) \in Seq([dir : Dir, done : SUBSET Node, date : Nat])
<1> DEFINE Frame == [dir : Dir, done : SUBSET Node, date : Nat]
<1>1. archive \in 1..Count /\ archive \in ArchiveNum /\ archive \in Nat
  BY CountFacts DEF Bounded
<1>2. IgnoreFrom \in Nat
  BY <1>1 DEF IgnoreFrom
<1>3. walk \in Seq(Frame) /\ Len(walk) \in 1..Len(walk)
  BY DEF TypeOK
<1>4. Top \in Frame
  <2> HIDE DEF Frame
  <2> QED BY <1>3 DEF Top, Last
<1>5. ASSUME NEW nodes \in SUBSET Node PROVE Done(nodes) \in Seq(Frame)
  <2> DEFINE frame == [Top EXCEPT !.done = nodes]
  <2>1. frame \in Frame
    BY <1>4
  <2>2. Done(nodes) = [walk EXCEPT ![Len(walk)] = frame]
    BY DEF Done, Top, Last
  <2> HIDE DEF Frame, frame
  <2> QED
    BY <1>3, <2>1, <2>2, ExceptSeq
<1> QED
  BY <1>1, <1>2, <1>4, <1>5

\* Finalizing a node writes only the status of the archive the walk is about.
LEMMA NewMapsKeep ==
  ASSUME IInv, walk # <<>>, NEW n \in Node
  PROVE  /\ KeepsExistence(last_mod[n], NewData(n))
         /\ KeepsExistence(last_change[n], NewEA(n))
         /\ \A k \in ArchiveNum : k > Count =>
              /\ NewData(n)[k] = last_mod[n][k]
              /\ NewEA(n)[k] = last_change[n][k]
<1>1. /\ archive \in ArchiveNum /\ archive \in 1..Count /\ IgnoreFrom \in Nat
      /\ Top.date \in Nat /\ Count \in Nat
  BY WalkFacts, CountFacts DEF IInv
<1>2. last_mod[n] \in StatusMap /\ last_change[n] \in StatusMap
  BY DEF IInv, TypeOK
<1>3. /\ KeepsExistence(last_mod[n], NewData(n))
      /\ \A k \in ArchiveNum \ {archive} : NewData(n)[k] = last_mod[n][k]
  BY <1>1, <1>2, FinalizeDataKeeps DEF NewData
<1>4. /\ KeepsExistence(last_change[n], NewEA(n))
      /\ \A k \in ArchiveNum \ {archive} : NewEA(n)[k] = last_change[n][k]
  <2> DEFINE c == last_change[n]
             m == last_mod[n]
             date == Top.date
             c2 == FinalizeEA(c, m, archive, date, IgnoreFrom)
  <2>1. /\ c \in StatusMap /\ m \in StatusMap /\ archive \in ArchiveNum
        /\ date \in Nat /\ IgnoreFrom \in Nat
    BY <1>1, <1>2
  <2> HIDE DEF c, m, date
  <2>2. /\ KeepsExistence(c, c2)
        /\ \A k \in ArchiveNum \ {archive} : c2[k] = c[k]
    BY <2>1, FinalizeEAKeeps
  <2> QED
    BY <2>2 DEF NewEA, c, m, date
<1> QED
  BY <1>1, <1>3, <1>4

\* The maps and the tree after a node was finalized.
LEMMA FinalizeMapsStep ==
  ASSUME IInv, walk # <<>>, NEW n \in tree, FinalizeMaps(n),
         UNCHANGED <<coordinate, tree, dirs>>
  PROVE  /\ last_mod' \in [Node -> StatusMap] /\ last_change' \in [Node -> StatusMap]
         /\ NoStrayRecord' /\ RecordsMatchArchives' /\ TreeIsSound'
<1>1. TypeOK /\ TreeIsSound /\ n \in Node
  BY DEF IInv, TypeOK
<1>2. /\ last_mod' = [last_mod EXCEPT ![n] = NewData(n)]
      /\ last_change' = [last_change EXCEPT ![n] = NewEA(n)]
  BY DEF FinalizeMaps
<1>3. NewData(n) \in StatusMap /\ NewEA(n) \in StatusMap
  BY <1>1, NewMapsKeep DEF KeepsExistence
<1>4. last_mod' \in [Node -> StatusMap] /\ last_change' \in [Node -> StatusMap]
  BY <1>1, <1>2, <1>3 DEF TypeOK
<1>5. /\ last_mod'[n] = NewData(n) /\ last_change'[n] = NewEA(n)
      /\ \A c \in Node \ {n} : last_mod'[c] = last_mod[c] /\ last_change'[c] = last_change[c]
  BY <1>1, <1>2 DEF TypeOK
<1>6. \A c \in Node : /\ KeepsExistence(last_mod[c], last_mod'[c])
                      /\ KeepsExistence(last_change[c], last_change'[c])
                      /\ \A k \in ArchiveNum : k > Count =>
                           /\ last_mod'[c][k] = last_mod[c][k]
                           /\ last_change'[c][k] = last_change[c][k]
  <2> SUFFICES ASSUME NEW c \in Node
               PROVE  /\ KeepsExistence(last_mod[c], last_mod'[c])
                      /\ KeepsExistence(last_change[c], last_change'[c])
                      /\ \A k \in ArchiveNum : k > Count =>
                           /\ last_mod'[c][k] = last_mod[c][k]
                           /\ last_change'[c][k] = last_change[c][k]
    OBVIOUS
  <2>1. CASE c = n
    BY <1>1, <1>5, <2>1, NewMapsKeep
  <2>2. CASE c # n
    BY <1>1, <1>5, <2>2 DEF KeepsExistence, TypeOK
  <2> QED
    BY <2>1, <2>2
<1>7. NoStrayRecord' /\ RecordsMatchArchives'
  BY <1>6, MapsKept
<1>8. TreeIsSound'
  BY <1>1, <1>5 DEF TreeIsSound
<1> QED
  BY <1>4, <1>7, <1>8

\* The next archive set_permutation or add_archive finalizes is one the
\* database has, or the call is abandoned.
LEMMA FinalizeArchiveStep ==
  ASSUME IInv, FinalizeArchive
  PROVE  IInv'
<1> DEFINE k == Min(todo)
<1>1. /\ TypeOK /\ Bounded /\ NoCorruptionReport
      /\ UNCHANGED <<coordinate, tree, dirs, maps, ignoring>>
      /\ walk = <<>> /\ todo # {}
  BY DEF IInv, FinalizeArchive
<1>2. NoStrayRecord' /\ RecordsMatchArchives' /\ TreeIsSound'
  BY <1>1, RecordsUntouched
<1>3. k \in Nat \ {0} /\ Count \in Nat
  <2>1. todo \subseteq Nat /\ todo \subseteq Nat \ {0}
    BY <1>1 DEF TypeOK
  <2>2. k \in todo
    BY <1>1, <2>1, MinIsLeast
  <2> QED
    BY <1>1, <2>1, <2>2, CountFacts
<1> HIDE DEF k
<1>4. CASE k > Count
  <2>1. result' = "SRC_BUG" /\ todo' = {} /\ UNCHANGED <<archive, walk>>
    BY <1>4 DEF FinalizeArchive, k
  <2>2. TypeOK'
    BY <1>1, <2>1 DEF TypeOK, maps
  <2>3. Bounded'
    BY <1>1, <2>1 DEF Bounded, Count
  <2> QED
    BY <1>2, <2>1, <2>2, <2>3 DEF IInv, NoCorruptionReport
<1>5. CASE ~(k > Count)
  <2> DEFINE frame == [dir |-> Root, done |-> {}, date |-> coordinate[k].root]
  <2>1. /\ archive' = k
        /\ walk' = <<frame>>
        /\ todo' = todo \ {k}
        /\ UNCHANGED result
    BY <1>5 DEF FinalizeArchive, k
  <2>2. k \in 1..Count
    BY <1>3, <1>5
  <2>3. frame \in [dir : Dir, done : SUBSET Node, date : Nat]
    BY <1>1, <2>2, CountFacts, ArchiveFacts DEF Dir
  <2>4. TypeOK'
    <3>1. walk' \in Seq([dir : Dir, done : SUBSET Node, date : Nat])
      <4> HIDE DEF frame
      <4> QED BY <2>1, <2>3
    <3> QED
      BY <1>1, <1>3, <2>1, <3>1 DEF TypeOK, maps
  <2>5. Bounded'
    BY <1>1, <2>1, <2>2 DEF Bounded, Count
  <2> QED
    BY <1>1, <1>2, <2>1, <2>4, <2>5 DEF IInv, NoCorruptionReport
<1> QED
  BY <1>4, <1>5

\* A file is finalized: its maps are written under the number of the archive the
\* walk is about.
LEMMA FinalizeFileStep ==
  ASSUME IInv, NEW n \in Node, FinalizeFile(n)
  PROVE  IInv'
<1>1. /\ walk # <<>> /\ n \in tree
      /\ FinalizeMaps(n)
      /\ walk' = Done(Top.done \cup {n})
      /\ UNCHANGED <<coordinate, tree, dirs, todo, ignoring, archive, result>>
  BY DEF FinalizeFile, Pending
<1>2. TypeOK /\ Bounded /\ NoCorruptionReport
  BY DEF IInv
<1>3. /\ last_mod' \in [Node -> StatusMap] /\ last_change' \in [Node -> StatusMap]
      /\ NoStrayRecord' /\ RecordsMatchArchives' /\ TreeIsSound'
  BY <1>1, FinalizeMapsStep
<1>4. TypeOK'
  <2>1. Top.done \cup {n} \in SUBSET Node
    BY <1>1, <1>2, WalkFacts
  <2>2. walk' \in Seq([dir : Dir, done : SUBSET Node, date : Nat])
    BY <1>1, <1>2, <2>1, WalkFacts
  <2> QED
    BY <1>1, <1>2, <1>3, <2>2 DEF TypeOK
<1>5. Bounded'
  BY <1>1, <1>2 DEF Bounded, Count
<1> QED
  BY <1>1, <1>2, <1>3, <1>4, <1>5 DEF IInv, NoCorruptionReport

\* The date handed to the children of a directory is one of its records: its
\* lookup never ends in SRC_BUG.
LEMMA FinalizeDirectoryStep ==
  ASSUME IInv, NEW n \in Node, FinalizeDirectory(n)
  PROVE  IInv'
<1> DEFINE found == GetData(NewData(n), 0, FALSE)
           frame == [dir |-> n, done |-> {}, date |-> NewData(n)[found.archive].date]
<1>1. /\ walk # <<>> /\ n \in tree
      /\ found.lookup # "not_found"
      /\ FinalizeMaps(n)
      /\ UNCHANGED <<coordinate, tree, dirs, ignoring, archive>>
  BY DEF FinalizeDirectory, Pending
<1>2. TypeOK /\ Bounded /\ NoCorruptionReport
  BY DEF IInv
<1>3. /\ last_mod' \in [Node -> StatusMap] /\ last_change' \in [Node -> StatusMap]
      /\ NoStrayRecord' /\ RecordsMatchArchives' /\ TreeIsSound'
  BY <1>1, FinalizeMapsStep
<1>4. NewData(n) \in StatusMap
  BY <1>1, NewMapsKeep DEF KeepsExistence
<1>5. found.archive \in ArchiveNum /\ found.lookup # "SRC_BUG"
  BY <1>1, <1>4, LookupIsSound
<1>6. /\ walk' = Append(Done(Top.done \cup {n}), frame)
      /\ UNCHANGED <<result, todo>>
  BY <1>5 DEF FinalizeDirectory
<1>7. TypeOK'
  <2>1. Top.done \cup {n} \in SUBSET Node
    BY <1>1, <1>2, WalkFacts
  <2>2. NewData(n)[found.archive].date \in Nat
    BY <1>4, <1>5, StatusMapFacts DEF Dated
  <2>3. frame \in [dir : Dir, done : SUBSET Node, date : Nat]
    BY <2>2 DEF Dir
  <2>4. Done(Top.done \cup {n}) \in Seq([dir : Dir, done : SUBSET Node, date : Nat])
    BY <1>1, <1>2, <2>1, WalkFacts
  <2>5. walk' \in Seq([dir : Dir, done : SUBSET Node, date : Nat])
    <3> HIDE DEF frame
    <3> QED BY <1>6, <2>3, <2>4, AppendProperties
  <2> QED
    BY <1>1, <1>2, <1>3, <1>6, <2>5 DEF TypeOK
<1>8. Bounded'
  BY <1>1, <1>2 DEF Bounded, Count
<1> QED
  BY <1>2, <1>3, <1>6, <1>7, <1>8 DEF IInv, NoCorruptionReport

\* What is below a directory no archive has any more exists in no archive: it
\* is dropped, and no corruption is reported.
LEMMA NothingExistsBelow ==
  ASSUME IInv, walk # <<>>, NEW n \in tree,
         GetData(NewData(n), 0, FALSE).lookup = "not_found"
  PROVE  \A c \in Under(n), k \in ArchiveNum :
           ~MentionsExistence(last_mod[c][k]) /\ ~MentionsExistence(last_change[c][k])
<1>1. TypeOK /\ Bounded /\ RecordsMatchArchives /\ n \in Node
  BY DEF IInv, TypeOK
<1>2. KeepsExistence(last_mod[n], NewData(n)) /\ NewData(n) \in StatusMap
  BY <1>1, NewMapsKeep DEF KeepsExistence
<1>3. Seen(NewData(n), 0) = {}
  BY <1>2, LookupIsSound
<1>4. \A k \in ArchiveNum : NewData(n)[k] = NotMentioned
  BY <1>2, <1>3 DEF Seen, Mentioned, StatusMap
<1>5. \A k \in ArchiveNum : ~MentionsExistence(last_mod[n][k])
  BY <1>2, <1>4, EmptyMapFacts DEF KeepsExistence
<1> SUFFICES ASSUME NEW c \in Under(n), NEW k \in ArchiveNum
             PROVE  /\ ~MentionsExistence(last_mod[c][k])
                    /\ ~MentionsExistence(last_change[c][k])
  OBVIOUS
<1>6. c \in Node
  BY <1>1, UnderFacts
<1>7. ~HasData(k, n)
  BY <1>1, <1>5 DEF RecordsMatchArchives
<1>8. ~HasData(k, c)
  BY <1>1, <1>7, HeldWithItsDirectory
<1>9. ~HasEA(k, c)
  BY <1>8 DEF HasEA
<1> QED
  BY <1>1, <1>6, <1>8, <1>9 DEF RecordsMatchArchives

\* A directory no archive has any more leaves the tree with all that is below.
LEMMA DropDirectoryStep ==
  ASSUME IInv, NEW n \in Node, DropDirectory(n)
  PROVE  IInv'
<1> DEFINE mod == [last_mod EXCEPT ![n] = NewData(n)]
           ea  == [last_change EXCEPT ![n] = NewEA(n)]
<1>1. /\ walk # <<>> /\ n \in tree
      /\ GetData(NewData(n), 0, FALSE).lookup = "not_found"
      /\ UNCHANGED <<coordinate, ignoring, archive>>
  BY DEF DropDirectory, Pending
<1>2. /\ TypeOK /\ Bounded /\ NoStrayRecord /\ RecordsMatchArchives
      /\ TreeIsSound /\ NoCorruptionReport
  BY DEF IInv
<1>3. /\ KeepsExistence(last_mod[n], NewData(n))
      /\ KeepsExistence(last_change[n], NewEA(n))
      /\ n \in Under(n) /\ Under(n) \subseteq Node
  BY <1>1, NewMapsKeep, UnderFacts
<1>4. \A c \in Under(n), k \in ArchiveNum :
        ~MentionsExistence(last_mod[c][k]) /\ ~MentionsExistence(last_change[c][k])
  BY <1>1, NothingExistsBelow
<1>5. /\ mod \in [Node -> StatusMap] /\ ea \in [Node -> StatusMap]
      /\ mod[n] = NewData(n) /\ ea[n] = NewEA(n)
      /\ \A c \in Node \ {n} : mod[c] = last_mod[c] /\ ea[c] = last_change[c]
  BY <1>2, <1>3 DEF TypeOK, KeepsExistence
<1>6. FixCorruption(mod, ea, n)
  <2> HIDE DEF mod, ea
  <2>1. \A c \in Under(n), k \in ArchiveNum :
          ~MentionsExistence(mod[c][k]) /\ ~MentionsExistence(ea[c][k])
    BY <1>3, <1>4, <1>5 DEF KeepsExistence
  <2>2. \A c \in Node : DOMAIN mod[c] = ArchiveNum /\ DOMAIN ea[c] = ArchiveNum
    BY <1>5 DEF StatusMap
  <2> QED
    BY <1>3, <2>1, <2>2 DEF FixCorruption, OnlyRemovals, Mentioned
<1>7. /\ last_mod' = [c \in Node |-> IF c \in Under(n) THEN EmptyMap ELSE mod[c]]
      /\ last_change' = [c \in Node |-> IF c \in Under(n) THEN EmptyMap ELSE ea[c]]
      /\ tree' = tree \ Under(n)
      /\ dirs' = dirs \ Under(n)
      /\ walk' = Done({})
      /\ UNCHANGED <<todo, result>>
  BY <1>6 DEF DropDirectory
<1> HIDE DEF mod, ea
<1>8. /\ \A c \in Under(n) : last_mod'[c] = EmptyMap /\ last_change'[c] = EmptyMap
      /\ \A c \in Node \ Under(n) : /\ last_mod'[c] = last_mod[c]
                                    /\ last_change'[c] = last_change[c]
  BY <1>3, <1>5, <1>7
<1>9. /\ last_mod' \in [Node -> StatusMap] /\ last_change' \in [Node -> StatusMap]
  BY <1>5, <1>7, EmptyMapFacts
<1>10. NoStrayRecord' /\ RecordsMatchArchives'
  <2> SUFFICES ASSUME NEW c \in Node
               PROVE  /\ KeepsExistence(last_mod[c], last_mod'[c])
                      /\ KeepsExistence(last_change[c], last_change'[c])
                      /\ \A k \in ArchiveNum : k > Count =>
                           /\ last_mod'[c][k] = last_mod[c][k]
                           /\ last_change'[c][k] = last_change[c][k]
    BY <1>1, MapsKept
  <2>1. CASE c \in Under(n)
    BY <1>2, <1>4, <1>8, <2>1, EmptyMapFacts DEF KeepsExistence, NoStrayRecord
  <2>2. CASE c \notin Under(n)
    BY <1>2, <1>8, <2>2 DEF KeepsExistence, TypeOK
  <2> QED
    BY <2>1, <2>2
<1>11. TypeOK'
  <2>1. walk' \in Seq([dir : Dir, done : SUBSET Node, date : Nat])
    BY <1>1, <1>2, <1>7, WalkFacts
  <2> QED
    BY <1>1, <1>2, <1>7, <1>9, <2>1 DEF TypeOK
<1>12. Bounded'
  BY <1>1, <1>2 DEF Bounded, Count
<1>13. TreeIsSound'
  <2>1. ASSUME NEW c \in tree' PROVE Parent[c] \in {Root} \cup (dirs' \cap tree')
    <3>1. c \in tree /\ c \notin Under(n) /\ c \in Node
      BY <1>2, <1>7, <2>1 DEF TypeOK
    <3>2. Parent[c] \notin Under(n)
      BY <3>1, UnderFacts
    <3>3. Parent[c] \in {Root} \cup (dirs \cap tree)
      BY <1>2, <3>1 DEF TreeIsSound
    <3> QED
      BY <1>7, <3>2, <3>3
  <2>2. ASSUME NEW c \in Node \ tree'
        PROVE  last_mod'[c] = EmptyMap /\ last_change'[c] = EmptyMap
    BY <1>2, <1>7, <1>8, <2>2 DEF TreeIsSound
  <2> QED
    BY <2>1, <2>2 DEF TreeIsSound
<1>14. NoCorruptionReport'
  BY <1>2, <1>7 DEF NoCorruptionReport
<1> QED
  BY <1>10, <1>11, <1>12, <1>13, <1>14 DEF IInv

\* The children of a directory are all finalized.
LEMMA FinalizeReturnStep ==
  ASSUME IInv, FinalizeReturn
  PROVE  IInv'
<1>1. /\ TypeOK /\ Bounded /\ NoCorruptionReport
      /\ walk # <<>> /\ walk' = Front(walk)
      /\ UNCHANGED <<coordinate, tree, dirs, maps, todo, ignoring, archive, result>>
  BY DEF IInv, FinalizeReturn
<1>2. NoStrayRecord' /\ RecordsMatchArchives' /\ TreeIsSound'
  BY <1>1, RecordsUntouched DEF maps
<1>3. TypeOK'
  <2> DEFINE Frame == [dir : Dir, done : SUBSET Node, date : Nat]
  <2>1. walk \in Seq(Frame)
    BY <1>1 DEF TypeOK
  <2> HIDE DEF Frame
  <2>2. walk' \in Seq(Frame)
    BY <1>1, <2>1 DEF Front
  <2> USE DEF Frame
  <2> QED
    BY <1>1, <2>2 DEF TypeOK, maps
<1>4. Bounded'
  BY <1>1 DEF Bounded, Count
<1> QED
  BY <1>1, <1>2, <1>3, <1>4 DEF IInv, NoCorruptionReport

-----------------------------------------------------------------------------
(* Theorems *)

\* A new database is empty.
LEMMA IInvInit == Init => IInv
<1> SUFFICES ASSUME Init PROVE IInv
  OBVIOUS
<1>1. /\ coordinate = <<>> /\ tree = {} /\ dirs = {} /\ todo = {} /\ ignoring = FALSE
      /\ archive = 0 /\ walk = <<>> /\ result = "ok"
      /\ last_mod = [n \in Node |-> EmptyMap]
      /\ last_change = [n \in Node |-> EmptyMap]
  BY DEF Init
<1>2. Count = 0 /\ coordinate \in Seq(Archive)
  BY <1>1 DEF Count
<1>3. TypeOK
  <2>1. walk \in Seq([dir : Dir, done : SUBSET Node, date : Nat])
    BY <1>1
  <2>2. last_mod \in [Node -> StatusMap] /\ last_change \in [Node -> StatusMap]
    BY <1>1, EmptyMapFacts
  <2> QED
    BY <1>1, <1>2, <2>1, <2>2 DEF TypeOK
<1>4. Bounded
  BY <1>1, <1>2, ArchiveNumMaxIsPositive DEF Bounded
<1>5. NoStrayRecord
  BY <1>1, EmptyMapFacts DEF NoStrayRecord
<1>6. RecordsMatchArchives
  BY <1>1, <1>2, EmptyMapFacts DEF RecordsMatchArchives, HasData, HasEA
<1>7. TreeIsSound
  BY <1>1 DEF TreeIsSound
<1>8. NoCorruptionReport
  BY <1>1 DEF NoCorruptionReport
<1> QED
  BY <1>3, <1>4, <1>5, <1>6, <1>7, <1>8 DEF IInv

\* Every call, and every step of a walk, keeps the inductive invariant.
LEMMA IInvStep == IInv /\ [Next]_vars => IInv'
<1> SUFFICES ASSUME IInv, [Next]_vars PROVE IInv'
  OBVIOUS
<1>1. ASSUME NEW a \in Archive, AddArchive(a) PROVE IInv'
  BY <1>1, AddArchiveStep
<1>2. ASSUME NEW num \in Number, NEW revert \in BOOLEAN, RemoveArchive(num, revert)
      PROVE  IInv'
  BY <1>2, RemoveArchiveStep
<1>3. ASSUME NEW src \in Number, NEW dst \in Number, SetPermutation(src, dst)
      PROVE  IInv'
  BY <1>3, SetPermutationStep
<1>4. ASSUME FinalizeArchive PROVE IInv'
  BY <1>4, FinalizeArchiveStep
<1>5. ASSUME NEW n \in Node, FinalizeFile(n) PROVE IInv'
  BY <1>5, FinalizeFileStep
<1>6. ASSUME NEW n \in Node, FinalizeDirectory(n) PROVE IInv'
  BY <1>6, FinalizeDirectoryStep
<1>7. ASSUME NEW n \in Node, DropDirectory(n) PROVE IInv'
  BY <1>7, DropDirectoryStep
<1>8. ASSUME FinalizeReturn PROVE IInv'
  BY <1>8, FinalizeReturnStep
<1>9. ASSUME UNCHANGED vars PROVE IInv'
  <2>1. /\ UNCHANGED <<coordinate, tree, dirs, maps>>
        /\ UNCHANGED <<todo, ignoring, archive, walk, result, last_mod, last_change>>
    BY <1>9 DEF vars, maps, walkVars
  <2>2. NoStrayRecord' /\ RecordsMatchArchives' /\ TreeIsSound'
    BY <2>1, RecordsUntouched
  <2> QED
    BY <2>1, <2>2 DEF IInv, TypeOK, Bounded, Count, NoCorruptionReport
<1> QED
  BY <1>1, <1>2, <1>3, <1>4, <1>5, <1>6, <1>7, <1>8, <1>9 DEF Next, Finalize

\* Whatever is added, removed and moved, the inductive invariant holds.
THEOREM Inductive == Spec => []IInv
BY IInvInit, IInvStep, PTL DEF Spec

\* Every variable keeps its type: no archive number leaves its range.
THEOREM TypeCorrect == Spec => []TypeOK
<1>1. IInv => TypeOK
  BY DEF IInv
<1> QED
  BY <1>1, Inductive, PTL

\* The two maps of every node always say "saved" or "present" of exactly the
\* archives that hold the file, with the date these archives give it: the
\* renumbering of coordinate[] and of the maps never drift apart.
THEOREM RecordsFollowArchives == Spec => [](RecordsMatchArchives /\ NoStrayRecord)
<1>1. IInv => RecordsMatchArchives /\ NoStrayRecord
  BY DEF IInv
<1> QED
  BY <1>1, Inductive, PTL

\* A record is left only under the number of an archive that is there, for a
\* file that is in the tree.
THEOREM NothingStrays == Spec => []NoStrayRecord
<1>1. IInv => NoStrayRecord
  BY DEF IInv
<1> QED
  BY <1>1, Inductive, PTL

\* No history of legal calls leaves an orphan in the tree.
THEOREM TreeStaysSound == Spec => []TreeIsSound
<1>1. IInv => TreeIsSound
  BY DEF IInv
<1> QED
  BY <1>1, Inductive, PTL

\* No history of legal calls is reported as a corrupted database.
THEOREM NeverCorrupted == Spec => []NoCorruptionReport
<1>1. IInv => NoCorruptionReport
  BY DEF IInv
<1> QED
  BY <1>1, Inductive, PTL

\* The contradiction get_data and get_EA throw SRC_BUG for is unreachable.
THEOREM LookupsNeverBug == Spec => []NoLookupBug
<1>1. IInv => NoLookupBug
  BY LookupIsSound, LookupOfEA DEF IInv, TypeOK, NoLookupBug
<1> QED
  BY <1>1, Inductive, PTL

\* dar is called for a file's data on an archive that holds them.
THEOREM RestoresFromHolder == Spec => []RestoreFromHolder
<1>1. ASSUME IInv, NEW n \in Node, NEW date \in Date, NEW even \in BOOLEAN,
             GetData(last_mod[n], date, even).lookup = "found_present"
      PROVE  Holds(GetData(last_mod[n], date, even).archive, n)
  <2> DEFINE k == GetData(last_mod[n], date, even).archive
  <2>1. TypeOK /\ Bounded /\ RecordsMatchArchives
    BY <1>1 DEF IInv
  <2>2. last_mod[n] \in StatusMap
    BY <2>1 DEF TypeOK
  <2>3. k \in ArchiveNum /\ last_mod[n][k].present = "et_saved"
    BY <1>1, <2>2, LookupIsSound
  <2> HIDE DEF k
  <2>4. HasData(k, n)
    BY <2>1, <2>3 DEF RecordsMatchArchives, MentionsExistence
  <2>5. last_mod[n][k] = AddData(EmptyMap, coordinate[k].entry[n], k)[k]
    BY <2>1, <2>3, <2>4 DEF RecordsMatchArchives
  <2>6. coordinate[k].entry[n].saved # "s_not_saved"
    <3> DEFINE e == coordinate[k].entry[n]
    <3> SUFFICES ASSUME e.saved = "s_not_saved" PROVE FALSE
      OBVIOUS
    <3>1. e.kind = "inode"
      BY <2>4 DEF HasData
    <3> HIDE DEF e
    <3>2. AddData(EmptyMap, e, k) = SetStatus(EmptyMap, k, LaterOf(e.mtime, e.ctime), "et_present")
      BY <3>1, Zenon DEF AddData
    <3>3. SetStatus(EmptyMap, k, LaterOf(e.mtime, e.ctime), "et_present")[k].present = "et_present"
      BY <2>3, EmptyMapFacts DEF SetStatus, StatusMap
    <3> QED
      BY <2>3, <2>5, <3>2, <3>3 DEF e
  <2> QED
    BY <2>4, <2>6 DEF Holds, k
<1>2. IInv => RestoreFromHolder
  BY <1>1 DEF RestoreFromHolder
<1> QED
  BY <1>2, Inductive, PTL
=============================================================================
