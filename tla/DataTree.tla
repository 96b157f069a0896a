------------------------------ MODULE DataTree ------------------------------
(***************************************************************************)
(* What one node of a dar_manager database records about a file, and the  *)
(* operations on that record (class data_tree of libdar/data_tree.cpp).    *)
(*                                                                         *)
(* A node holds two maps from archive numbers to a dated status: last_mod  *)
(* for the file's data and last_change for its Extended Attributes (EA).   *)
(* A map is a function on every possible archive number here; NotMentioned *)
(* is the value of a number the std::map has no key for.                   *)
(*                                                                         *)
(* The loops of the source walk a map by increasing archive number and     *)
(* keep the best entry met so far.  They are translated by the entry they  *)
(* end with, so no definition here is recursive.                           *)
(***************************************************************************)
EXTENDS Integers, FiniteSets, FiniteSetsExt

CONSTANT ArchiveNumMax \* ARCHIVE_NUM_MAX: 65534 in data_tree.hpp

ASSUME ArchiveNumMaxIsPositive == ArchiveNumMax \in Nat \ {0, 1}

\* The numbers an archive may have: add_archive refuses ARCHIVE_NUM_MAX and
\* above, and 0 "is never assigned to an archive number".
ArchiveNum == 1..(ArchiveNumMax - 1)

\* enum etat, without and with the case where the map has no such key.
Etat == {"et_saved", "et_present", "et_removed", "et_absent"}
Status == [date : Nat, present : Etat]
NotMentioned == [date |-> 0, present |-> "none"]
StatusMap == [ArchiveNum -> Status \cup {NotMentioned}]
EmptyMap == [k \in ArchiveNum |-> NotMentioned]

Mentioned(m) == {k \in DOMAIN m : m[k] # NotMentioned}
MentionsExistence(st) == st.present \in {"et_saved", "et_present"}

-----------------------------------------------------------------------------
(* Lookups *)

\* Faulty: "date > max" keeps the first archive of a date.
LatestFirst(m, S) ==
  CHOOSE k \in S : \A j \in S : \/ m[j].date < m[k].date
                                \/ m[j].date = m[k].date /\ k <= j

\* The entry a scan with "date >= max" retains: the greatest date, and the
\* greatest number among the entries of that date.
Latest(m, S) ==
  CHOOSE k \in S : \A j \in S : \/ m[j].date < m[k].date
                                \/ m[j].date = m[k].date /\ j <= k

\* Entries not after the date asked for; date 0 asks for no limit.
Seen(m, date) == {k \in Mentioned(m) : date = 0 \/ m[k].date <= date}
\* Faulty: the date limit is tested for the entries seen only.
RealAtAnyDate(m, date) == {k \in Mentioned(m) : m[k].present # "et_present"}
Real(m, date) == {k \in Seen(m, date) : m[k].present # "et_present"}

\* Faulty: the archive to use "even when removed" is noted for any state.
RecordsOfAnyState(m, date) ==
  {k \in Real(m, date) : \A j \in Real(m, date) : j < k => m[j].date <= m[k].date}

\* The saved entries that were the best real entry when the scan met them.
SavedRecords(m, date) ==
  {k \in Real(m, date) :
     /\ m[k].present = "et_saved"
     /\ \A j \in Real(m, date) : j < k => m[j].date <= m[k].date}

\* The [archive, lookup] couple of get_data.  "SRC_BUG" stands for the Ebug
\* exception raised when the two presence flags contradict each other.
GetData(m, date, evenWhenRemoved) ==
  LET seen         == Seen(m, date)
      real         == Real(m, date)
      records      == SavedRecords(m, date)
      override     == evenWhenRemoved /\ records # {}
      archiveSeen  == IF seen = {} THEN 0 ELSE Latest(m, seen)
      archiveReal  == IF real = {} THEN 0 ELSE Latest(m, real)
      archive      == IF override THEN Max(records) ELSE archiveReal
      presenceSeen == override \/ (seen # {} /\ MentionsExistence(m[archiveSeen]))
      presenceReal == override \/ (real # {} /\ m[archiveReal].present = "et_saved")
  IN CASE archive = 0 /\ archiveSeen = 0 -> [archive |-> 0, lookup |-> "not_found"]
       [] archive # 0 /\ archiveSeen = 0 -> [archive |-> archive, lookup |-> "SRC_BUG"]
       [] archiveSeen # 0 /\ (archive = 0 \/ (presenceSeen /\ ~presenceReal)) ->
            [archive |-> archiveSeen, lookup |-> "not_restorable"]
       [] archiveSeen # 0 /\ archive # 0 /\ ~presenceSeen /\ presenceReal ->
            [archive |-> archive, lookup |-> "SRC_BUG"]
       [] archiveSeen # 0 /\ archive # 0 /\ presenceSeen = presenceReal ->
            [archive |-> archive,
             lookup  |-> IF presenceReal THEN "found_present" ELSE "found_removed"]

\* get_EA is the same scan of the other map.  It leaves the archive argument
\* alone where get_data sets it to the entry seen ("not_restorable"), a
\* number its callers never use.
GetEA(m, date, evenWhenRemoved) ==
  LET found == GetData(m, date, evenWhenRemoved)
  IN IF found.lookup = "not_restorable"
     THEN [found EXCEPT !.archive = IF Real(m, date) = {} THEN 0
                                    ELSE Latest(m, Real(m, date))]
     ELSE found

-----------------------------------------------------------------------------
(* Updates *)

SetStatus(m, archive, date, present) ==
  [m EXCEPT ![archive] = [date |-> date, present |-> present]]

\* An entry of the archive's own, not one computed from its neighbours.
FoundInArchive(m, archive) ==
  m[archive] # NotMentioned /\ m[archive].present # "et_absent"

\* Faulty: 0 is compared as if it were an archive number.
ScannedBelow(m, archive, ignoreFrom) ==
  {k \in Mentioned(m) : k < ignoreFrom /\ (FoundInArchive(m, archive) => k < archive)}

\* The entries finalize's scan goes through before it stops.
Scanned(m, archive, ignoreFrom) ==
  {k \in Mentioned(m) :
     /\ ignoreFrom = 0 \/ k < ignoreFrom
     /\ FoundInArchive(m, archive) => k < archive}

\* The status of greatest number among them, NotMentioned if there is none.
LastScanned(m, archive, ignoreFrom) ==
  LET S == Scanned(m, archive, ignoreFrom)
  IN IF S = {} THEN NotMentioned ELSE m[Max(S)]

\* data_tree::finalize on last_mod: a file that existed and that this archive
\* does not mention is recorded absent; an absence that no longer follows an
\* existence is erased.
FinalizeData(m, archive, deletedDate, ignoreFrom) ==
  LET last == LastScanned(m, archive, ignoreFrom)
      absence == IF deletedDate > last.date THEN deletedDate ELSE last.date + 1
  IN IF FoundInArchive(m, archive) THEN m
     ELSE IF MentionsExistence(last)
          THEN SetStatus(m, archive, absence, "et_absent")
          ELSE [m EXCEPT ![archive] = NotMentioned]

\* Faulty: the archive's own EA record is not looked for.
FinalizeEAAlways(c, m, archive, deletedDate, ignoreFrom) ==
  IF MentionsExistence(LastScanned(c, archive, ignoreFrom))
  THEN SetStatus(c, archive, deletedDate, "et_absent")
  ELSE c

\* data_tree::finalize on last_change; the mtime it falls back on is the one
\* the scan of last_mod ended with.  Here nothing is ever erased.
FinalizeEA(c, m, archive, deletedDate, ignoreFrom) ==
  LET lastMtime == LastScanned(m, archive, ignoreFrom).date
  IN IF ~FoundInArchive(c, archive)
        /\ MentionsExistence(LastScanned(c, archive, ignoreFrom))
     THEN SetStatus(c, archive,
                    IF lastMtime < deletedDate THEN deletedDate ELSE lastMtime,
                    "et_absent")
     ELSE c

\* Faulty: the removal is handed over even when there is no next archive.
RemoveFromUnguarded(m, archive, lastArchive) ==
  LET kept == IF m[archive].present = "et_removed" /\ Cardinality(Mentioned(m)) > 1
              THEN SetStatus(m, archive + 1, m[archive].date, "et_removed")
              ELSE m
  IN [kept EXCEPT ![archive] = NotMentioned]

\* data_tree::remove_all_from on one map: a removal is handed over to the next
\* archive unless that one has an entry of its own, then the entry is erased.
RemoveFrom(m, archive, lastArchive) ==
  LET handOver == /\ archive < lastArchive
                  /\ Cardinality(Mentioned(m)) > 1
                  /\ m[archive].present = "et_removed"
                  /\ m[archive + 1] = NotMentioned
      kept == IF handOver
              THEN SetStatus(m, archive + 1, m[archive].date, "et_removed")
              ELSE m
  IN [kept EXCEPT ![archive] = NotMentioned]

\* Faulty: num itself is decremented too.
SkipOutFromNum(m, num) ==
  [k \in 0..(ArchiveNumMax - 1) |->
     IF k = 0 THEN IF num = 1 THEN m[1] ELSE NotMentioned
     ELSE IF k + 1 < num \/ k + 1 \notin ArchiveNum THEN m[k] ELSE m[k + 1]]

\* skip_out: numbers above num are decremented (num itself was erased before,
\* or is overwritten by the entry that comes down on it).
SkipOut(m, num) ==
  [k \in ArchiveNum |->
     IF k < num \/ k + 1 \notin ArchiveNum THEN IF k > num THEN NotMentioned ELSE m[k]
     ELSE IF k = num /\ m[k + 1] = NotMentioned THEN m[k]
     ELSE m[k + 1]]

\* Faulty: the last archive of the range keeps its number.
PermutationShort(src, dst, x) ==
  CASE x = src                          -> dst
    [] src < dst /\ x > src /\ x < dst  -> x - 1
    [] src > dst /\ x < src /\ x >= dst -> x + 1
    [] OTHER                            -> x

\* data_tree_permutation: the number archive x has once src was moved to dst.
Permutation(src, dst, x) ==
  CASE x = src                          -> dst
    [] src < dst /\ x > src /\ x <= dst -> x - 1
    [] src > dst /\ x < src /\ x >= dst -> x + 1
    [] OTHER                            -> x

\* Faulty: entries are read through the permutation instead of its inverse.
ApplyPermutationForward(m, src, dst) ==
  [x \in ArchiveNum |-> m[Permutation(src, dst, x)]]

\* apply_permutation: entry k becomes entry Permutation(src, dst, k).  Moving
\* back from dst to src gives the k an entry comes from.
ApplyPermutation(m, src, dst) ==
  [x \in ArchiveNum |-> m[Permutation(dst, src, x)]]

\* check_map_order: dates never decrease when the archive number grows.
MapInOrder(m) ==
  \A j, k \in Mentioned(m) : j < k => m[j].date <= m[k].date
=============================================================================
