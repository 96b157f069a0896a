----------------------------- MODULE MCDatabase -----------------------------
(***************************************************************************)
(* Small databases for TLC.                                                *)
(***************************************************************************)
EXTENDS DatabaseQueries, TLC

CONSTANTS
  f, g, d, root, \* two files of which g is in directory d
  Modes          \* the kinds of history explored, see MCNext

VARIABLE mode    \* the kind of this history

\* A file, and a directory with a file in it.
TreeNode == {f, d, g}
TreeParent == (f :> root) @@ (d :> root) @@ (g :> d)

Inode(dir, saved, mtime, ctime, ea) ==
  [kind |-> "inode", dir |-> dir, saved |-> saved, ea |-> ea,
   mtime |-> mtime, ctime |-> ctime]
Detruit(date) == [kind |-> "detruit", date |-> date]

\* Every data status at two dates, no EA.  The date of an archive's root dates
\* the absence of a file it does not hold, unless the file is as recent.
DataEntry ==
  {Detruit(2), Inode(FALSE, "s_not_saved", 2, 2, "ea_none")}
  \cup {Inode(FALSE, "s_saved", t, t, "ea_none") : t \in 1..2}
OfOneFile(entries) == {[n \in TreeNode |-> IF n = f THEN e ELSE NoEntry] : e \in entries}
DataArchive == [root : {1}, entry : OfOneFile(DataEntry)]
               \cup [root : {1, 3}, entry : OfOneFile({NoEntry})]

\* Data and EA together, with a ctime after the mtime too.
EaEntry ==
  {NoEntry, Detruit(2)}
  \cup {Inode(FALSE, s, t[1], t[2], ea) :
          s \in {"s_saved", "s_not_saved"}, t \in {<<1, 1>>, <<1, 2>>},
          ea \in {"ea_none", "ea_removed", "ea_partial", "ea_full"}}
EaArchive == [root : {1}, entry : OfOneFile(EaEntry)]

\* Files with EA in a tree whose directory may disappear, or turn into a
\* plain file; the other file comes and goes with it.
FileEntry == {NoEntry, Inode(FALSE, "s_saved", 1, 1, "ea_full")}
TreeArchive ==
  {a \in [root : {1},
          entry : [TreeNode -> FileEntry
                     \cup {Inode(TRUE, "s_not_saved", 2, 2, "ea_none"), Detruit(2)}]] :
     /\ a \in ArchiveType
     /\ a.entry[f] \in FileEntry /\ a.entry[g] \in FileEntry
     /\ a.entry[f] = NoEntry <=> a.entry[d].kind = "detruit" \/ a.entry[g] # NoEntry}

\* The dates asked for at restoration: nothing is dated later than 4, and a
\* date nothing is later than asks for what 0, no limit, asks for.
RestoreDates == 0..3

-----------------------------------------------------------------------------
(* The scan of get_data, one map entry after the other, as a reference for *)
(* the definitions by sets of DataTree.                                    *)

Scan0 == [maxSeen |-> 0, maxReal |-> 0, seen |-> 0, real |-> 0, even |-> 0,
          presenceSeen |-> FALSE, presenceReal |-> FALSE]

ScanEntry(m, date, s, k) ==
  LET st == m[k]
      inTime == st # NotMentioned /\ (date = 0 \/ st.date <= date)
      s1 == IF inTime /\ st.date >= s.maxSeen
            THEN [s EXCEPT !.maxSeen = st.date, !.seen = k,
                           !.presenceSeen = MentionsExistence(st)]
            ELSE s
  IN IF inTime /\ st.date >= s.maxReal /\ st.present # "et_present"
     THEN [s1 EXCEPT !.maxReal = st.date, !.real = k,
                     !.presenceReal = (st.present = "et_saved"),
                     !.even = IF st.present = "et_saved" THEN k ELSE @]
     ELSE s1

ScanLoop(m, date, evenWhenRemoved) ==
  LET scan[k \in 0..(ArchiveNumMax - 1)] ==
        IF k = 0 THEN Scan0 ELSE ScanEntry(m, date, scan[k - 1], k)
      Found(ar, seen, pSeen, pReal) ==
        IF ar = 0
        THEN IF seen # 0 THEN [archive |-> seen, lookup |-> "not_restorable"]
             ELSE [archive |-> 0, lookup |-> "not_found"]
        ELSE IF seen = 0 THEN [archive |-> ar, lookup |-> "SRC_BUG"]
        ELSE IF pSeen /\ ~pReal THEN [archive |-> seen, lookup |-> "not_restorable"]
        ELSE IF pSeen # pReal THEN [archive |-> ar, lookup |-> "SRC_BUG"]
        ELSE [archive |-> ar, lookup |-> IF pReal THEN "found_present" ELSE "found_removed"]
      Override(s, override) ==
        Found(IF override THEN s.even ELSE s.real, s.seen,
              override \/ s.presenceSeen, override \/ s.presenceReal)
      End(s) == Override(s, evenWhenRemoved /\ s.even > 0)
  IN End(scan[ArchiveNumMax - 1])

\* The set definitions say what the loop of get_data computes, on every map
\* the database reaches, ordered or not.
LookupIsTheScan ==
  \A n \in tree, date \in Date, even \in BOOLEAN :
    mode = "data" =>
    /\ GetData(last_mod[n], date, even) = ScanLoop(last_mod[n], date, even)
    /\ GetData(last_change[n], date, even) = ScanLoop(last_change[n], date, even)

-----------------------------------------------------------------------------
(* Histories: one file with the data of several archives or a small tree,   *)
(* with every call; one file with data and EA, archives only added.         *)

Archives == DataArchive \cup EaArchive \cup TreeArchive
ArchivesOf(kind) ==
  CASE kind = "data" -> DataArchive [] kind = "adds" -> EaArchive
    [] kind = "tree" -> TreeArchive
MCInit == Init /\ mode \in Modes

MCNext ==
  /\ \/ (mode = "tree" => Count < 2) /\ \E a \in ArchivesOf(mode) : AddArchive(a)
     \/ /\ mode # "adds"
        /\ \E num \in Number, revert \in BOOLEAN : RemoveArchive(num, revert)
     \/ mode # "adds" /\ \E src, dst \in Number : SetPermutation(src, dst)
     \/ Finalize
  /\ UNCHANGED mode

MCSpec == MCInit /\ [][MCNext]_<<vars, mode>>

\* database::restore on archives added in the order of their dates: data and
\* EA come from the newest archive that knows the file, and what the calls of
\* dar leave behind is what the lookups answer for.
YieldsWhenAdded == mode = "adds" => NewestArchiveWins /\ RestoreYieldsLookup

\* What dar_manager reads off the tree is what the tree holds: a lookup is the
\* scan of get_data, the statistics name the archive -k restores from, the
\* calls of dar cover the files asked for, and a database written to its file
\* reads back.
QueriesTellTheTree ==
  LookupIsTheScan /\ StatsNameTheSource /\ CallsCoverTheTree /\ FileReadsBack
=============================================================================
