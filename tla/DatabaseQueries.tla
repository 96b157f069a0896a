-------------------------- MODULE DatabaseQueries --------------------------
(***************************************************************************)
(* What dar_manager reads from its database: the listings and statistics   *)
(* of libdar/database.cpp and data_tree.cpp, the calls to dar that a       *)
(* restoration makes, and the file the database is kept in.  Nothing here  *)
(* changes the database: these are operators on the state of Database.     *)
(***************************************************************************)
EXTENDS Database

Children(n) == {c \in tree : Parent[c] = n}

\* data_tree_find: the path of n is followed from directory to directory.
Findable(n) ==
  /\ n \in tree
  /\ \A p \in Node : n \in Under(p) /\ p # n => p \in tree \cap dirs

-----------------------------------------------------------------------------
(* Listings *)

\* show_files: what archive num is the one to restore from; all files for 0.
ShowFiles(num) ==
  LET isIn(found) == /\ found.lookup = "found_present"
                     /\ num = 0 \/ found.archive = num
      flags(n) == [node |-> n, data |-> isIn(GetData(last_mod[n], 0, FALSE)),
                   ea |-> isIn(GetEA(last_change[n], 0, FALSE))]
  IN {l \in {flags(n) : n \in tree} : l.data \/ l.ea \/ num = 0}

\* display_line, one archive of the listing of a file: the status of an EA
\* has no name for et_absent, "state not used for EA".
DisplayLine(data, ea) ==
  IF ea.present = "et_absent" THEN "SRC_BUG"
  ELSE IF data = NotMentioned THEN "absent" ELSE data.present

\* show_version, the listing of a file: both maps are merged by number.
ShowVersion(n) ==
  IF ~Findable(n) THEN {"Erange"}
  ELSE {DisplayLine(last_mod[n][k], last_change[n][k]) :
          k \in Mentioned(last_mod[n]) \cup Mentioned(last_change[n])}

SavedEntries(m) == {k \in Mentioned(m) : m[k].present = "et_saved"}

\* Faulty: "date > max" counts the file for the oldest archive of that date.
FirstRecent(m) ==
  IF SavedEntries(m) = {} THEN 0 ELSE LatestFirst(m, SavedEntries(m))

\* compute_most_recent_stats: the archive a file is counted for.
MostRecent(m) == IF SavedEntries(m) = {} THEN 0 ELSE Latest(m, SavedEntries(m))

\* show_most_recent_stats, for archive k.
Stats(k) ==
  [data |-> Cardinality({n \in tree : MostRecent(last_mod[n]) = k}),
   total_data |-> Cardinality({n \in tree : k \in SavedEntries(last_mod[n])}),
   ea |-> Cardinality({n \in tree : MostRecent(last_change[n]) = k}),
   total_ea |-> Cardinality({n \in tree : k \in SavedEntries(last_change[n])})]

-----------------------------------------------------------------------------
(* Restoring *)

\* The children of a directory join the ring of files to restore when the
\* directory leaves it: in the end the ring has gone through all that is below.
Ring(n) == IF Findable(n) THEN Under(n) \cap tree ELSE {}

\* Faulty: the file is passed on to the archive of its EA only.
RestoreCallsForEA(n, date, even) ==
  LET Calls(plan) ==
        [k \in {plan[c].ea : c \in DOMAIN plan} \ {0} |-> {c \in DOMAIN plan : k = plan[c].ea}]
  IN Calls([c \in Ring(n) |-> RestorePlan(c, date, even)])

\* database::restore: dar is called once for each number of the domain, in
\* increasing order, with one -g option for each file of the set.
RestoreCalls(n, date, even) ==
  LET Calls(plan) ==
        [k \in UNION {{plan[c].data, plan[c].ea} : c \in DOMAIN plan} \ {0} |->
           {c \in DOMAIN plan : k \in {plan[c].data, plan[c].ea}}]
  IN Calls([c \in Ring(n) |-> RestorePlan(c, date, even)])

-----------------------------------------------------------------------------
(* The file of the database *)

\* data_tree::dump: what one node leaves in the file.  Sequences of
\* <<number, status>> pairs stand for the maps, in the order of their keys.
Pairs(m) ==
  LET keys == SetToSortSeq(Mentioned(m), <)
  IN [i \in DOMAIN keys |-> <<keys[i], m[keys[i]]>>]

\* What a node adds to the file, with the number of children that follow it.
DumpNode(n, children) ==
  [sign |-> IF n \in dirs THEN "d" ELSE "t", name |-> n, last_mod |-> Pairs(last_mod[n]),
   last_change |-> Pairs(last_change[n]), children |-> children]

\* rejetons is in the order its nodes were created; back is that order or not.
Rejetons(n, back) ==
  LET kids == SetToSeq(Children(n)) IN IF back THEN Reverse(kids) ELSE kids

\* data_dir::dump walks the tree, a node first and then its children.
RECURSIVE DumpTree(_, _)
DumpTree(n, back) ==
  LET kids == Rejetons(n, back)
  IN <<DumpNode(n, Len(kids))>>
     \o FlattenSeq([i \in DOMAIN kids |-> DumpTree(kids[i], back)])

DumpFiles(back) ==
  LET kids == Rejetons(Root, back)
  IN FlattenSeq([i \in DOMAIN kids |-> DumpTree(kids[i], back)])

\* data_tree::data_tree(f, db_version): the file of version 1 has dates only,
\* everything it mentions is saved.
ReadMap(pairs, version) ==
  [k \in ArchiveNum |->
     LET of == {i \in DOMAIN pairs : pairs[i][1] = k}
     IN IF of = {} THEN NotMentioned
        ELSE LET st == pairs[Max(of)][2]
             IN IF version = 1 THEN [st EXCEPT !.present = "et_saved"] ELSE st]

\* Faulty: a record is given to the directory read last.
NearestDir(f, i) == Max({j \in 1..(i - 1) : f[j].sign = "d"} \cup {0})

\* The directory record i is read as a child of, 0 for the root: each data_dir
\* reads as many records as it was told, and those its children read in turn.
ChildOf(f, i) ==
  LET reading[j \in 0..(i - 1)] == \* <<directory, records it still has to read>>
        IF j = 0 THEN <<<<0, Len(f)>>>>
        ELSE LET r == reading[j - 1]
                 next == Append([r EXCEPT ![Len(r)][2] = @ - 1],
                                <<j, IF f[j].sign = "d" THEN f[j].children ELSE 0>>)
             IN SelectSeq(next, LAMBDA d : d[2] > 0)
  IN Last(reading[i - 1])[1]

\* What build makes of the file f.
ReadFiles(f, version) ==
  [tree |-> {f[i].name : i \in DOMAIN f},
   dirs |-> {f[i].name : i \in {j \in DOMAIN f : f[j].sign = "d"}},
   parent |-> {<<f[i].name, IF ChildOf(f, i) = 0 THEN Root ELSE f[ChildOf(f, i)].name>> :
                 i \in DOMAIN f},
   last_mod |-> {<<f[i].name, ReadMap(f[i].last_mod, version)>> : i \in DOMAIN f},
   last_change |-> {<<f[i].name, ReadMap(f[i].last_change, version)>> : i \in DOMAIN f}]

-----------------------------------------------------------------------------
(* Properties *)

\* A database that is written down and read again has every file where it
\* was, with all that was recorded of it: each directory is given back its
\* own children, however many directories have just ended.
FileReadsBack ==
  Idle =>
    \A back \in BOOLEAN :
      ReadFiles(DumpFiles(back), 3) =
        [tree |-> tree, dirs |-> dirs, parent |-> {<<n, Parent[n]>> : n \in tree},
         last_mod |-> {<<n, last_mod[n]>> : n \in tree},
         last_change |-> {<<n, last_change[n]>> : n \in tree}]

\* The statistics are computed by a scan of their own.  When dates are in
\* order they count a file for the archive that -k would restore it from.
StatsNameTheSource ==
  \A n \in tree :
    /\ MapInOrder(last_mod[n]) /\ SavedEntries(last_mod[n]) # {} =>
         GetData(last_mod[n], 0, TRUE) =
           [archive |-> MostRecent(last_mod[n]), lookup |-> "found_present"]
    /\ MapInOrder(last_change[n]) /\ SavedEntries(last_change[n]) # {} =>
         GetEA(last_change[n], 0, TRUE) =
           [archive |-> MostRecent(last_change[n]), lookup |-> "found_present"]

\* Restoring a directory in its latest state, with or without -k, calls dar on
\* an archive that holds the data of each file below it that can be restored,
\* and passes that file on to it.
CallsCoverTheTree ==
  Idle =>
    \A n \in tree, even \in BOOLEAN :
      LET Covered(calls, c, data) ==
            data.lookup = "found_present" =>
              /\ data.archive \in DOMAIN calls
              /\ c \in calls[data.archive]
              /\ Holds(data.archive, c)
          Cover(calls) == \A c \in Under(n) : Covered(calls, c, GetData(last_mod[c], 0, even))
      IN Cover(RestoreCalls(n, 0, even))
=============================================================================
