----------------------------- MODULE MCMerging -----------------------------
(***************************************************************************)
(* Small archives, policies and options for Merging, and what merging them *)
(* must give.                                                              *)
(***************************************************************************)
EXTENDS Merging

Policy == INSTANCE Criteria WITH Hour <- 60, HourShift <- 0
MCDecide(p, f, s) == Policy!Action(p, f, s)
MCDecrementalPolicy == Policy!Decremental
MCDataAnswers == Policy!AskData
MCEAAnswers == Policy!AskEA

-----------------------------------------------------------------------------
(* What the merged catalogue must be, said of the two trees. *)

\* Where each path comes from, said of the two trees and not of the cursors:
\* "both" are directories that were merged.
Entries(a) == {k \in DOMAIN archs[a] : archs[a][k].type # "eod"}
Paths == UNION {{archs[a][k].path : k \in Entries(a)} : a \in DOMAIN archs}
In(a, p) == a \in DOMAIN archs /\ p \in opts.mask /\ \E k \in Entries(a) : archs[a][k].path = p
Entry(a, p) == archs[a][CHOOSE k \in Entries(a) : archs[a][k].path = p]
Seen(a, p) ==
  LET x == Entry(a, p)
  IN [type |-> x.type, hard |-> x.etiq # 0, first |-> TRUE, saved |-> x.saved, mtime |-> x.mtime,
      size |-> x.size, dirty |-> x.dirty, sparse |-> x.sparse, ea |-> x.ea, ctime |-> x.ctime,
      eanum |-> Cardinality(x.eas), easize |-> Cardinality(x.eas)]
Wanted(p) == Decide(Rule, Seen(1, p), Seen(2, p))
KeepsFirst(p) == Wanted(p).data \in {"preserve", "preserve_mark_saved", "undefined"}
RECURSIVE Side(_)
Side(p) ==
  IF p = <<>> THEN "both"
  ELSE LET up == Side(Front(p))
           one == up \in {"one", "both"} /\ In(1, p)
           two == up \in {"two", "both"} /\ In(2, p)
       IN IF one /\ two
          THEN IF Wanted(p).data = "remove" THEN "none"
               ELSE IF Entry(1, p).type = "dir" /\ Entry(2, p).type = "dir" THEN "both"
               ELSE IF KeepsFirst(p) THEN "one" ELSE "two"
          ELSE IF one THEN "one" ELSE IF two THEN "two" ELSE "none"
Conflict(p) == In(1, p) /\ In(2, p) /\ Side(Front(p)) = "both"
Winner(p) == CASE Side(p) = "one" -> 1 [] Side(p) = "two" -> 2
               [] Side(p) = "both" -> IF In(1, p) /\ (KeepsFirst(p) \/ ~ In(2, p)) THEN 1 ELSE 2
NoQuestion == ~ opts.warn /\ \A p \in Paths : Conflict(p) => "ask" \notin {Wanted(p).data, Wanted(p).ea}

\* The data are those of the archive that wins.
DataAsThePolicySays(p) ==
  IF Side(p) = "none" THEN \A k \in At(p) : ino[cat[k].i].type = "igndir"
  ELSE \E k \in At(p) : /\ ino[cat[k].i].id = Entry(Winner(p), p).id
                        /\ ino[cat[k].i].from = Winner(p)

\* The action on EA has the same outcome whether the entry in place is kept or
\* replaced, although the replacing clone receives them the other way round.
\* "clear" spares those of an added entry when the one in place has none.
Held(x) == IF x.ea = "full" THEN x.eas ELSE {}
Alone(p) == \A a \in {1, 2} : Entry(a, p).etiq = 0 /\ IsInode(Seen(a, p))
EAAsThePolicySays(p) ==
  Conflict(p) /\ Alone(p) /\ Side(p) # "none" =>
    LET one == Held(Entry(1, p))
        two == Held(Entry(2, p))
        got == Held(ino[NodeAt(p).i])
        ea == Wanted(p).ea
    IN CASE ea \in {"preserve", "undefined"} -> got = one
         [] ea = "overwrite" -> got = two
         [] ea = "merge_preserve" -> got = MergeEA(one, two)
         [] ea = "merge_overwrite" -> got = MergeEA(two, one)
         [] ea = "clear" -> got = {} \/ Entry(1, p).ea = "none"
         [] OTHER -> got = {}

\* The merged catalogue holds what the policy says of the two trees, neither an
\* entry more nor one less, with the data of the archive that wins and the EA
\* that the action on them makes of both.
MergedAsThePolicySays ==
  Ended /\ ~ IsDecremental /\ NoQuestion => \A p \in Paths : DataAsThePolicySays(p) /\ EAAsThePolicySays(p)

\* Restored over the second archive, the decremental backup gives the first one
\* back, hard links left apart.
Covers(p) == \E q \in {SubSeq(p, 1, n) : n \in 1..Len(p)} : At(q) # {} /\ ino[NodeAt(q).i].type # "dir"
DecrementalRestores ==
  Ended /\ IsDecremental =>
    \A p \in Paths :
      IF In(1, p)
      THEN Entry(1, p).etiq = 0 =>
             \E k \in At(p) : LET x == ino[cat[k].i]
                              IN /\ x.from = 1 /\ x.id = Entry(1, p).id
                                 /\ x.saved # Entry(1, p).saved => In(2, p) /\ Entry(2, p).id = x.id
                                 /\ x.ea = "partial" /\ Entry(1, p).ea = "full" => Entry(2, p).eas = x.eas
      ELSE In(2, p) => Covers(p)

-----------------------------------------------------------------------------
(* The archives, policies and options. *)

Inode(type, path, date) ==
  [type |-> type, path |-> path, etiq |-> 0, saved |-> "saved", mtime |-> date, size |-> 1,
   dirty |-> FALSE, sparse |-> FALSE, ea |-> "none", ctime |-> 0, eas |-> {}, id |-> <<Last(path), date>>]
File(path, date) == Inode("file", path, date)
Dir(path) == Inode("dir", path, 1)
EndOf(path) == [type |-> "eod", path |-> path]
Gone(path) == [Inode("detruit", path, 0) EXCEPT !.saved = "none"]
WithEA(x, date, eas) == [x EXCEPT !.ea = "full", !.ctime = date, !.eas = eas]
Link(path, n, date) == [File(path, date) EXCEPT !.etiq = n, !.id = <<"inode", n, date>>]
NotSaved(x) == [x EXCEPT !.saved = "not_saved"]
PartialEA(x) == [x EXCEPT !.ea = "partial", !.ctime = 1]

One == {<<"k", 1>>, <<"one", 1>>}
Two == {<<"k", 2>>, <<"two", 2>>}
d == <<"d">>
db == <<"d", "b">>
df == <<"d", "f">>
dg == <<"d", "g">>
b == <<"b">>
c == <<"c">>
e == <<"e">>
x == <<"x">>
y == <<"y">>

All == {d, db, df, dg, <<"d", "e">>, b, c, e, x, y, <<"c", "f">>}
Option == [mask |-> All, decremental |-> FALSE, emptydir |-> FALSE, warn |-> FALSE]

\* A directory with two files, a file of the same name outside, two links.
First == <<Dir(d), WithEA(File(df, 1), 1, One), Link(db, 1, 1), Dir(<<"d", "e">>), EndOf(<<"d", "e">>), EndOf(d),
           WithEA(File(b, 1), 1, One), Link(c, 1, 1)>>
\* The same a while later: one file changed, one removed, one new.
Second == <<WithEA(Dir(d), 2, {<<"d", 2>>}), WithEA(File(df, 2), 2, Two), File(dg, 2), EndOf(d),
            Dir(e), EndOf(e), Gone(b), Link(x, 1, 2), Link(c, 2, 2), Link(y, 2, 2)>>
\* Directories and files change places.
Turned == <<Dir(c), Link(<<"c", "f">>, 1, 2), EndOf(c), WithEA(File(d, 2), 2, Two),
            WithEA(Link(b, 1, 2), 2, Two)>>
Older == <<Dir(d), PartialEA(NotSaved(File(df, 1))), EndOf(d), Gone(b), NotSaved(File(c, 1))>>
LinkedEA == <<WithEA(Link(b, 1, 1), 1, One), WithEA(Link(c, 1, 1), 1, One)>>

MCNames == {"b", "c", "d", "e", "f", "g", "x", "y"}

MCArchiveSets == {<<First, Second>>, <<First, Turned>>, <<Older, First>>, <<Older, Second>>, <<Turned, Older>>, <<LinkedEA, First>>, <<First>>}

\* The first hard linked inode is left out.
TwoSets == {<<<<Link(b, 1, 1), Link(x, 1, 1), Link(c, 2, 1), Link(e, 2, 1)>>, <<Link(<<"g">>, 1, 2), Link(y, 1, 2)>>>>}
LeftOut == {[Option EXCEPT !.mask = {c, <<"g">>, e, y}]}
Plain == {Policy!Constant("preserve", "preserve")}

MCMergeOptions ==
  {Option, [Option EXCEPT !.emptydir = TRUE, !.mask = All \ {d, x}], [Option EXCEPT !.warn = TRUE],
   [Option EXCEPT !.emptydir = TRUE], [Option EXCEPT !.decremental = TRUE]}

MCMergePolicies ==
  {Policy!Constant("overwrite", "preserve"), Policy!Constant("preserve", "merge_preserve"), Policy!Constant("overwrite", "merge_preserve"),
   Policy!Constant("remove", "clear"), Policy!Constant("ask", "ask"), Policy!Constant("preserve_mark_saved", "preserve_mark_saved"),
   Policy!Constant("overwrite", "clear"),
   Policy!Chain(<<Policy!Test(Policy!Letter("R"), Policy!Constant("preserve", "overwrite"),
                Policy!Constant("overwrite_mark_saved", "merge_overwrite"))>>)}

\* Questions are asked of one pair of archives only.
Asking == opts.warn \/ policy = Policy!Constant("ask", "ask")
Chosen == Asking => /\ archs = <<First, Turned>>
                    /\ opts.warn => policy.op = "chain"
                    /\ ~ opts.decremental /\ ~ opts.emptydir
MCMergeInit == Init /\ Chosen
MCMergeSpec == MCMergeInit /\ [][Next]_vars

\* filtre_merge, when it ends: the counters follow each removal, and a merging
\* that was cancelled lists what was copied and nothing else.
MergeEndsWell == CountersFollowRemovals /\ TailIsComplete
=============================================================================
