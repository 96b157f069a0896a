--------------------------- MODULE MCRestoration ---------------------------
(***************************************************************************)
(* Small archives, trees, policies and options for Restoration.            *)
(***************************************************************************)
EXTENDS Restoration, Criteria

Inode(type, path) ==
  [type |-> type, hard |-> FALSE, first |-> FALSE, saved |-> "saved", mtime |-> 3, size |-> 2,
   dirty |-> FALSE, sparse |-> FALSE, ea |-> "none", ctime |-> 3, eanum |-> 0, easize |-> 0,
   path |-> path, etiq |-> 0, id |-> path[Len(path)], copies |-> <<"good">>]
File(path) == Inode("file", path)
Dir(path) == Inode("dir", path)
EodOf(path) == [type |-> "eod", path |-> path]
Detruit(path) == [Inode("detruit", path) EXCEPT !.saved = "none"]
WithEA(it) == [it EXCEPT !.ea = "full", !.eanum = 1, !.easize = 1]
Link(path, first) == [WithEA(File(path)) EXCEPT !.hard = TRUE, !.first = first, !.etiq = 1, !.id = "inode"]
NotSaved(it) == [it EXCEPT !.saved = "not_saved"]

dd == <<"d">>
df == <<"d", "f">>
dx == <<"d", "x">>
b == <<"b">>
c == <<"c">>
x == <<"x">>

\* A directory with a file, two links to an inode, the records of two removed files.
Full == [items |-> <<Dir(dd), WithEA(File(df)), EodOf(dd), Link(b, TRUE), Link(c, FALSE)>>,
         all |-> <<Dir(dd), WithEA(File(df)), Detruit(dx), EodOf(dd), Link(b, TRUE), Link(c, FALSE), Detruit(x)>>,
         dets |-> <<Dir(dd), Detruit(dx), EodOf(dd), Detruit(x)>>, complete |-> TRUE]
\* Nothing but EA changed, the data is in an older archive.
LinksOfEA == LET l(p, f) == NotSaved(Link(p, f))
                 s == <<Dir(dd), NotSaved(WithEA(File(df))), EodOf(dd), l(b, TRUE), l(c, FALSE)>>
             IN [items |-> s, all |-> s, dets |-> <<>>, complete |-> TRUE]
\* Files that changed while they were saved.
Moving(first) ==
  LET s == <<[File(b) EXCEPT !.copies = <<first, "good">>],
             [WithEA(File(c)) EXCEPT !.copies = <<"empty", "bad", "good">>],
             [File(x) EXCEPT !.dirty = TRUE]>>
  IN [items |-> s, all |-> s, dets |-> <<>>, complete |-> TRUE]
\* The backup was interrupted in directory d.
Cut == LET s == <<File(b), Dir(dd), File(df)>>
       IN [items |-> s, all |-> Append(s, EodOf(dd)), dets |-> <<>>, complete |-> FALSE]

MCNames == {"b", "c", "d", "f", "x", "y"}
MCArchives == {Full, LinksOfEA, Moving("empty"), Cut}
Retried == {Moving("good")}

InPlace(type) ==
  [type |-> type, hard |-> FALSE, first |-> FALSE, saved |-> "saved", mtime |-> 2, size |-> 1,
   dirty |-> FALSE, sparse |-> FALSE, ea |-> "none", ctime |-> 2, eanum |-> 0, easize |-> 0,
   eas |-> {}, id |-> "none", copy |-> 0]
WithOwnEA(i) == [i EXCEPT !.ea = "full", !.eanum = 1, !.easize = 2, !.eas = {"own"}]
Root == InPlace("dir")
Tree(paths, inodes) ==
  [disk |-> [p \in {<<>>} \cup {paths[i] : i \in DOMAIN paths} |->
               IF p = <<>> THEN 1 ELSE 1 + CHOOSE i \in DOMAIN paths : paths[i] = p],
   ino |-> <<Root>> \o inodes]
NothingThere == Tree(<<>>, <<>>)
Older == Tree(<<dd, df, b, x>>, <<InPlace("dir"), WithOwnEA(InPlace("file")), InPlace("file"), InPlace("file")>>)
Crossed == Tree(<<dd, c, <<"c", "y">>, b>>,
                <<InPlace("file"), InPlace("dir"), InPlace("file"), WithOwnEA(InPlace("file"))>>)
Bare == {NothingThere}
MCDisks == {NothingThere, Older, Crossed}

Option(mode) ==
  [mode |-> mode, mask |-> {dd, df, dx, b, c, x, <<"f">>}, dirty |-> "ignore", emptydir |-> TRUE, flat |-> FALSE,
   empty |-> FALSE, warn |-> FALSE, restore |-> "all", only_overwrite |-> FALSE]
MCOptions ==
  {Option("direct"), Option("seq"),
   [Option("direct") EXCEPT !.mask = {b, c, df, dx, x}, !.dirty = "warn"],
   [Option("seq") EXCEPT !.mask = {b, c, x}],
   [Option("seq") EXCEPT !.mask = {dd, dx, b, x}, !.dirty = "warn", !.emptydir = FALSE],
   [Option("seq") EXCEPT !.warn = TRUE, !.dirty = "ok", !.restore = "not_deleted"],
   [Option("direct") EXCEPT !.restore = "only_deleted", !.emptydir = FALSE],
   [Option("direct") EXCEPT !.flat = TRUE, !.only_overwrite = TRUE],
   [Option("direct") EXCEPT !.empty = TRUE, !.emptydir = FALSE]}
InSequence == {Option("seq")}
\* The catalogue in memory is that of a complete archive.
Readable == arch.complete \/ opts.mode = "seq"

\* -/ Oo, -/ Pp, -/ Rc, -/ Aa, and -/ "{!R}[Oo] Po" with merged EA for the rest.
MCPolicies ==
  {Constant("overwrite", "overwrite"), Constant("preserve", "preserve"),
   Constant("remove", "clear"), Constant("ask", "ask"),
   Chain(<<Test(Not(Letter("R")), Constant("overwrite", "undefined"), Constant("preserve", "undefined")),
           Test(Letter("e"), Constant("undefined", "merge_overwrite"), Constant("undefined", "overwrite"))>>)}

MCInit == Init /\ Readable
MCSpec == MCInit /\ [][Next]_vars
=============================================================================
