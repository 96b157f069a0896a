------------------------------- MODULE Masks -------------------------------
(***************************************************************************)
(* Paths (class path), lists of files (class mask_list), and the masks dar *)
(* makes of its options -P, -g, -X, -I and the like                        *)
(* (make_ordered_mask, make_unordered_mask).                               *)
(*                                                                         *)
(* A text is the sequence of what is between its slashes: "/a" is          *)
(* <<Empty, a>>, "/" is <<Empty, Empty>>, "a/" is <<a, Empty>>.  Names are *)
(* numbers in the order of their characters, so that the order of my_char, *)
(* whose lowest character is the slash, is the order of the sequences.     *)
(***************************************************************************)
EXTENDS Integers, Sequences, FiniteSets

CONSTANTS Names,       \* what may be between two slashes
          Dot, DotDot, \* "." and ".."
          Root,        \* "<ROOT>"
          Upper,       \* a name in upper case
          Files,       \* the lines of a listing file: sets of texts
          Origins,     \* where relative lines and options are: texts
          Candidates,  \* what masks are asked about: paths as they are displayed
          Listings,    \* options, in their order: sequences of rules
          Added,       \* texts added to a path
          MaxMembers   \* bound: members of a path

Empty == 0
Text == Seq(Names) \ {<<>>}

\* An option: how its mask is made, whether case matters, and its argument.
Rule == [included : BOOLEAN, case_s : BOOLEAN, mask : Text]
\* What the options of one kind are about, and whether their order matters.
Kinds == {"name", "path", "hook"}

Front(s) == SubSeq(s, 1, Len(s) - 1)
Last(s) == s[Len(s)]

\* What the constructor takes for the members: all but the leading slash and
\* one at the end.
Members(text) == LET s == IF Head(text) = Empty THEN Tail(text) ELSE text
                 IN IF s # <<>> /\ Last(s) = Empty THEN Front(s) ELSE s
IsPath(text) == text # <<Empty>> /\ \A i \in DOMAIN Members(text) : Members(text)[i] # Empty

ASSUME MaskAssumption ==
  /\ Names \subseteq Nat /\ {Empty, Dot, DotDot, Root} \subseteq Names
  /\ Dot # Empty /\ DotDot # Empty /\ DotDot # Dot
  /\ Upper \in [Names -> Names]
  /\ \A file \in Files : IsFiniteSet(file) /\ file \subseteq Text
  /\ Origins \subseteq {text \in Text : IsPath(text)}
  /\ Candidates \subseteq Text /\ Added \subseteq Text
  /\ Listings \subseteq Seq(Rule)

VARIABLES task,                               \* what is being done
          contenu, case_s, including,         \* the fields of a mask_list
          target, min, max, covered,          \* its search for a text
          kind, prefix, listing, seen, chain, \* masks being made of options
          ret_mask,
          chemin                              \* a path

searchVars == <<contenu, case_s, including, target, min, max, covered>>
ruleVars == <<kind, prefix, listing, seen, chain, ret_mask>>
maskVars == <<task, searchVars, ruleVars, chemin>>

-----------------------------------------------------------------------------
(* Paths. *)

\* Each ".." takes away the member before it, unless there is none or it is
\* one more ".."; a "." is left out.
Pushed(up, x) == CASE x = Dot -> up
                   [] x = DotDot /\ up # <<>> /\ Last(up) # DotDot -> Front(up)
                   [] OTHER -> Append(up, x)
\* What is left of the first members.
Stacks(dirs) == LET upto[n \in 0..Len(dirs)] == IF n = 0 THEN <<>> ELSE Pushed(upto[n - 1], dirs[n]) IN upto
Reduced(relative, dirs) == IF relative /\ Stacks(dirs)[Len(dirs)] = <<>> THEN <<Dot>> ELSE Stacks(dirs)[Len(dirs)]

Path(text) == LET relative == Head(text) # Empty
              IN [relative |-> relative, dirs |-> Reduced(relative, Members(text))]
Display(path) == IF path.relative THEN path.dirs
                 ELSE IF path.dirs = <<>> THEN <<Empty, Empty>> ELSE <<Empty>> \o path.dirs

\* The caller has checked that the path added is relative.  Its "." are left out
\* before and by the reduction.
Plus(path, arg) == [path EXCEPT !.dirs = Reduced(path.relative, path.dirs \o arg.dirs)]

Seen(text, sensitive) == IF sensitive THEN text ELSE [i \in DOMAIN text |-> Upper[text[i]]]
\* Displayed, a path is a prefix of the other, up to a slash or to the end.
IsSubdirOf(me, you) == Len(you) =< Len(me) /\ \A i \in DOMAIN you : me[i] = you[i]

-----------------------------------------------------------------------------
(* A list of files: what the constructor makes of a listing file, and the  *)
(* search of is_covered.                                                   *)

\* The order of strings of my_char.
Before(s, t) ==
  \E n \in 0..Len(s) :
    /\ n =< Len(t) /\ \A i \in 1..n : s[i] = t[i]
    /\ \/ n = Len(s) /\ n < Len(t)
       \/ n < Len(s) /\ n < Len(t) /\ s[n + 1] < t[n + 1]

\* A line is kept as it is when it is absolute.
Completed(line, from) == IF Path(line).relative THEN Display(Plus(from, Path(line))) ELSE line
\* A vector of strings, sorted and without duplicates.
Sorted(entries) == {s \in [1..Cardinality(entries) -> entries] :
                      \A i, j \in DOMAIN s : i < j => Before(s[i], s[j])}

\* Where relative lines and options may be: what dar works on, or the root of
\* an archive.
Anchored(from) == from.relative => IsSubdirOf(Display(from), <<Root>>)

Refused == task' = "refused" /\ UNCHANGED <<searchVars, ruleVars, chemin>>

ReadList(file, where, sensitive, include) ==
  LET from == Path(Seen(where, sensitive))
      lines == {Seen(line, sensitive) : line \in file}
  IN /\ task = "list"
     /\ IF ~Anchored(from) \/ \E line \in lines : ~IsPath(line)
        THEN Refused
        ELSE /\ \E s \in Sorted({Completed(line, from) : line \in lines}) : contenu' = s
             /\ case_s' = sensitive /\ including' = include
             /\ task' = "ready"
             /\ UNCHANGED <<target, min, max, covered, ruleVars, chemin>>

At(i) == contenu[i + 1]

IsCovered(expression) ==
  /\ task \in {"ready", "answered"}
  /\ target' = Seen(expression, case_s)
  /\ IF contenu = <<>> THEN task' = "answered" /\ covered' = FALSE /\ UNCHANGED <<min, max>>
     ELSE task' = "searching" /\ min' = 0 /\ max' = Len(contenu) - 1 /\ UNCHANGED covered
  /\ UNCHANGED <<contenu, case_s, including, ruleVars, chemin>>

Halve ==
  LET tmp == (min + max) \div 2
  IN /\ task = "searching" /\ max - min > 1
     /\ min' = IF Before(At(tmp), target) \/ At(tmp) = target THEN tmp ELSE min
     /\ max' = IF Before(At(tmp), target) THEN max ELSE tmp
     /\ UNCHANGED <<task, contenu, case_s, including, target, covered, ruleVars, chemin>>

\* A list of files to include also covers the directories that lead to them.
Leads(line) == IsSubdirOf(Seen(Display(Path(line)), case_s), target)

Answer ==
  /\ task = "searching" /\ max - min =< 1
  /\ covered' = (At(max) = target \/ At(min) = target \/ (including /\ Leads(At(max))))
  /\ task' = "answered"
  /\ UNCHANGED <<contenu, case_s, including, target, min, max, ruleVars, chemin>>

-----------------------------------------------------------------------------
(* The mask of several options.  A mask put in another is cloned, and only *)
(* asked what it covers: it stands for the set of what it covers.          *)

None == [kind |-> "none", of |-> <<>>]
One(m) == [kind |-> "one", of |-> <<m>>]
\* What ou_mask and et_mask cover; neither is asked when it is empty.
Extent(m) == IF m.kind = "et" THEN {e \in Candidates : \A i \in DOMAIN m.of : e \in m.of[i]}
             ELSE {e \in Candidates : \E i \in DOMAIN m.of : e \in m.of[i]}
NotMask(m) == Candidates \ m
BoolMask == Candidates
AddMask(m, toadd) == [m EXCEPT !.of = Append(@, toadd)]

\* Masks of names are asked about the last member only.
SimpleMask(rule) == {e \in Candidates : Seen(<<Last(e)>>, rule.case_s) = Seen(rule.mask, rule.case_s)}
\* The place of a mask of paths: the argument is below the prefix.
Place(rule) == Seen(Display(Plus(Path(prefix), Path(rule.mask))), rule.case_s)
SimplePathMask(rule) ==
  {e \in Candidates : LET ch == Seen(e, rule.case_s) IN IsSubdirOf(ch, Place(rule)) \/ IsSubdirOf(Place(rule), ch)}
\* The path, and what matches the path followed by a slash and a star.
ExcludePathOrdered(rule) == {e \in Candidates : IsSubdirOf(Seen(e, rule.case_s), Place(rule))}
ExcludePathUnordered(rule) == {e \in Candidates : Seen(e, rule.case_s) = Place(rule)}

MakeIncludeMask(rule) == CASE kind.about = "name" -> SimpleMask(rule)
                           [] kind.about = "path" -> SimplePathMask(rule)
                           [] kind.about = "hook" -> ExcludePathUnordered(rule)
MakeExcludeMask(rule) == CASE kind.about = "name" -> SimpleMask(rule)
                           [] kind.about = "path" /\ kind.ordered -> ExcludePathOrdered(rule)
                           [] OTHER -> ExcludePathUnordered(rule)
MakeMask(rule) == IF rule.included THEN MakeIncludeMask(rule) ELSE MakeExcludeMask(rule)

\* The argument of a mask of paths is a path, and it is relative.
Usable(rule) == kind.about = "name" \/ (IsPath(rule.mask) /\ Path(rule.mask).relative)

GiveOptions(about, ordered, where, options) ==
  /\ task = "options" /\ Anchored(Path(where))
  /\ kind' = [about |-> about, ordered |-> ordered]
  /\ prefix' = where /\ listing' = options
  /\ task' = IF ordered THEN "ordered" ELSE "unordered"
  /\ UNCHANGED <<seen, chain, ret_mask, searchVars, chemin>>

Taken == /\ listing' = Tail(listing) /\ seen' = Append(seen, Head(listing))
         /\ UNCHANGED <<task, kind, prefix, searchVars, chemin>>

RefuseOption == /\ task \in {"ordered", "unordered"} /\ listing # <<>> /\ ~Usable(Head(listing))
                /\ Refused

\* The first mask stands alone; another one goes to the chain in use when it
\* is of its kind, and to a new chain around the mask so far when it is not.
\* Faulty: a mask goes to the chain in use, whatever it is.
ChainIncludeAny == LET toadd == MakeMask(Head(listing))
                   IN IF ret_mask = None THEN ret_mask' = One(toadd) /\ UNCHANGED chain
                      ELSE /\ ret_mask' = IF chain # "none" THEN AddMask(ret_mask, toadd)
                                          ELSE [kind |-> "ou", of |-> <<Extent(ret_mask), toadd>>]
                           /\ chain' = "ou"
ChainInclude == LET toadd == MakeMask(Head(listing))
                IN IF ret_mask = None THEN ret_mask' = One(toadd) /\ UNCHANGED chain
                   ELSE /\ ret_mask' = IF chain = "ou" THEN AddMask(ret_mask, toadd)
                                       ELSE [kind |-> "ou", of |-> <<Extent(ret_mask), toadd>>]
                        /\ chain' = "ou"
ChainExclude == LET toadd == NotMask(MakeMask(Head(listing)))
                IN IF ret_mask = None THEN ret_mask' = One(toadd) /\ UNCHANGED chain
                   ELSE /\ ret_mask' = IF chain = "et" THEN AddMask(ret_mask, toadd)
                                       ELSE [kind |-> "et", of |-> <<Extent(ret_mask), toadd>>]
                        /\ chain' = "et"

TakeOrdered == /\ task = "ordered" /\ listing # <<>> /\ Usable(Head(listing))
               /\ IF Head(listing).included THEN ChainInclude ELSE ChainExclude
               /\ Taken

EndOrdered == /\ task = "ordered" /\ listing = <<>>
              /\ ret_mask' = IF ret_mask = None THEN One(BoolMask) ELSE ret_mask
              /\ task' = "made"
              /\ UNCHANGED <<kind, prefix, listing, seen, chain, searchVars, chemin>>

\* The masks added to tmp_include, and to tmp_exclude.
Included == {i \in DOMAIN seen : seen[i].included}
Excluded == DOMAIN seen \ Included

TakeUnordered == /\ task = "unordered" /\ listing # <<>> /\ Usable(Head(listing))
                 /\ Taken /\ UNCHANGED <<chain, ret_mask>>

EndUnordered ==
  LET include == IF Included = {} THEN BoolMask ELSE UNION {MakeMask(seen[i]) : i \in Included}
      exclude == UNION {MakeMask(seen[i]) : i \in Excluded}
  IN /\ task = "unordered" /\ listing = <<>>
     /\ ret_mask' = [kind |-> "et", of |-> IF Excluded = {} THEN <<include>> ELSE <<include, NotMask(exclude)>>]
     /\ task' = "made"
     /\ UNCHANGED <<kind, prefix, listing, seen, chain, searchVars, chemin>>

-----------------------------------------------------------------------------
(* A path that members are added to and taken from. *)

\* An absolute path is refused.
PlusEqual(text) ==
  /\ task = "path" /\ IsPath(text) /\ Path(text).relative
  /\ Len(chemin.dirs) + Len(text) =< MaxMembers
  /\ chemin' = Plus(chemin, Path(text))
  /\ UNCHANGED <<task, searchVars, ruleVars>>
\* A relative path keeps one member.
Pop == /\ task = "path" /\ Len(chemin.dirs) > (IF chemin.relative THEN 1 ELSE 0)
       /\ chemin' = [chemin EXCEPT !.dirs = Front(@)]
       /\ UNCHANGED <<task, searchVars, ruleVars>>
\* An absolute path gives its slash, and stays absolute.
PopFront == /\ task = "path" /\ Len(chemin.dirs) > (IF chemin.relative THEN 1 ELSE 0)
            /\ chemin' = IF chemin.relative THEN [chemin EXCEPT !.dirs = Tail(@)] ELSE chemin
            /\ UNCHANGED <<task, searchVars, ruleVars>>

-----------------------------------------------------------------------------
MaskInit == /\ task \in {"list", "options", "path"}
            /\ contenu = <<>> /\ case_s = TRUE /\ including = TRUE
            /\ target = <<Empty>> /\ min = 0 /\ max = 0 /\ covered = FALSE
            /\ kind = [about |-> "name", ordered |-> TRUE] /\ prefix = <<Empty, Empty>>
            /\ listing = <<>> /\ seen = <<>> /\ chain = "none" /\ ret_mask = None
            /\ chemin \in IF task = "path" THEN {Path(where) : where \in Origins} ELSE {Path(<<Empty, Empty>>)}

ListNext == \/ \E file \in Files, where \in Origins, sensitive, include \in BOOLEAN :
                 ReadList(file, where, sensitive, include)
            \/ \E expression \in Candidates : IsCovered(expression)
            \/ Halve \/ Answer
OptionsNext == \/ \E about \in Kinds, ordered \in BOOLEAN, where \in Origins, options \in Listings :
                    GiveOptions(about, ordered, where, options)
               \/ RefuseOption
               \/ TakeOrdered \/ EndOrdered
               \/ TakeUnordered \/ EndUnordered
PathNext == \/ \E text \in Added : PlusEqual(text)
            \/ Pop \/ PopFront

MaskNext == ListNext \/ OptionsNext \/ PathNext

MaskSpec == MaskInit /\ [][MaskNext]_maskVars

-----------------------------------------------------------------------------
(* Properties.                                                             *)

Listed == \E i \in DOMAIN contenu : contenu[i] = target
\* Entries that a path displays as they are: not "/a/", nor "/a/../b".
Plain == \A i \in DOMAIN contenu : Seen(Display(Path(contenu[i])), case_s) = contenu[i]

\* mask_list::is_covered finds what is listed; what else it covers leads to an
\* entry of a list to include; and if entries are plain it covers all that leads
\* to an entry, the first one excepted when there are others: the search may
\* end below it, and looks at the entry after.
SearchIsExact ==
  task = "answered" =>
    /\ Listed => covered
    /\ covered => Listed \/ (including /\ \E i \in DOMAIN contenu : Leads(contenu[i]))
    /\ Plain => (covered <=> \/ Listed
                             \/ /\ including
                                /\ \E i \in DOMAIN contenu : (i > 1 \/ Len(contenu) = 1) /\ Leads(contenu[i]))

Matches(rule, e) == e \in MakeMask(rule)
LastRuleSays(e) ==
  IF \E i \in DOMAIN seen : Matches(seen[i], e)
  THEN \E i \in DOMAIN seen : /\ seen[i].included /\ Matches(seen[i], e)
                              /\ \A j \in DOMAIN seen : j > i => ~Matches(seen[j], e)
  ELSE seen = <<>> \/ ~seen[1].included

\* make_ordered_mask: the last option that is about a path decides of it, the
\* first option of what none is about, as man/dar.1 says of -am, however the
\* masks are nested.
OrderedIsTheLastRule ==
  kind.ordered /\ (task = "made" \/ seen # <<>>) => Extent(ret_mask) = {e \in Candidates : LastRuleSays(e)}

\* make_ordered_mask and make_unordered_mask: the directories that lead to a path
\* which is covered are covered too, so that dar comes to it; without -am one of
\* them may have been pruned.
WhatIsCoveredIsReached ==
  task = "made" /\ kind.about = "path" =>
    \A e \in Extent(ret_mask), dir \in Candidates :
      IsSubdirOf(e, dir) => \/ dir \in Extent(ret_mask)
                            \/ (~kind.ordered /\ \E i \in Excluded : Matches(seen[i], dir))

\* The masks of the command line and of listing files: see each conjunct.
MasksSelect == SearchIsExact /\ OrderedIsTheLastRule /\ WhatIsCoveredIsReached

\* Class path: what a path displays is a path, and this path, whatever was added
\* to it and taken from it.
PathReadsBack == IsPath(Display(chemin)) /\ Path(Display(chemin)) = chemin
=============================================================================
