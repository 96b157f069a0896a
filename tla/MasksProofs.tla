---------------------------- MODULE MasksProofs ----------------------------
(***************************************************************************)
(* What the masks made of options and of listing files select, for every   *)
(* list, every option and every text they are asked about.                 *)
(***************************************************************************)
EXTENDS Masks, SequenceTheorems, FiniteSetTheorems, WellFoundedInduction, TLAPS

-----------------------------------------------------------------------------
(* Numbers.                                                                *)

\* A set of numbers has a smallest one.
LEMMA Smallest ==
  ASSUME NEW T \in SUBSET Nat, T # {}
  PROVE  \E m \in T : \A k \in T : m =< k
<1> DEFINE R == OpToRel(<, Nat)
<1>1. IsWellFoundedOn(R, Nat)  BY NatLessThanWellFounded
<1>2. R = {ss \in Nat \X Nat : ss[1] < ss[2]}  BY DEF OpToRel
<1> HIDE DEF R
<1>3. PICK x \in T : \A y \in T : ~ (<<y, x>> \in R)  BY <1>1, WFMin
<1>4. \A y \in T : ~(y < x)  BY <1>2, <1>3
<1>. QED BY <1>4

\* A set of positions has a last one.
LEMMA Greatest ==
  ASSUME NEW n \in Nat, NEW T \in SUBSET (1..n), T # {}
  PROVE  \E m \in T : \A k \in T : k =< m
<1> DEFINE U == {n - k : k \in T}
<1>1. U \in SUBSET Nat /\ U # {}
  <2>1. \A k \in T : k \in 1..n /\ n - k \in Nat  OBVIOUS
  <2>. QED BY <2>1
<1>2. PICK u \in U : \A v \in U : u =< v  BY <1>1, Smallest
<1>3. PICK m \in T : u = n - m  BY <1>2
<1>4. \A k \in T : u =< n - k  BY <1>2
<1>5. m \in 1..n /\ \A k \in T : k \in 1..n  OBVIOUS
<1>. QED BY <1>3, <1>4, <1>5

-----------------------------------------------------------------------------
(* The order of strings of my_char.                                        *)

LEMMA Elements ==
  ASSUME NEW s \in Seq(Nat), NEW i \in Nat, i < Len(s)
  PROVE  s[i + 1] \in Nat
<1>1. i + 1 \in 1..Len(s)  OBVIOUS
<1>. QED BY <1>1

LEMMA BeforeFrom ==
  ASSUME NEW s \in Seq(Nat), NEW t \in Seq(Nat), NEW n \in Nat, n =< Len(s), n < Len(t),
         \A i \in 1..n : s[i] = t[i],
         n < Len(s) => s[n + 1] < t[n + 1]
  PROVE  Before(s, t)
<1>1. n \in 0..Len(s)  OBVIOUS
<1>. QED BY <1>1 DEF Before

LEMMA NotBeforeItself ==
  ASSUME NEW s \in Seq(Nat)
  PROVE  ~Before(s, s)
BY DEF Before

\* Two strings are equal, or one of them is before the other.
LEMMA OneIsBefore ==
  ASSUME NEW s \in Seq(Nat), NEW t \in Seq(Nat), s # t
  PROVE  Before(s, t) \/ Before(t, s)
<1> DEFINE D == {n \in Nat : \/ n = Len(s) \/ n = Len(t)
                             \/ n < Len(s) /\ n < Len(t) /\ s[n + 1] # t[n + 1]}
<1>1. Len(s) \in D /\ Len(t) \in D  OBVIOUS
<1>2. PICK m \in D : \A k \in D : m =< k  BY <1>1, Smallest
<1>3. m \in Nat /\ m =< Len(s) /\ m =< Len(t)  BY <1>1, <1>2
<1>4. ASSUME NEW i \in 1..m PROVE s[i] = t[i]
  <2>1. i - 1 \in Nat /\ i - 1 < m  BY <1>3
  <2>2. i - 1 \notin D  BY <1>2, <2>1
  <2>. QED BY <1>3, <2>1, <2>2
<1>5. CASE m = Len(s) /\ m = Len(t)
  <2>1. s = t  BY <1>4, <1>5, SeqEqual
  <2>. QED BY <2>1
<1>6. CASE m = Len(s) /\ m < Len(t)
  <2>1. Before(s, t)  BY <1>3, <1>4, <1>6 DEF Before
  <2>. QED BY <2>1
<1>7. CASE m < Len(s) /\ m = Len(t)
  <2>1. Before(t, s)  BY <1>3, <1>4, <1>7 DEF Before
  <2>. QED BY <2>1
<1>8. CASE m < Len(s) /\ m < Len(t)
  <2>1. s[m + 1] # t[m + 1]  BY <1>2, <1>8
  <2>2. s[m + 1] \in Nat /\ t[m + 1] \in Nat  BY <1>3, <1>8
  <2>3. CASE s[m + 1] < t[m + 1]
    <3>1. Before(s, t)  BY <1>3, <1>4, <1>8, <2>3 DEF Before
    <3>. QED BY <3>1
  <2>4. CASE t[m + 1] < s[m + 1]
    <3>1. Before(t, s)  BY <1>3, <1>4, <1>8, <2>4 DEF Before
    <3>. QED BY <3>1
  <2>. QED BY <2>1, <2>2, <2>3, <2>4
<1>. QED BY <1>3, <1>5, <1>6, <1>7, <1>8

LEMMA BeforeTransitive ==
  ASSUME NEW s \in Seq(Nat), NEW t \in Seq(Nat), NEW u \in Seq(Nat), Before(s, t), Before(t, u)
  PROVE  Before(s, u)
<1>1. PICK n \in 0..Len(s) :
        /\ n =< Len(t) /\ \A i \in 1..n : s[i] = t[i]
        /\ \/ n = Len(s) /\ n < Len(t)
           \/ n < Len(s) /\ n < Len(t) /\ s[n + 1] < t[n + 1]
  BY DEF Before
<1>2. PICK m \in 0..Len(t) :
        /\ m =< Len(u) /\ \A i \in 1..m : t[i] = u[i]
        /\ \/ m = Len(t) /\ m < Len(u)
           \/ m < Len(t) /\ m < Len(u) /\ t[m + 1] < u[m + 1]
  BY DEF Before
<1>3. CASE n =< m
  <2>1. \A i \in 1..n : s[i] = u[i]  BY <1>1, <1>2, <1>3
  <2>2. n \in Nat /\ m \in Nat /\ n < Len(t) /\ n < Len(u) /\ n =< Len(s)  BY <1>1, <1>2, <1>3
  <2>3. CASE n = Len(s)
    <3>1. ~(n < Len(s))  BY <2>2, <2>3
    <3>. QED BY <2>1, <2>2, <3>1, BeforeFrom
  <2>4. CASE n < Len(s)
    <3>1. /\ s[n + 1] \in Nat /\ t[n + 1] \in Nat /\ u[n + 1] \in Nat
          /\ s[n + 1] < t[n + 1]
      BY <1>1, <2>2, <2>4, Elements
    <3>2. t[n + 1] =< u[n + 1]
      <4>1. CASE n < m
        <5>1. n + 1 \in 1..m  BY <2>2, <4>1
        <5>2. t[n + 1] = u[n + 1]  BY <1>2, <5>1
        <5>. QED BY <3>1, <5>2
      <4>2. CASE n = m
        <5>1. t[n + 1] < u[n + 1]  BY <1>2, <2>2, <4>2
        <5>. QED BY <3>1, <5>1
      <4>. QED BY <1>3, <2>2, <4>1, <4>2
    <3>3. s[n + 1] < u[n + 1]  BY <3>1, <3>2
    <3>. QED BY <2>1, <2>2, <3>3, BeforeFrom
  <2>. QED BY <1>1, <2>3, <2>4
<1>4. CASE m < n
  <2>1. \A i \in 1..m : s[i] = u[i]  BY <1>1, <1>2, <1>4
  <2>2. m < Len(s) /\ m < Len(t) /\ m < Len(u)  BY <1>1, <1>2, <1>4
  <2>3. s[m + 1] = t[m + 1]  BY <1>1, <1>2, <1>4
  <2>4. s[m + 1] < u[m + 1]  BY <1>2, <2>2, <2>3
  <2>5. m \in 0..Len(s) /\ m =< Len(u)  BY <2>2
  <2>. QED BY <2>1, <2>2, <2>4, <2>5 DEF Before
<1>. QED BY <1>1, <1>2, <1>3, <1>4

\* What is below a directory comes after it.
LEMMA DirectoryBefore ==
  ASSUME NEW s \in Seq(Nat), NEW u \in Seq(Nat), IsSubdirOf(u, s), u # s
  PROVE  Before(s, u)
<1>1. Len(s) =< Len(u) /\ \A i \in 1..Len(s) : s[i] = u[i]  BY DEF IsSubdirOf
<1>2. Len(s) # Len(u)
  <2>1. SUFFICES ASSUME Len(s) = Len(u) PROVE FALSE  OBVIOUS
  <2>2. s = u  BY <1>1, <2>1, SeqEqual
  <2>. QED BY <2>2
<1>. QED BY <1>1, <1>2 DEF Before

\* What comes between a directory and something below it is below it too.
LEMMA BelowIsConvex ==
  ASSUME NEW s \in Seq(Nat), NEW t \in Seq(Nat), NEW u \in Seq(Nat),
         IsSubdirOf(u, s), Before(s, t), Before(t, u)
  PROVE  IsSubdirOf(t, s)
<1>0. Len(s) =< Len(u) /\ \A i \in 1..Len(s) : s[i] = u[i]  BY DEF IsSubdirOf
<1>1. PICK n \in 0..Len(s) :
        /\ n =< Len(t) /\ \A i \in 1..n : s[i] = t[i]
        /\ \/ n = Len(s) /\ n < Len(t)
           \/ n < Len(s) /\ n < Len(t) /\ s[n + 1] < t[n + 1]
  BY DEF Before
<1>2. PICK m \in 0..Len(t) :
        /\ m =< Len(u) /\ \A i \in 1..m : t[i] = u[i]
        /\ \/ m = Len(t) /\ m < Len(u)
           \/ m < Len(t) /\ m < Len(u) /\ t[m + 1] < u[m + 1]
  BY DEF Before
<1>3. CASE n = Len(s)  BY <1>1, <1>3 DEF IsSubdirOf
<1>4. CASE n < Len(s)
  <2>1. n < Len(t) /\ s[n + 1] < t[n + 1] /\ s[n + 1] = u[n + 1]  BY <1>0, <1>1, <1>4
  <2>2. s[n + 1] \in Nat /\ t[n + 1] \in Nat  BY <1>4, <2>1, Elements
  <2>3. ~(n < m)
    <3>1. SUFFICES ASSUME n < m PROVE FALSE  OBVIOUS
    <3>2. t[n + 1] = u[n + 1]  BY <1>1, <1>2, <3>1
    <3>. QED BY <2>1, <2>2, <3>2
  <2>4. m < Len(t) /\ t[m + 1] < u[m + 1]  BY <1>1, <1>2, <2>1, <2>3
  <2>5. u[m + 1] = s[m + 1]  BY <1>0, <1>1, <1>2, <1>4, <2>3
  <2>6. s[m + 1] \in Nat /\ t[m + 1] \in Nat
    <3>1. m < Len(s)  BY <1>4, <2>3
    <3>. QED BY <2>4, <3>1, Elements
  <2>7. m = n \/ t[m + 1] = s[m + 1]  BY <1>1, <1>2, <2>3
  <2>. QED BY <2>1, <2>2, <2>4, <2>5, <2>6, <2>7
<1>. QED BY <1>1, <1>3, <1>4

-----------------------------------------------------------------------------
(* Paths.                                                                  *)

\* The stacks that the members of a path are reduced through are what their
\* definition says, for every number of members.
LEMMA StacksExist ==
  ASSUME NEW dirs, NEW N \in Nat
  PROVE  \E g : g = [n \in 0..N |-> IF n = 0 THEN <<>> ELSE Pushed(g[n - 1], dirs[n])]
<1> DEFINE P(m, g) == g = [n \in 0..m |-> IF n = 0 THEN <<>> ELSE Pushed(g[n - 1], dirs[n])]
           Wrong == {m \in Nat : ~\E g : P(m, g)}
<1>1. SUFFICES ASSUME Wrong # {} PROVE FALSE
  <2>1. N \notin Wrong  BY <1>1
  <2>. QED BY <2>1
<1>2. PICK m \in Wrong : \A k \in Wrong : m =< k  BY <1>1, Smallest
<1>3. CASE m = 0
  <2>1. P(0, [n \in 0..0 |-> <<>>])  OBVIOUS
  <2>. QED BY <1>2, <1>3, <2>1
<1>4. CASE m # 0
  <2>1. m \in Nat /\ m - 1 \in Nat /\ m - 1 \notin Wrong  BY <1>2, <1>4
  <2>2. PICK g : P(m - 1, g)  BY <2>1
  <2> DEFINE h == [n \in 0..m |-> IF n = m THEN Pushed(g[m - 1], dirs[m]) ELSE g[n]]
  <2>3. DOMAIN h = 0..m /\ DOMAIN g = 0..(m - 1)  BY <2>2
  <2>4. ASSUME NEW n \in 0..m PROVE h[n] = IF n = 0 THEN <<>> ELSE Pushed(h[n - 1], dirs[n])
    <3>1. CASE n = m
      <4>1. h[n - 1] = g[m - 1] /\ h[n] = Pushed(g[m - 1], dirs[m])  BY <2>1, <3>1
      <4>. QED BY <1>4, <3>1, <4>1
    <3>2. CASE n # m
      <4>1. n \in 0..(m - 1)  BY <2>1, <3>2
      <4>2. h[n] = g[n]  BY <3>2
      <4>3. n # 0 => h[n - 1] = g[n - 1]  BY <2>1, <4>1
      <4>4. g[n] = IF n = 0 THEN <<>> ELSE Pushed(g[n - 1], dirs[n])  BY <2>2, <4>1
      <4>. QED BY <4>2, <4>3, <4>4
    <3>. QED BY <3>1, <3>2
  <2>5. P(m, h)
    <3> HIDE DEF h
    <3>1. h = [n \in DOMAIN h |-> h[n]]  BY DEF h
    <3>. QED BY <2>3, <2>4, <3>1
  <2>. QED BY <1>2, <2>5
<1>. QED BY <1>3, <1>4

LEMMA StacksAre ==
  ASSUME NEW dirs, Len(dirs) \in Nat
  PROVE  /\ Stacks(dirs)[0] = <<>>
         /\ \A n \in 1..Len(dirs) : Stacks(dirs)[n] = Pushed(Stacks(dirs)[n - 1], dirs[n])
<1>1. \E g : g = [n \in 0..Len(dirs) |-> IF n = 0 THEN <<>> ELSE Pushed(g[n - 1], dirs[n])]
  BY StacksExist
<1>2. Stacks(dirs) = [n \in 0..Len(dirs) |-> IF n = 0 THEN <<>> ELSE Pushed(Stacks(dirs)[n - 1], dirs[n])]
  BY <1>1 DEF Stacks
<1> DEFINE f == Stacks(dirs)
<1> HIDE DEF f
<1>3. f = [n \in 0..Len(dirs) |-> IF n = 0 THEN <<>> ELSE Pushed(f[n - 1], dirs[n])]  BY <1>2 DEF f
<1>4. f[0] = <<>> /\ \A n \in 1..Len(dirs) : f[n] = Pushed(f[n - 1], dirs[n])  BY <1>3
<1>. QED BY <1>4 DEF f

LEMMA PushedTyped ==
  ASSUME NEW up \in Seq(Names), NEW x \in Names
  PROVE  Pushed(up, x) \in Seq(Names)
<1>1. up # <<>> => Front(up) \in Seq(Names)  BY DEF Front
<1>2. Append(up, x) \in Seq(Names)  OBVIOUS
<1>. QED BY <1>1, <1>2 DEF Pushed

LEMMA ReducedTyped ==
  ASSUME NEW dirs \in Seq(Names), NEW relative \in BOOLEAN
  PROVE  Reduced(relative, dirs) \in Seq(Names)
<1> DEFINE Wrong == {m \in 0..Len(dirs) : Stacks(dirs)[m] \notin Seq(Names)}
<1>1. Len(dirs) \in Nat /\ \A n \in 1..Len(dirs) : dirs[n] \in Names  OBVIOUS
<1>2. Wrong = {}
  <2>1. SUFFICES ASSUME Wrong # {} PROVE FALSE  OBVIOUS
  <2>2. PICK m \in Wrong : \A k \in Wrong : m =< k
    <3>1. Wrong \in SUBSET Nat  BY <1>1
    <3>. QED BY <2>1, <3>1, Smallest
  <2>3. m \in 0..Len(dirs) /\ Stacks(dirs)[m] \notin Seq(Names)  BY <2>2
  <2>4. m # 0
    <3>1. Stacks(dirs)[0] = <<>> /\ <<>> \in Seq(Names)  BY <1>1, StacksAre
    <3>. QED BY <2>3, <3>1
  <2>5. m \in 1..Len(dirs) /\ m - 1 \in 0..Len(dirs) /\ m - 1 < m  BY <1>1, <2>3, <2>4
  <2>6. Stacks(dirs)[m - 1] \in Seq(Names)
    <3>1. m - 1 \notin Wrong  BY <2>2, <2>5
    <3>. QED BY <2>5, <3>1
  <2>7. Stacks(dirs)[m] = Pushed(Stacks(dirs)[m - 1], dirs[m])  BY <1>1, <2>5, StacksAre
  <2>. QED BY <1>1, <2>3, <2>5, <2>6, <2>7, PushedTyped
<1>3. Len(dirs) \in 0..Len(dirs)  BY <1>1
<1>4. Stacks(dirs)[Len(dirs)] \in Seq(Names)  BY <1>2, <1>3
<1>5. <<Dot>> \in Seq(Names)  BY MaskAssumption
<1>. QED BY <1>4, <1>5 DEF Reduced

LEMMA MembersTyped ==
  ASSUME NEW text \in Text
  PROVE  Members(text) \in Seq(Names)
<1> DEFINE s == IF Head(text) = Empty THEN Tail(text) ELSE text
<1>1. s \in Seq(Names)  BY DEF Text
<1>2. s # <<>> => Front(s) \in Seq(Names)  BY <1>1 DEF Front
<1> HIDE DEF s
<1>3. Members(text) = IF s # <<>> /\ Last(s) = Empty THEN Front(s) ELSE s  BY DEF Members, s
<1>. QED BY <1>1, <1>2, <1>3

LEMMA PathTyped ==
  ASSUME NEW text \in Text
  PROVE  Path(text) \in [relative : BOOLEAN, dirs : Seq(Names)]
<1>1. (Head(text) # Empty) \in BOOLEAN  OBVIOUS
<1>2. Reduced(Head(text) # Empty, Members(text)) \in Seq(Names)  BY <1>1, MembersTyped, ReducedTyped
<1>. QED BY <1>1, <1>2 DEF Path

-----------------------------------------------------------------------------
(* The search of mask_list::is_covered.                                    *)

ListTyped == /\ contenu \in Seq(Text) /\ target \in Text
             /\ case_s \in BOOLEAN /\ including \in BOOLEAN /\ covered \in BOOLEAN
             /\ min \in Nat /\ max \in Nat
ListSorted == \A i, j \in DOMAIN contenu : i < j => Before(contenu[i], contenu[j])
\* What is below min is before the text searched for, what is above max after it.
Searching ==
  task = "searching" =>
    /\ min =< max /\ max < Len(contenu)
    /\ min = 0 \/ Before(At(min), target) \/ At(min) = target
    /\ max = Len(contenu) - 1 \/ Before(target, At(max)) \/ At(max) = target
    /\ max = 0 => Len(contenu) = 1
ListInv == ListTyped /\ ListSorted /\ Searching /\ SearchIsExact

LEMMA TextsAreNumbers == Text \subseteq Seq(Nat)
<1>1. Names \subseteq Nat  BY MaskAssumption
<1>2. ASSUME NEW s \in Seq(Names) PROVE s \in Seq(Nat)
  <2>1. Len(s) \in Nat /\ s \in [1..Len(s) -> Names]  OBVIOUS
  <2>2. s \in [1..Len(s) -> Nat]  BY <1>1, <2>1
  <2>. QED BY <2>1, <2>2, SeqDef
<1>. QED BY <1>2 DEF Text

LEMMA SeenIsText ==
  ASSUME NEW text \in Text, NEW sensitive \in BOOLEAN
  PROVE  Seen(text, sensitive) \in Text
<1>1. text \in Seq(Names) /\ Len(text) \in Nat /\ Len(text) > 0  BY DEF Text
<1>2. CASE sensitive  BY <1>2 DEF Seen
<1>3. CASE ~sensitive
  <2>1. Seen(text, sensitive) = [i \in 1..Len(text) |-> Upper[text[i]]]  BY <1>1, <1>3 DEF Seen
  <2>2. \A i \in 1..Len(text) : Upper[text[i]] \in Names
    <3>1. \A i \in 1..Len(text) : text[i] \in Names  BY <1>1
    <3>2. Upper \in [Names -> Names]  BY MaskAssumption
    <3>. QED BY <3>1, <3>2
  <2>3. Seen(text, sensitive) \in Seq(Names) /\ Len(Seen(text, sensitive)) = Len(text)  BY <1>1, <2>1, <2>2
  <2>. QED BY <1>1, <2>3 DEF Text
<1>. QED BY <1>2, <1>3

LEMMA DisplayTyped ==
  ASSUME NEW path \in [relative : BOOLEAN, dirs : Seq(Names)], path.relative => path.dirs # <<>>
  PROVE  Display(path) \in Text
<1>1. <<Empty, Empty>> \in Text /\ <<Empty>> \in Seq(Names)  BY MaskAssumption DEF Text
<1> DEFINE dirs == path.dirs
<1>2. dirs \in Seq(Names)  OBVIOUS
<1> HIDE DEF dirs
<1>3. <<Empty>> \o dirs \in Text
  <2>1. <<Empty>> \o dirs \in Seq(Names) /\ Len(<<Empty>> \o dirs) = 1 + Len(dirs) /\ Len(dirs) \in Nat  BY <1>1, <1>2
  <2>. QED BY <2>1 DEF Text
<1>. QED BY <1>1, <1>2, <1>3 DEF Display, Text, dirs

LEMMA PlusTyped ==
  ASSUME NEW path \in [relative : BOOLEAN, dirs : Seq(Names)], NEW arg \in [relative : BOOLEAN, dirs : Seq(Names)]
  PROVE  /\ Plus(path, arg) \in [relative : BOOLEAN, dirs : Seq(Names)]
         /\ Plus(path, arg).relative => Plus(path, arg).dirs # <<>>
<1>1. path.dirs \o arg.dirs \in Seq(Names) /\ path.relative \in BOOLEAN  OBVIOUS
<1>2. Reduced(path.relative, path.dirs \o arg.dirs) \in Seq(Names)  BY <1>1, ReducedTyped
<1>3. path.relative => Reduced(path.relative, path.dirs \o arg.dirs) # <<>>  BY DEF Reduced
<1>. QED BY <1>2, <1>3 DEF Plus

\* An entry is a text.
LEMMA CompletedTyped ==
  ASSUME NEW line \in Text, NEW from \in [relative : BOOLEAN, dirs : Seq(Names)]
  PROVE  Completed(line, from) \in Text
<1>1. Path(line) \in [relative : BOOLEAN, dirs : Seq(Names)]  BY PathTyped
<1>2. Display(Plus(from, Path(line))) \in Text  BY <1>1, PlusTyped, DisplayTyped
<1>. QED BY <1>2 DEF Completed

LEMMA SortedAreLists ==
  ASSUME NEW entries, IsFiniteSet(entries), entries \subseteq Text, NEW s \in Sorted(entries)
  PROVE  s \in Seq(Text)
<1>1. Cardinality(entries) \in Nat  BY FS_CardinalityType
<1>2. s \in [1..Cardinality(entries) -> Text]  BY DEF Sorted
<1>. QED BY <1>1, <1>2, SeqDef

\* Once nothing is between min and max, what is listed is at one of them, and what
\* is below the text searched for, apart from the first entry, makes max so.
LEMMA SearchEnds ==
  ASSUME ListTyped, ListSorted, Searching, task = "searching", max - min =< 1
  PROVE  /\ Listed <=> At(max) = target \/ At(min) = target
         /\ ~Listed => \A i \in DOMAIN contenu :
              (i > 1 \/ Len(contenu) = 1) /\ IsSubdirOf(contenu[i], target) => IsSubdirOf(At(max), target)
         /\ ~Listed /\ IsSubdirOf(At(max), target) => max + 1 > 1 \/ Len(contenu) = 1
<1>1. /\ min \in Nat /\ max \in Nat /\ min =< max /\ max < Len(contenu) /\ Len(contenu) \in Nat
      /\ DOMAIN contenu = 1..Len(contenu)
      /\ min + 1 \in DOMAIN contenu /\ max + 1 \in DOMAIN contenu
  BY DEF ListTyped, Searching
<1>2. target \in Seq(Nat) /\ \A i \in DOMAIN contenu : contenu[i] \in Seq(Nat)
  BY <1>1, TextsAreNumbers DEF ListTyped
<1>3. \A i, j \in DOMAIN contenu : i < j => Before(contenu[i], contenu[j])  BY DEF ListSorted
<1>4. min = 0 \/ Before(contenu[min + 1], target) \/ contenu[min + 1] = target  BY DEF Searching, At
<1>5. max = Len(contenu) - 1 \/ Before(target, contenu[max + 1]) \/ contenu[max + 1] = target  BY DEF Searching, At
<1>6. max = 0 => Len(contenu) = 1  BY DEF Searching
\* Nothing at or after the text is before min, nothing before max is at or after it.
<1>7. ASSUME NEW i \in DOMAIN contenu, contenu[i] = target \/ Before(target, contenu[i])
      PROVE  i >= min + 1
  <2>1. SUFFICES ASSUME i < min + 1 PROVE FALSE  BY <1>1
  <2>2. Before(contenu[i], contenu[min + 1])  BY <1>1, <1>3, <2>1
  <2>3. Before(contenu[min + 1], target) \/ contenu[min + 1] = target  BY <1>1, <1>4, <2>1
  <2>4. Before(contenu[i], target)  BY <1>1, <1>2, <2>2, <2>3, BeforeTransitive
  <2>5. CASE contenu[i] = target  BY <1>2, <2>4, <2>5, NotBeforeItself
  <2>6. CASE Before(target, contenu[i])
    <3>1. Before(target, target)  BY <1>2, <2>4, <2>6, BeforeTransitive
    <3>. QED BY <1>2, <3>1, NotBeforeItself
  <2>. QED BY <1>7, <2>5, <2>6
<1>8. ASSUME NEW i \in DOMAIN contenu, i > max + 1
      PROVE  Before(target, contenu[i])
  <2>1. Before(contenu[max + 1], contenu[i])  BY <1>1, <1>3, <1>8
  <2>2. max # Len(contenu) - 1
    <3>1. Len(contenu) \in Nat /\ max \in Nat /\ i \in Nat /\ i =< Len(contenu)  BY <1>1
    <3>. QED BY <1>8, <3>1
  <2>3. Before(target, contenu[max + 1]) \/ contenu[max + 1] = target  BY <1>5, <2>2
  <2>. QED BY <1>1, <1>2, <2>1, <2>3, BeforeTransitive
<1>9. Listed <=> At(max) = target \/ At(min) = target
  <2>1. ASSUME NEW i \in DOMAIN contenu, contenu[i] = target PROVE i = min + 1 \/ i = max + 1
    <3>1. i >= min + 1  BY <1>7, <2>1
    <3>2. ~(i > max + 1)
      <4>1. SUFFICES ASSUME i > max + 1 PROVE FALSE  OBVIOUS
      <4>2. Before(target, target)  BY <1>8, <2>1, <4>1
      <4>. QED BY <1>2, <4>2, NotBeforeItself
    <3>. QED BY <1>1, <3>1, <3>2
  <2>. QED BY <1>1, <2>1 DEF Listed, At
<1>10. ASSUME ~Listed, NEW i \in DOMAIN contenu, i > 1 \/ Len(contenu) = 1, IsSubdirOf(contenu[i], target)
       PROVE  IsSubdirOf(contenu[max + 1], target)
  <2>1. contenu[i] # target  BY <1>10 DEF Listed
  <2>2. Before(target, contenu[i])  BY <1>2, <1>10, <2>1, DirectoryBefore
  <2>3. i >= min + 1  BY <1>7, <2>2
  <2>4. CASE i = max + 1  BY <1>10, <2>4
  <2>5. CASE i > max + 1
    <3>1. Before(contenu[max + 1], contenu[i])  BY <1>1, <1>3, <2>5
    <3>2. max # Len(contenu) - 1
      <4>1. Len(contenu) \in Nat /\ max \in Nat /\ i \in Nat /\ i =< Len(contenu)  BY <1>1
      <4>. QED BY <2>5, <4>1
    <3>3. contenu[max + 1] # target  BY <1>1, <1>10 DEF Listed
    <3>4. Before(target, contenu[max + 1])  BY <1>5, <3>2, <3>3
    <3>. QED BY <1>1, <1>2, <1>10, <3>1, <3>4, BelowIsConvex
  <2>6. CASE i = min + 1 /\ i # max + 1
    <3>1. CASE min = 0
      <4>1. i = 1  BY <2>6, <3>1
      <4>2. Len(contenu) = 1  BY <1>10, <4>1
      <4>3. max = 0  BY <1>1, <4>2
      <4>. QED BY <2>6, <3>1, <4>3
    <3>2. CASE Before(contenu[min + 1], target)
      <4>1. Before(target, target)  BY <1>2, <2>2, <2>6, <3>2, BeforeTransitive
      <4>. QED BY <1>2, <4>1, NotBeforeItself
    <3>3. CASE contenu[min + 1] = target  BY <2>1, <2>6, <3>3
    <3>. QED BY <1>4, <3>1, <3>2, <3>3
  <2>. QED BY <1>1, <2>3, <2>4, <2>5, <2>6
<1>. QED BY <1>1, <1>6, <1>9, <1>10 DEF At

-----------------------------------------------------------------------------
(* Every step keeps what is said of the search.                            *)

LEMMA ListStart == ASSUME MaskInit PROVE ListInv
<1>1. task # "searching" /\ task # "answered"  BY DEF MaskInit
<1>2. ListTyped
  <2>1. <<Empty>> \in Text  BY MaskAssumption DEF Text
  <2>2. contenu \in Seq(Text) /\ target \in Text  BY <2>1 DEF MaskInit
  <2>3. case_s = TRUE /\ including = TRUE /\ covered = FALSE /\ min = 0 /\ max = 0  BY DEF MaskInit
  <2>. QED BY <2>2, <2>3 DEF ListTyped
<1>3. ListSorted  BY DEF MaskInit, ListSorted
<1>. QED BY <1>1, <1>2, <1>3 DEF ListInv, Searching, SearchIsExact

\* What does not touch a list and its search.
LEMMA ListUntouched ==
  ASSUME ListInv, UNCHANGED searchVars, task' \notin {"searching", "answered"}
  PROVE  ListInv'
<1>1. ListTyped' /\ ListSorted'  BY DEF ListInv, ListTyped, ListSorted, searchVars
<1>2. Searching' /\ SearchIsExact'  BY DEF Searching, SearchIsExact
<1>. QED BY <1>1, <1>2 DEF ListInv

LEMMA ListStutters ==
  ASSUME ListInv, UNCHANGED <<task, searchVars>>
  PROVE  ListInv'
<1>1. ListTyped' /\ ListSorted'  BY DEF ListInv, ListTyped, ListSorted, searchVars
<1>2. Searching'  BY DEF ListInv, Searching, At, searchVars
<1>3. SearchIsExact'
  BY DEF ListInv, SearchIsExact, Listed, Plain, Leads, searchVars
<1>. QED BY <1>1, <1>2, <1>3 DEF ListInv

LEMMA ReadListKeeps ==
  ASSUME ListInv, NEW file \in Files, NEW where \in Origins, NEW sensitive \in BOOLEAN, NEW include \in BOOLEAN,
         ReadList(file, where, sensitive, include)
  PROVE  ListInv'
<1> DEFINE from == Path(Seen(where, sensitive))
           lines == {Seen(line, sensitive) : line \in file}
           entries == {Completed(line, from) : line \in lines}
<1>1. CASE Refused  BY <1>1, ListUntouched DEF Refused
<1>2. IsFiniteSet(entries) /\ entries \subseteq Text
  <2>1. IsFiniteSet(file) /\ file \subseteq Text /\ where \in Text  BY MaskAssumption
  <2>2. from \in [relative : BOOLEAN, dirs : Seq(Names)]  BY <2>1, SeenIsText, PathTyped
  <2> HIDE DEF from
  <2> DEFINE f == [line \in file |-> Completed(Seen(line, sensitive), from)]
  <2>3. f \in Surjection(file, entries)  BY DEF Surjection
  <2>4. IsFiniteSet(entries)  BY <2>1, <2>3, FS_Surjection DEF ExistsSurjection
  <2>5. entries \subseteq Text  BY <2>1, <2>2, SeenIsText, CompletedTyped
  <2>. QED BY <2>4, <2>5
<1>3. CASE ~Refused
  <2>1. /\ \E s \in Sorted(entries) : contenu' = s
        /\ case_s' = sensitive /\ including' = include /\ task' = "ready"
        /\ UNCHANGED <<target, min, max, covered>>
    BY <1>3 DEF ReadList
  <2>2. PICK s \in Sorted(entries) : contenu' = s  BY <2>1
  <2>3. s \in Seq(Text) /\ \A i, j \in DOMAIN s : i < j => Before(s[i], s[j])
    <3>1. s \in Seq(Text)  BY <1>2, <2>2, SortedAreLists
    <3>. QED BY <2>2, <3>1 DEF Sorted
  <2>4. ListTyped'  BY <2>1, <2>2, <2>3 DEF ListInv, ListTyped
  <2>5. ListSorted'  BY <2>2, <2>3 DEF ListSorted
  <2>. QED BY <2>1, <2>4, <2>5 DEF ListInv, Searching, SearchIsExact
<1>. QED BY <1>1, <1>3

LEMMA IsCoveredKeeps ==
  ASSUME ListInv, NEW expression \in Candidates, IsCovered(expression)
  PROVE  ListInv'
<1>1. /\ target' = Seen(expression, case_s)
      /\ UNCHANGED <<contenu, case_s, including>>
  BY DEF IsCovered
<1>2. target' \in Text  BY <1>1, SeenIsText, MaskAssumption DEF ListInv, ListTyped
<1>3. ListSorted'  BY <1>1 DEF ListInv, ListSorted
<1>4. CASE contenu = <<>>
  <2>1. task' = "answered" /\ covered' = FALSE /\ UNCHANGED <<min, max>>  BY <1>4 DEF IsCovered
  <2>2. ListTyped'  BY <1>1, <1>2, <2>1 DEF ListInv, ListTyped
  <2>3. DOMAIN contenu' = {}  BY <1>1, <1>4
  <2>4. ~Listed' /\ ~(\E i \in DOMAIN contenu' : (i > 1 \/ Len(contenu') = 1) /\ Leads(contenu[i])')
    BY <2>3 DEF Listed
  <2>5. SearchIsExact'  BY <2>1, <2>4 DEF SearchIsExact
  <2>. QED BY <1>3, <2>1, <2>2, <2>5 DEF ListInv, Searching
<1>5. CASE contenu # <<>>
  <2>1. task' = "searching" /\ min' = 0 /\ max' = Len(contenu) - 1 /\ UNCHANGED covered  BY <1>5 DEF IsCovered
  <2>2. contenu \in Seq(Text) /\ Len(contenu) \in Nat /\ Len(contenu) > 0  BY <1>5 DEF ListInv, ListTyped
  <2>3. ListTyped'  BY <1>1, <1>2, <2>1, <2>2 DEF ListInv, ListTyped
  <2>4. Searching'  BY <1>1, <2>1, <2>2 DEF Searching
  <2>. QED BY <1>3, <2>1, <2>3, <2>4 DEF ListInv, SearchIsExact
<1>. QED BY <1>4, <1>5

LEMMA HalveKeeps ==
  ASSUME ListInv, Halve
  PROVE  ListInv'
<1> DEFINE tmp == (min + max) \div 2
<1>1. /\ min \in Nat /\ max \in Nat /\ max - min > 1 /\ max < Len(contenu) /\ Len(contenu) \in Nat
      /\ contenu \in Seq(Text) /\ target \in Text
  BY DEF ListInv, ListTyped, Searching, Halve
<1>2. tmp \in Nat /\ min < tmp /\ tmp < max  BY <1>1
<1>3. /\ min' = IF Before(At(tmp), target) \/ At(tmp) = target THEN tmp ELSE min
      /\ max' = IF Before(At(tmp), target) THEN max ELSE tmp
      /\ UNCHANGED <<task, contenu, case_s, including, target, covered>> /\ task = "searching"
  BY DEF Halve
<1> HIDE DEF tmp
<1>5. At(tmp) \in Seq(Nat) /\ target \in Seq(Nat)
  <2>1. tmp + 1 \in 1..Len(contenu)  BY <1>1, <1>2
  <2>2. contenu[tmp + 1] \in Text  BY <1>1, <2>1
  <2>. QED BY <1>1, <2>2, TextsAreNumbers DEF At
<1>6. min' \in Nat /\ max' \in Nat /\ min' =< max' /\ max' < Len(contenu) /\ max' > 0  BY <1>1, <1>2, <1>3
<1>7. min' = 0 \/ Before(At(min'), target) \/ At(min') = target
  BY <1>3 DEF ListInv, Searching
<1>8. max' = Len(contenu) - 1 \/ Before(target, At(max')) \/ At(max') = target
  <2>1. CASE max' = max  BY <1>3, <2>1 DEF ListInv, Searching
  <2>2. CASE max' = tmp /\ ~Before(At(tmp), target)  BY <1>5, <2>2, OneIsBefore
  <2>. QED BY <1>3, <2>1, <2>2
<1>9. ListTyped' /\ ListSorted'  BY <1>3, <1>6 DEF ListInv, ListTyped, ListSorted
<1>10. Searching'
  <2>1. At(min)' = At(min') /\ At(max)' = At(max') /\ Len(contenu') = Len(contenu) /\ target' = target  BY <1>3 DEF At
  <2>2. max' # 0  BY <1>6
  <2> HIDE DEF At
  <2>. QED BY <1>6, <1>7, <1>8, <2>1, <2>2 DEF Searching
<1>. QED BY <1>3, <1>9, <1>10 DEF ListInv, SearchIsExact

LEMMA AnswerKeeps ==
  ASSUME ListInv, Answer
  PROVE  ListInv'
<1>1. /\ task = "searching" /\ max - min =< 1 /\ task' = "answered"
      /\ covered' = (At(max) = target \/ At(min) = target \/ (including /\ Leads(At(max))))
      /\ UNCHANGED <<contenu, case_s, including, target, min, max>>
  BY DEF Answer
<1>2. ListTyped /\ ListSorted /\ Searching  BY DEF ListInv
<1>3. max + 1 \in DOMAIN contenu /\ At(max) = contenu[max + 1]  BY <1>1, <1>2 DEF ListTyped, Searching, At
<1>4. ListTyped' /\ ListSorted'
  <2>1. covered' \in BOOLEAN  BY <1>1
  <2>. QED BY <1>1, <1>2, <2>1 DEF ListTyped, ListSorted
<1>5. Listed' = Listed /\ Plain' = Plain /\ \A x : Leads(x)' = Leads(x)  BY <1>1 DEF Listed, Plain, Leads
<1>6. Listed <=> At(max) = target \/ At(min) = target  BY <1>1, <1>2, SearchEnds
<1>7. covered' <=> Listed \/ (including /\ Leads(At(max)))  BY <1>1, <1>6
<1>8. ASSUME Plain, ~Listed
      PROVE  Leads(At(max)) <=> \E i \in DOMAIN contenu : (i > 1 \/ Len(contenu) = 1) /\ Leads(contenu[i])
  <2>1. \A i \in DOMAIN contenu : Leads(contenu[i]) <=> IsSubdirOf(contenu[i], target)  BY <1>8 DEF Plain, Leads
  <2>2. \A i \in DOMAIN contenu :
          (i > 1 \/ Len(contenu) = 1) /\ IsSubdirOf(contenu[i], target) => IsSubdirOf(At(max), target)
    BY <1>1, <1>2, <1>8, SearchEnds
  <2>3. IsSubdirOf(At(max), target) => max + 1 > 1 \/ Len(contenu) = 1
    BY <1>1, <1>2, <1>8, SearchEnds
  <2>. QED BY <1>3, <2>1, <2>2, <2>3
<1>9. SearchIsExact'
  <2>1. UNCHANGED <<contenu, including>> /\ covered' \in BOOLEAN  BY <1>1
  <2>2. Listed => covered'  BY <1>7
  <2>3. covered' => Listed \/ (including /\ \E i \in DOMAIN contenu : Leads(contenu[i]))  BY <1>3, <1>7
  <2>4. Plain => (covered' <=> \/ Listed
                               \/ /\ including
                                  /\ \E i \in DOMAIN contenu : (i > 1 \/ Len(contenu) = 1) /\ Leads(contenu[i]))
    BY <1>7, <1>8
  <2>. QED BY <1>5, <2>1, <2>2, <2>3, <2>4 DEF SearchIsExact
<1>. QED BY <1>1, <1>4, <1>9 DEF ListInv, Searching

-----------------------------------------------------------------------------
(* The masks made of options.                                              *)

Leaf == SUBSET Candidates

RuleTyped ==
  /\ kind \in [about : Kinds, ordered : BOOLEAN]
  /\ prefix \in Text /\ listing \in Seq(Rule) /\ seen \in Seq(Rule)
  /\ chain \in {"none", "ou", "et"}
  /\ ret_mask \in [kind : {"none", "one", "ou", "et"}, of : Seq(Leaf)]
\* The chain in use is the mask so far; a mask there is has members.
Chained ==
  /\ chain # "none" => ret_mask.kind = chain
  /\ ret_mask.kind = "none" => ret_mask = None
\* In order, there is a mask as soon as an option was seen; without order, there
\* is none before the end.
MaskThereIs ==
  /\ task \in {"list", "options", "path", "ready", "searching", "answered"} => seen = <<>> /\ ret_mask = None
  /\ task = "unordered" => ret_mask = None /\ ~kind.ordered
  /\ task = "ordered" => kind.ordered
  /\ kind.ordered => (seen # <<>> => ret_mask # None) /\ (ret_mask # None => seen # <<>> \/ task = "made")
  /\ task = "made" => listing = <<>>

\* What make_unordered_mask makes: both chains at once.
UnorderedIsBoth ==
  task = "made" /\ ~kind.ordered =>
    Extent(ret_mask) = {e \in Candidates : /\ Included = {} \/ \E i \in Included : Matches(seen[i], e)
                                      /\ ~\E i \in Excluded : Matches(seen[i], e)}

RuleInv == RuleTyped /\ Chained /\ MaskThereIs /\ OrderedIsTheLastRule /\ UnorderedIsBoth

LEMMA MasksAreLeaves ==
  ASSUME NEW rule, kind \in [about : Kinds, ordered : BOOLEAN]
  PROVE  MakeMask(rule) \in Leaf /\ NotMask(MakeMask(rule)) \in Leaf
<1>1. /\ SimpleMask(rule) \in Leaf /\ SimplePathMask(rule) \in Leaf
      /\ ExcludePathOrdered(rule) \in Leaf /\ ExcludePathUnordered(rule) \in Leaf
  BY DEF Leaf, SimpleMask, SimplePathMask, ExcludePathOrdered, ExcludePathUnordered
<1>2. kind.about \in {"name", "path", "hook"}  BY DEF Kinds
<1>3. MakeIncludeMask(rule) \in Leaf  BY <1>1, <1>2 DEF MakeIncludeMask
<1>4. MakeExcludeMask(rule) \in Leaf  BY <1>1, <1>2 DEF MakeExcludeMask
<1>. QED BY <1>3, <1>4 DEF MakeMask, NotMask, Leaf

LEMMA ExtentOfOne ==
  ASSUME NEW m \in Leaf
  PROVE  Extent(One(m)) = m
<1>1. One(m).kind = "one" /\ One(m).of = <<m>>  BY DEF One
<1>2. DOMAIN <<m>> = {1} /\ <<m>>[1] = m  OBVIOUS
<1>. QED BY <1>1, <1>2 DEF Extent, Leaf

LEMMA ExtentOfTwo ==
  ASSUME NEW m \in Leaf, NEW n \in Leaf
  PROVE  /\ Extent([kind |-> "ou", of |-> <<m, n>>]) = m \cup n
         /\ Extent([kind |-> "et", of |-> <<m, n>>]) = m \cap n
<1>1. DOMAIN <<m, n>> = {1, 2} /\ <<m, n>>[1] = m /\ <<m, n>>[2] = n  OBVIOUS
<1>2. Extent([kind |-> "ou", of |-> <<m, n>>]) = m \cup n  BY <1>1 DEF Extent, Leaf
<1>3. Extent([kind |-> "et", of |-> <<m, n>>]) = m \cap n  BY <1>1 DEF Extent, Leaf
<1>. QED BY <1>2, <1>3

LEMMA ExtentOfMore ==
  ASSUME NEW m, m \in [kind : {"none", "one", "ou", "et"}, of : Seq(Leaf)], NEW n \in Leaf
  PROVE  /\ m.kind = "ou" => Extent(AddMask(m, n)) = Extent(m) \cup n
         /\ m.kind = "et" => Extent(AddMask(m, n)) = Extent(m) \cap n
<1>1. /\ AddMask(m, n).kind = m.kind /\ AddMask(m, n).of = Append(m.of, n)
      /\ m.of \in Seq(Leaf) /\ Len(m.of) \in Nat
  BY DEF AddMask
<1>2. /\ DOMAIN Append(m.of, n) = 1..(Len(m.of) + 1) /\ DOMAIN m.of = 1..Len(m.of)
      /\ Append(m.of, n)[Len(m.of) + 1] = n
      /\ \A i \in 1..Len(m.of) : Append(m.of, n)[i] = m.of[i]
  BY <1>1, AppendProperties
<1>3. ASSUME m.kind = "ou" PROVE Extent(AddMask(m, n)) = Extent(m) \cup n
  <2>1. ASSUME NEW e \in Candidates
        PROVE  (\E i \in 1..(Len(m.of) + 1) : e \in Append(m.of, n)[i]) <=> (\E i \in 1..Len(m.of) : e \in m.of[i]) \/ e \in n
    <3>1. CASE e \in n
      <4>1. Len(m.of) + 1 \in 1..(Len(m.of) + 1)  BY <1>1
      <4>. QED BY <1>2, <3>1, <4>1
    <3>2. CASE e \notin n
      <4>1. \A i \in 1..(Len(m.of) + 1) : i \in 1..Len(m.of) \/ i = Len(m.of) + 1  BY <1>1
      <4>2. \A i \in 1..Len(m.of) : i \in 1..(Len(m.of) + 1)  BY <1>1
      <4>. QED BY <1>2, <3>2, <4>1, <4>2
    <3>. QED BY <3>1, <3>2
  <2>. QED BY <1>1, <1>2, <1>3, <2>1 DEF Extent, Leaf
<1>4. ASSUME m.kind = "et" PROVE Extent(AddMask(m, n)) = Extent(m) \cap n
  <2>1. ASSUME NEW e \in Candidates
        PROVE  (\A i \in 1..(Len(m.of) + 1) : e \in Append(m.of, n)[i]) <=> (\A i \in 1..Len(m.of) : e \in m.of[i]) /\ e \in n
    <3>1. \A i \in 1..(Len(m.of) + 1) : i \in 1..Len(m.of) \/ i = Len(m.of) + 1  BY <1>1
    <3>2. /\ \A i \in 1..Len(m.of) : i \in 1..(Len(m.of) + 1)
          /\ Len(m.of) + 1 \in 1..(Len(m.of) + 1)
      BY <1>1
    <3>. QED BY <1>2, <3>1, <3>2
  <2>. QED BY <1>1, <1>2, <1>4, <2>1 DEF Extent, Leaf
<1>. QED BY <1>3, <1>4

LEMMA ExtentsAreLeaves == \A m : Extent(m) \in Leaf
BY DEF Extent, Leaf

\* One more option that is about a text decides of it.
LEMMA OneMoreRule ==
  ASSUME NEW rule, seen \in Seq(Rule), seen' = Append(seen, rule), UNCHANGED <<kind, prefix>>,
         NEW e
  PROVE  LastRuleSays(e)' <=> \/ rule.included /\ Matches(rule, e)
                              \/ ~Matches(rule, e) /\ (IF seen = <<>> THEN ~rule.included ELSE LastRuleSays(e))
<1>1. \A r : Matches(r, e)' = Matches(r, e)
  BY DEF Matches, MakeMask, MakeIncludeMask, MakeExcludeMask, SimpleMask, SimplePathMask,
         ExcludePathOrdered, ExcludePathUnordered, Place
<1>2. /\ Len(seen) \in Nat /\ DOMAIN seen = 1..Len(seen) /\ DOMAIN seen' = 1..(Len(seen) + 1)
      /\ seen'[Len(seen) + 1] = rule /\ \A i \in 1..Len(seen) : seen'[i] = seen[i]
      /\ seen' # <<>> /\ (seen = <<>> => seen'[1] = rule)
      /\ (seen # <<>> => seen'[1] = seen[1])
  BY AppendProperties
<1>3. /\ \A i \in 1..(Len(seen) + 1) : i \in 1..Len(seen) \/ i = Len(seen) + 1
      /\ \A i \in 1..Len(seen) : i \in 1..(Len(seen) + 1) /\ i < Len(seen) + 1
      /\ Len(seen) + 1 \in 1..(Len(seen) + 1)
  BY <1>2
<1> DEFINE L == Len(seen) + 1
<1>4. LastRuleSays(e)' <=>
        IF \E i \in 1..L : Matches(seen'[i], e)
        THEN \E i \in 1..L : /\ seen'[i].included /\ Matches(seen'[i], e)
                             /\ \A j \in 1..L : j > i => ~Matches(seen'[j], e)
        ELSE ~seen'[1].included
  BY <1>1, <1>2 DEF LastRuleSays
<1>5. LastRuleSays(e) <=>
        IF \E i \in 1..Len(seen) : Matches(seen[i], e)
        THEN \E i \in 1..Len(seen) : /\ seen[i].included /\ Matches(seen[i], e)
                                     /\ \A j \in 1..Len(seen) : j > i => ~Matches(seen[j], e)
        ELSE seen = <<>> \/ ~seen[1].included
  BY <1>2 DEF LastRuleSays
<1>6. CASE Matches(rule, e)
  <2>1. \A i \in 1..Len(seen) : \E j \in 1..L : j > i /\ Matches(seen'[j], e)  BY <1>2, <1>3, <1>6
  <2>2. \A j \in 1..L : ~(j > L)  BY <1>2
  <2>3. L \in 1..L /\ seen'[L] = rule  BY <1>2, <1>3
  <2>4. ASSUME NEW i \in 1..L, \A j \in 1..L : j > i => ~Matches(seen'[j], e) PROVE i = L
    BY <1>3, <2>1, <2>4
  <2>5. LastRuleSays(e)' <=> rule.included  BY <1>4, <1>6, <2>2, <2>3, <2>4
  <2>. QED BY <1>6, <2>5
<1>7. CASE ~Matches(rule, e)
  <2>1. (\E i \in 1..L : Matches(seen'[i], e)) <=> \E i \in 1..Len(seen) : Matches(seen[i], e)
    BY <1>2, <1>3, <1>7
  <2>2. ASSUME NEW i \in 1..Len(seen)
        PROVE  (\A j \in 1..L : j > i => ~Matches(seen'[j], e)) <=> \A j \in 1..Len(seen) : j > i => ~Matches(seen[j], e)
    BY <1>2, <1>3, <1>7
  <2>3. (\E i \in 1..L : /\ seen'[i].included /\ Matches(seen'[i], e)
                         /\ \A j \in 1..L : j > i => ~Matches(seen'[j], e)) <=>
        (\E i \in 1..Len(seen) : /\ seen[i].included /\ Matches(seen[i], e)
                                 /\ \A j \in 1..Len(seen) : j > i => ~Matches(seen[j], e))
    BY <1>2, <1>3, <1>7, <2>2
  <2>4. CASE seen = <<>>
    <3>1. ~\E i \in 1..Len(seen) : Matches(seen[i], e)  BY <2>4
    <3>. QED BY <1>2, <1>4, <1>7, <2>1, <2>4, <3>1
  <2>5. CASE seen # <<>>  BY <1>2, <1>4, <1>5, <1>7, <2>1, <2>3, <2>5
  <2>. QED BY <2>4, <2>5
<1>. QED BY <1>6, <1>7

\* A mask added to a chain leaves a chain of that kind.
LEMMA AddMaskTyped ==
  ASSUME NEW chained \in [kind : {"none", "one", "ou", "et"}, of : Seq(Leaf)], NEW m \in Leaf
  PROVE  /\ AddMask(chained, m) \in [kind : {"none", "one", "ou", "et"}, of : Seq(Leaf)]
         /\ AddMask(chained, m).kind = chained.kind
<1>1. PICK k \in {"none", "one", "ou", "et"}, s \in Seq(Leaf) : chained = [kind |-> k, of |-> s]  OBVIOUS
<1>2. AddMask(chained, m) = [kind |-> k, of |-> Append(s, m)]  BY <1>1 DEF AddMask
<1>3. Append(s, m) \in Seq(Leaf)  BY AppendProperties
<1>. QED BY <1>1, <1>2, <1>3

\* One more mask in the chain: what it covers is added, or what it does not cover
\* taken away, whether a chain is open or not.
LEMMA IncludeExtends ==
  ASSUME RuleTyped, Chained, ChainInclude
  PROVE  /\ ret_mask' \in [kind : {"none", "one", "ou", "et"}, of : Seq(Leaf)] /\ ret_mask' # None
         /\ chain' \in {"none", "ou", "et"} /\ (chain' # "none" => ret_mask'.kind = chain') /\ ret_mask'.kind # "none"
         /\ Extent(ret_mask') = IF ret_mask = None THEN MakeMask(Head(listing))
                               ELSE Extent(ret_mask) \cup MakeMask(Head(listing))
<1> DEFINE m == MakeMask(Head(listing))
<1>1. m \in Leaf /\ Extent(ret_mask) \in Leaf  BY MasksAreLeaves, ExtentsAreLeaves DEF RuleTyped
<1>2. ret_mask \in [kind : {"none", "one", "ou", "et"}, of : Seq(Leaf)] /\ chain \in {"none", "ou", "et"}
      /\ (chain # "none" => ret_mask.kind = chain) /\ (ret_mask.kind = "none" => ret_mask = None)
  BY DEF RuleTyped, Chained
<1>3. None.kind = "none"  BY DEF None
<1> HIDE DEF m
<1>4. CASE ret_mask = None
  <2>1. ret_mask' = One(m) /\ chain' = chain  BY <1>4 DEF ChainInclude, m
  <2>2. One(m) \in [kind : {"none", "one", "ou", "et"}, of : Seq(Leaf)] /\ One(m).kind = "one"  BY <1>1 DEF One
  <2>3. chain = "none"  BY <1>2, <1>3, <1>4
  <2>4. Extent(ret_mask') = m  BY <1>1, <2>1, ExtentOfOne
  <2>. QED BY <1>2, <1>3, <1>4, <2>1, <2>2, <2>3, <2>4 DEF m
<1>5. CASE ret_mask # None /\ chain = "ou"
  <2>1. ret_mask' = AddMask(ret_mask, m) /\ chain' = "ou"  BY <1>5 DEF ChainInclude, m
  <2>2. ret_mask' \in [kind : {"none", "one", "ou", "et"}, of : Seq(Leaf)] /\ ret_mask'.kind = "ou"
    BY <1>1, <1>2, <1>5, <2>1, AddMaskTyped
  <2>3. Extent(ret_mask') = Extent(ret_mask) \cup m  BY <1>1, <1>2, <1>5, <2>1, ExtentOfMore
  <2>. QED BY <1>3, <1>5, <2>1, <2>2, <2>3 DEF m
<1>6. CASE ret_mask # None /\ chain # "ou"
  <2>1. ret_mask' = [kind |-> "ou", of |-> <<Extent(ret_mask), m>>] /\ chain' = "ou"  BY <1>6 DEF ChainInclude, m
  <2>2. ret_mask' \in [kind : {"none", "one", "ou", "et"}, of : Seq(Leaf)] /\ ret_mask'.kind = "ou"  BY <1>1, <2>1
  <2>3. Extent(ret_mask') = Extent(ret_mask) \cup m  BY <1>1, <2>1, ExtentOfTwo
  <2>. QED BY <1>3, <1>6, <2>1, <2>2, <2>3 DEF m
<1>. QED BY <1>4, <1>5, <1>6

LEMMA ExcludeRestricts ==
  ASSUME RuleTyped, Chained, ChainExclude
  PROVE  /\ ret_mask' \in [kind : {"none", "one", "ou", "et"}, of : Seq(Leaf)] /\ ret_mask' # None
         /\ chain' \in {"none", "ou", "et"} /\ (chain' # "none" => ret_mask'.kind = chain') /\ ret_mask'.kind # "none"
         /\ Extent(ret_mask') = IF ret_mask = None THEN NotMask(MakeMask(Head(listing)))
                               ELSE Extent(ret_mask) \cap NotMask(MakeMask(Head(listing)))
<1> DEFINE m == NotMask(MakeMask(Head(listing)))
<1>1. m \in Leaf /\ Extent(ret_mask) \in Leaf  BY MasksAreLeaves, ExtentsAreLeaves DEF RuleTyped
<1>2. ret_mask \in [kind : {"none", "one", "ou", "et"}, of : Seq(Leaf)] /\ chain \in {"none", "ou", "et"}
      /\ (chain # "none" => ret_mask.kind = chain) /\ (ret_mask.kind = "none" => ret_mask = None)
  BY DEF RuleTyped, Chained
<1>3. None.kind = "none"  BY DEF None
<1> HIDE DEF m
<1>4. CASE ret_mask = None
  <2>1. ret_mask' = One(m) /\ chain' = chain  BY <1>4 DEF ChainExclude, m
  <2>2. One(m) \in [kind : {"none", "one", "ou", "et"}, of : Seq(Leaf)] /\ One(m).kind = "one"  BY <1>1 DEF One
  <2>3. chain = "none"  BY <1>2, <1>3, <1>4
  <2>4. Extent(ret_mask') = m  BY <1>1, <2>1, ExtentOfOne
  <2>. QED BY <1>2, <1>3, <1>4, <2>1, <2>2, <2>3, <2>4 DEF m
<1>5. CASE ret_mask # None /\ chain = "et"
  <2>1. ret_mask' = AddMask(ret_mask, m) /\ chain' = "et"  BY <1>5 DEF ChainExclude, m
  <2>2. ret_mask' \in [kind : {"none", "one", "ou", "et"}, of : Seq(Leaf)] /\ ret_mask'.kind = "et"
    BY <1>1, <1>2, <1>5, <2>1, AddMaskTyped
  <2>3. Extent(ret_mask') = Extent(ret_mask) \cap m  BY <1>1, <1>2, <1>5, <2>1, ExtentOfMore
  <2>. QED BY <1>3, <1>5, <2>1, <2>2, <2>3 DEF m
<1>6. CASE ret_mask # None /\ chain # "et"
  <2>1. ret_mask' = [kind |-> "et", of |-> <<Extent(ret_mask), m>>] /\ chain' = "et"  BY <1>6 DEF ChainExclude, m
  <2>2. ret_mask' \in [kind : {"none", "one", "ou", "et"}, of : Seq(Leaf)] /\ ret_mask'.kind = "et"  BY <1>1, <2>1
  <2>3. Extent(ret_mask') = Extent(ret_mask) \cap m  BY <1>1, <2>1, ExtentOfTwo
  <2>. QED BY <1>3, <1>6, <2>1, <2>2, <2>3 DEF m
<1>. QED BY <1>4, <1>5, <1>6

LEMMA RuleStart == ASSUME MaskInit PROVE RuleInv
<1>1. /\ kind = [about |-> "name", ordered |-> TRUE] /\ prefix = <<Empty, Empty>> /\ listing = <<>> /\ seen = <<>> /\ chain = "none" /\ ret_mask = None
      /\ task \in {"list", "options", "path"}
  BY DEF MaskInit
<1>2. RuleTyped
  <2>1. <<Empty, Empty>> \in Text  BY MaskAssumption DEF Text
  <2>. QED BY <1>1, <2>1 DEF RuleTyped, None, Kinds
<1>3. Chained /\ MaskThereIs  BY <1>1 DEF Chained, MaskThereIs, None
<1>4. OrderedIsTheLastRule /\ UnorderedIsBoth  BY <1>1 DEF OrderedIsTheLastRule, UnorderedIsBoth
<1>. QED BY <1>2, <1>3, <1>4 DEF RuleInv

\* What does not touch the masks being made.
LEMMA RuleUntouched ==
  ASSUME RuleInv, UNCHANGED ruleVars,
         \/ task' = task
         \/ task' = "refused" /\ task # "made"
         \/ {task, task'} \subseteq {"list", "options", "path", "ready", "searching", "answered"}
  PROVE  RuleInv'
<1>1. RuleTyped' /\ Chained'  BY DEF RuleInv, RuleTyped, Chained, ruleVars
<1>2. MaskThereIs'  BY DEF RuleInv, MaskThereIs, ruleVars
<1>3. \A r, e : Matches(r, e)' = Matches(r, e)
  BY DEF Matches, MakeMask, MakeIncludeMask, MakeExcludeMask, SimpleMask, SimplePathMask,
         ExcludePathOrdered, ExcludePathUnordered, Place, ruleVars
<1>4. \A e : LastRuleSays(e)' = LastRuleSays(e)  BY <1>3 DEF LastRuleSays, ruleVars
<1>5. Extent(ret_mask)' = Extent(ret_mask)  BY DEF Extent, ruleVars
<1>6. task' = "made" => task = "made"  OBVIOUS
<1>7. OrderedIsTheLastRule'  BY <1>4, <1>5, <1>6 DEF RuleInv, OrderedIsTheLastRule, ruleVars
<1>8. UnorderedIsBoth'  BY <1>3, <1>5, <1>6 DEF RuleInv, UnorderedIsBoth, Included, Excluded, ruleVars
<1>. QED BY <1>1, <1>2, <1>7, <1>8 DEF RuleInv

LEMMA GiveOptionsKeeps ==
  ASSUME RuleInv, NEW about \in Kinds, NEW ordered \in BOOLEAN, NEW where \in Origins, NEW options \in Listings,
         GiveOptions(about, ordered, where, options)
  PROVE  RuleInv'
<1>1. /\ kind' = [about |-> about, ordered |-> ordered] /\ prefix' = where /\ listing' = options /\ task = "options"
      /\ task' = IF ordered THEN "ordered" ELSE "unordered"
      /\ UNCHANGED <<seen, chain, ret_mask>>
  BY DEF GiveOptions
<1>2. seen = <<>> /\ ret_mask = None  BY <1>1 DEF RuleInv, MaskThereIs
<1>3. RuleTyped' /\ Chained'
  <2>1. options \in Seq(Rule) /\ where \in Text  BY MaskAssumption
  <2>. QED BY <1>1, <2>1 DEF RuleInv, RuleTyped, Chained
<1>4. MaskThereIs'  BY <1>1, <1>2 DEF MaskThereIs
<1>5. OrderedIsTheLastRule' /\ UnorderedIsBoth'  BY <1>1, <1>2 DEF OrderedIsTheLastRule, UnorderedIsBoth
<1>. QED BY <1>3, <1>4, <1>5 DEF RuleInv

LEMMA TakeOrderedKeeps ==
  ASSUME RuleInv, TakeOrdered
  PROVE  RuleInv'
<1> DEFINE rule == Head(listing)
           m == MakeMask(rule)
<1>1. /\ task = "ordered" /\ task' = task /\ listing # <<>>
      /\ listing' = Tail(listing) /\ seen' = Append(seen, rule) /\ UNCHANGED <<kind, prefix>>
  BY DEF TakeOrdered, Taken
<1>2. /\ RuleTyped /\ Chained /\ kind.ordered
      /\ seen \in Seq(Rule) /\ listing \in Seq(Rule) /\ rule \in Rule /\ rule.included \in BOOLEAN
      /\ (seen = <<>> <=> ret_mask = None)
  <2>1. RuleTyped /\ Chained /\ MaskThereIs  BY DEF RuleInv
  <2>2. seen \in Seq(Rule) /\ listing \in Seq(Rule)  BY <2>1 DEF RuleTyped
  <2>3. rule \in Rule  BY <1>1, <2>2
  <2>4. kind.ordered /\ (seen = <<>> <=> ret_mask = None)  BY <1>1, <2>1 DEF MaskThereIs
  <2>. QED BY <2>1, <2>2, <2>3, <2>4 DEF Rule
<1>3. seen' \in Seq(Rule) /\ seen' # <<>> /\ listing' \in Seq(Rule)  BY <1>1, <1>2
<1>4. ASSUME NEW e \in Candidates
      PROVE  LastRuleSays(e)' <=> \/ rule.included /\ e \in m
                                  \/ e \notin m /\ (IF seen = <<>> THEN ~rule.included ELSE LastRuleSays(e))
  BY <1>1, <1>2, OneMoreRule DEF Matches
<1>5. m \in Leaf /\ Extent(ret_mask) \in Leaf  BY <1>2, MasksAreLeaves, ExtentsAreLeaves DEF RuleTyped
<1>6. seen # <<>> => \A e \in Candidates : e \in Extent(ret_mask) <=> LastRuleSays(e)
  BY <1>2 DEF RuleInv, OrderedIsTheLastRule
<1>7. /\ ret_mask' \in [kind : {"none", "one", "ou", "et"}, of : Seq(Leaf)] /\ ret_mask' # None
      /\ chain' \in {"none", "ou", "et"} /\ (chain' # "none" => ret_mask'.kind = chain') /\ ret_mask'.kind # "none"
      /\ \A e \in Candidates : e \in Extent(ret_mask') <=> LastRuleSays(e)'
  <2>1. CASE rule.included
    <3>1. ChainInclude  BY <2>1 DEF TakeOrdered
    <3>2. Extent(ret_mask') = IF ret_mask = None THEN m ELSE Extent(ret_mask) \cup m
      BY <1>2, <3>1, IncludeExtends
    <3>3. \A e \in Candidates : e \in Extent(ret_mask') <=> LastRuleSays(e)'
      BY <1>2, <1>4, <1>6, <2>1, <3>2
    <3>. QED BY <1>2, <3>1, <3>3, IncludeExtends
  <2>2. CASE ~rule.included
    <3>1. ChainExclude  BY <2>2 DEF TakeOrdered
    <3>2. Extent(ret_mask') = IF ret_mask = None THEN NotMask(m) ELSE Extent(ret_mask) \cap NotMask(m)
      BY <1>2, <3>1, ExcludeRestricts
    <3>3. \A e \in Candidates : e \in NotMask(m) <=> e \notin m  BY DEF NotMask
    <3>4. \A e \in Candidates : e \in Extent(ret_mask') <=> LastRuleSays(e)'
      BY <1>2, <1>4, <1>6, <2>2, <3>2, <3>3
    <3>. QED BY <1>2, <3>1, <3>4, ExcludeRestricts
  <2>. QED BY <1>2, <2>1, <2>2
<1>8. RuleTyped' /\ Chained'  BY <1>1, <1>2, <1>3, <1>7 DEF RuleTyped, Chained
<1>9. MaskThereIs'  BY <1>1, <1>2, <1>3, <1>7 DEF MaskThereIs
<1>10. OrderedIsTheLastRule'
  <2>1. Extent(ret_mask') \in Leaf  BY ExtentsAreLeaves
  <2>2. Extent(ret_mask') = {e \in Candidates : LastRuleSays(e)'}  BY <1>7, <2>1 DEF Leaf
  <2>3. Extent(ret_mask)' = Extent(ret_mask')  BY DEF Extent
  <2>. QED BY <2>2, <2>3 DEF OrderedIsTheLastRule
<1>11. UnorderedIsBoth'  BY <1>1 DEF UnorderedIsBoth
<1>. QED BY <1>8, <1>9, <1>10, <1>11 DEF RuleInv

LEMMA EndOrderedKeeps ==
  ASSUME RuleInv, EndOrdered
  PROVE  RuleInv'
<1>1. /\ task = "ordered" /\ task' = "made" /\ listing = <<>>
      /\ ret_mask' = IF ret_mask = None THEN One(BoolMask) ELSE ret_mask
      /\ UNCHANGED <<kind, prefix, listing, seen, chain>>
  BY DEF EndOrdered
<1>2. RuleTyped /\ Chained /\ MaskThereIs /\ OrderedIsTheLastRule  BY DEF RuleInv
<1>3. kind.ordered /\ (seen = <<>> <=> ret_mask = None)  BY <1>1, <1>2 DEF MaskThereIs
<1>4. BoolMask \in Leaf  BY DEF BoolMask, Leaf
<1>5. ret_mask' \in [kind : {"none", "one", "ou", "et"}, of : Seq(Leaf)] /\ ret_mask' # None
      /\ (chain # "none" => ret_mask'.kind = chain) /\ ret_mask'.kind # "none"
  <2>1. One(BoolMask) \in [kind : {"none", "one", "ou", "et"}, of : Seq(Leaf)] /\ One(BoolMask).kind = "one"
    BY <1>4 DEF One
  <2>2. None.kind = "none"  BY DEF None
  <2>3. CASE ret_mask = None
    <3>1. chain = "none"  BY <1>2, <2>2, <2>3 DEF Chained, RuleTyped
    <3>. QED BY <1>1, <2>1, <2>2, <2>3, <3>1
  <2>4. CASE ret_mask # None  BY <1>1, <1>2, <2>4 DEF Chained, RuleTyped
  <2>. QED BY <2>3, <2>4
<1>6. RuleTyped' /\ Chained'  BY <1>1, <1>2, <1>5 DEF RuleTyped, Chained
<1>7. MaskThereIs'  BY <1>1, <1>3, <1>5 DEF MaskThereIs
<1>8. \A e : LastRuleSays(e)' = LastRuleSays(e)
  <2>1. \A r, e : Matches(r, e)' = Matches(r, e)
    BY <1>1 DEF Matches, MakeMask, MakeIncludeMask, MakeExcludeMask, SimpleMask, SimplePathMask,
           ExcludePathOrdered, ExcludePathUnordered, Place
  <2>. QED BY <1>1, <2>1 DEF LastRuleSays
<1>9. OrderedIsTheLastRule'
  <2>1. Extent(ret_mask)' = Extent(ret_mask')  BY DEF Extent
  <2>2. CASE ret_mask = None
    <3>1. Extent(ret_mask') = Candidates  BY <1>1, <1>4, <2>2, ExtentOfOne DEF BoolMask
    <3>2. seen = <<>>  BY <1>3, <2>2
    <3>3. \A e \in Candidates : LastRuleSays(e)  BY <3>2 DEF LastRuleSays
    <3>4. {e \in Candidates : LastRuleSays(e)'} = Candidates  BY <1>8, <3>3
    <3>. QED BY <2>1, <3>1, <3>4 DEF OrderedIsTheLastRule
  <2>3. CASE ret_mask # None
    <3>1. Extent(ret_mask) = {e \in Candidates : LastRuleSays(e)}  BY <1>2, <1>3, <2>3 DEF OrderedIsTheLastRule
    <3>2. {e \in Candidates : LastRuleSays(e)'} = {e \in Candidates : LastRuleSays(e)}  BY <1>8
    <3>. QED BY <1>1, <2>1, <2>3, <3>1, <3>2 DEF OrderedIsTheLastRule
  <2>. QED BY <2>2, <2>3
<1>10. UnorderedIsBoth'  BY <1>1, <1>3 DEF UnorderedIsBoth
<1>. QED BY <1>6, <1>7, <1>9, <1>10 DEF RuleInv

LEMMA TakeUnorderedKeeps ==
  ASSUME RuleInv, TakeUnordered
  PROVE  RuleInv'
<1>1. /\ task = "unordered" /\ task' = task /\ listing # <<>> /\ listing' = Tail(listing)
      /\ seen' = Append(seen, Head(listing)) /\ UNCHANGED <<kind, prefix, chain, ret_mask>>
  BY DEF TakeUnordered, Taken
<1>2. RuleTyped /\ Chained /\ MaskThereIs  BY DEF RuleInv
<1>3. listing' \in Seq(Rule) /\ seen' \in Seq(Rule)
  <2>1. seen \in Seq(Rule) /\ listing \in Seq(Rule)  BY <1>2 DEF RuleTyped
  <2>. QED BY <1>1, <2>1
<1>4. RuleTyped' /\ Chained' /\ MaskThereIs'  BY <1>1, <1>2, <1>3 DEF RuleTyped, Chained, MaskThereIs
<1>5. ~kind.ordered  BY <1>1, <1>2 DEF MaskThereIs
<1>. QED BY <1>1, <1>4, <1>5 DEF RuleInv, OrderedIsTheLastRule, UnorderedIsBoth

LEMMA EndUnorderedKeeps ==
  ASSUME RuleInv, EndUnordered
  PROVE  RuleInv'
<1> DEFINE include == IF Included = {} THEN BoolMask ELSE UNION {MakeMask(seen[i]) : i \in Included}
           exclude == UNION {MakeMask(seen[i]) : i \in Excluded}
           of == IF Excluded = {} THEN <<include>> ELSE <<include, NotMask(exclude)>>
<1>1. /\ task = "unordered" /\ task' = "made" /\ listing = <<>>
      /\ ret_mask' = [kind |-> "et", of |-> of]
      /\ UNCHANGED <<kind, prefix, listing, seen, chain>>
  BY DEF EndUnordered
<1>2. RuleTyped /\ Chained /\ MaskThereIs  BY DEF RuleInv
<1>3. ~kind.ordered /\ ret_mask = None /\ chain = "none"
  <2>1. ~kind.ordered /\ ret_mask = None  BY <1>1, <1>2 DEF MaskThereIs
  <2>2. None.kind = "none"  BY DEF None
  <2>. QED BY <1>2, <2>1, <2>2 DEF Chained, RuleTyped
<1>4. \A i : MakeMask(seen[i]) \in Leaf  BY <1>2, MasksAreLeaves DEF RuleTyped
<1>5. include \in Leaf /\ exclude \in Leaf /\ NotMask(exclude) \in Leaf
  <2>1. UNION {MakeMask(seen[i]) : i \in Included} \in Leaf  BY <1>4 DEF Leaf
  <2>2. exclude \in Leaf  BY <1>4 DEF Leaf
  <2>. QED BY <2>1, <2>2 DEF BoolMask, NotMask, Leaf
<1>6. of \in Seq(Leaf)  BY <1>5
<1>7. Extent(ret_mask') = IF Excluded = {} THEN include ELSE include \cap NotMask(exclude)
  <2>1. CASE Excluded = {}
    <3>1. of = <<include>>  BY <2>1
    <3> HIDE DEF of, include
    <3>2. ret_mask'.kind = "et" /\ ret_mask'.of = <<include>>  BY <1>1, <3>1
    <3>3. DOMAIN <<include>> = {1} /\ <<include>>[1] = include  OBVIOUS
    <3>. QED BY <1>5, <2>1, <3>2, <3>3 DEF Extent, Leaf
  <2>2. CASE Excluded # {}
    <3>1. of = <<include, NotMask(exclude)>>  BY <2>2
    <3> HIDE DEF of, include, exclude
    <3>2. ret_mask' = [kind |-> "et", of |-> <<include, NotMask(exclude)>>]  BY <1>1, <3>1
    <3>. QED BY <1>5, <2>2, <3>2, ExtentOfTwo
  <2>. QED BY <2>1, <2>2
<1>8. RuleTyped' /\ Chained' /\ MaskThereIs'
  <2>1. ret_mask' \in [kind : {"none", "one", "ou", "et"}, of : Seq(Leaf)] /\ ret_mask'.kind = "et"
    <3> HIDE DEF of
    <3>. QED BY <1>1, <1>6
  <2>2. RuleTyped'  BY <1>1, <1>2, <2>1 DEF RuleTyped
  <2>. QED BY <1>1, <1>3, <2>1, <2>2 DEF Chained, MaskThereIs
<1>9. OrderedIsTheLastRule'  BY <1>1, <1>3 DEF OrderedIsTheLastRule
<1>10. UnorderedIsBoth'
  <2>1. \A r, e : Matches(r, e)' = Matches(r, e)
    BY <1>1 DEF Matches, MakeMask, MakeIncludeMask, MakeExcludeMask, SimpleMask, SimplePathMask,
           ExcludePathOrdered, ExcludePathUnordered, Place
  <2>2. Included' = Included /\ Excluded' = Excluded  BY <1>1 DEF Included, Excluded
  <2>3. \A e \in Candidates : e \in include <=> Included = {} \/ \E i \in Included : Matches(seen[i], e)
    BY <1>4 DEF Matches, BoolMask, Leaf
  <2>4. \A e \in Candidates : e \in exclude <=> \E i \in Excluded : Matches(seen[i], e)
    BY <1>4 DEF Matches, Leaf
  <2> HIDE DEF include, exclude, of
  <2>5. \A e \in Candidates : e \in NotMask(exclude) <=> e \notin exclude  BY DEF NotMask
  <2>6. Extent(ret_mask') \in Leaf  BY ExtentsAreLeaves
  <2>7. Extent(ret_mask') = {e \in Candidates : /\ Included = {} \/ \E i \in Included : Matches(seen[i], e)
                                           /\ ~\E i \in Excluded : Matches(seen[i], e)}
    BY <1>7, <2>3, <2>4, <2>5, <2>6 DEF Leaf
  <2>8. Extent(ret_mask)' = Extent(ret_mask')  BY DEF Extent
  <2>. QED BY <1>1, <2>1, <2>2, <2>7, <2>8 DEF UnorderedIsBoth
<1>. QED BY <1>8, <1>9, <1>10 DEF RuleInv

-----------------------------------------------------------------------------
(* Directories that lead to what is covered.                               *)

LEMMA SeenKeepsSubdirs ==
  ASSUME NEW me \in Text, NEW you \in Text, NEW sensitive \in BOOLEAN, IsSubdirOf(me, you)
  PROVE  IsSubdirOf(Seen(me, sensitive), Seen(you, sensitive))
<1>1. /\ me \in Seq(Names) /\ you \in Seq(Names) /\ Len(you) =< Len(me) /\ Len(you) \in Nat /\ Len(me) \in Nat
      /\ DOMAIN me = 1..Len(me) /\ DOMAIN you = 1..Len(you)
      /\ \A i \in 1..Len(you) : me[i] = you[i] /\ i \in 1..Len(me)
  BY DEF IsSubdirOf, Text
<1>2. CASE sensitive  BY <1>2 DEF Seen
<1>3. CASE ~sensitive
  <2>1. /\ Seen(me, sensitive) = [i \in 1..Len(me) |-> Upper[me[i]]]
        /\ Seen(you, sensitive) = [i \in 1..Len(you) |-> Upper[you[i]]]
    BY <1>1, <1>3 DEF Seen
  <2>2. /\ Len(Seen(me, sensitive)) = Len(me) /\ Len(Seen(you, sensitive)) = Len(you)
        /\ DOMAIN Seen(you, sensitive) = 1..Len(you)
    BY <1>1, <2>1
  <2>3. \A i \in 1..Len(you) : Seen(me, sensitive)[i] = Seen(you, sensitive)[i]  BY <1>1, <2>1
  <2>. QED BY <1>1, <2>2, <2>3 DEF IsSubdirOf
<1>. QED BY <1>2, <1>3

\* Two directories that lead to one path: one of them leads to the other.
LEMMA OnOneWay ==
  ASSUME NEW e \in Text, NEW dir \in Text, NEW place,
         IsSubdirOf(e, dir), IsSubdirOf(e, place), Len(place) \in Nat, DOMAIN place = 1..Len(place)
  PROVE  IsSubdirOf(dir, place) \/ IsSubdirOf(place, dir)
<1>1. /\ Len(dir) \in Nat /\ DOMAIN dir = 1..Len(dir)
      /\ \A i \in 1..Len(dir) : e[i] = dir[i]
      /\ \A i \in 1..Len(place) : e[i] = place[i]
  BY DEF IsSubdirOf, Text
<1>2. CASE Len(place) =< Len(dir)  BY <1>1, <1>2 DEF IsSubdirOf
<1>3. CASE Len(dir) =< Len(place)  BY <1>1, <1>3 DEF IsSubdirOf
<1>. QED BY <1>1, <1>2, <1>3

LEMMA SubdirTransitive ==
  ASSUME NEW a, NEW b \in Text, NEW c, IsSubdirOf(a, b), IsSubdirOf(b, c),
         Len(a) \in Nat, Len(c) \in Nat, DOMAIN c = 1..Len(c)
  PROVE  IsSubdirOf(a, c)
<1>1. Len(b) \in Nat /\ DOMAIN b = 1..Len(b)  BY DEF Text
<1>. QED BY <1>1 DEF IsSubdirOf

\* The place of a mask of paths is a text that can be compared with others.
LEMMA PlaceTyped ==
  ASSUME prefix \in Text, NEW rule \in Rule
  PROVE  Place(rule) \in Seq(Names)
<1> DEFINE from == Path(prefix)
           arg == Path(rule.mask)
           sum == Plus(from, arg)
<1>1. rule.mask \in Text /\ rule.case_s \in BOOLEAN  BY DEF Rule
<1>2. from \in [relative : BOOLEAN, dirs : Seq(Names)] /\ arg \in [relative : BOOLEAN, dirs : Seq(Names)]
  BY <1>1, PathTyped
<1> HIDE DEF from, arg
<1>3. sum \in [relative : BOOLEAN, dirs : Seq(Names)] /\ (sum.relative => sum.dirs # <<>>)  BY <1>2, PlusTyped
<1> HIDE DEF sum
<1>4. Display(sum) \in Text  BY <1>3, DisplayTyped
<1>5. Seen(Display(sum), rule.case_s) \in Seq(Names)  BY <1>1, <1>4, SeenIsText DEF Text
<1>. QED BY <1>5 DEF Place, sum, from, arg

-----------------------------------------------------------------------------
(* What leads to a path that is covered.                                   *)

\* An option to include a path matches all that leads to what it matches, and an
\* option to exclude one all that is below what it matches.
LEMMA RulesOnTheWay ==
  ASSUME RuleTyped, kind.about = "path", NEW rule \in Rule, NEW e \in Candidates, NEW dir \in Candidates, IsSubdirOf(e, dir)
  PROVE  /\ rule.included /\ Matches(rule, e) => Matches(rule, dir)
         /\ ~rule.included /\ kind.ordered /\ Matches(rule, dir) => Matches(rule, e)
<1> DEFINE se == Seen(e, rule.case_s)
           sdir == Seen(dir, rule.case_s)
           place == Place(rule)
<1>1. rule.case_s \in BOOLEAN /\ rule.included \in BOOLEAN /\ e \in Text /\ dir \in Text
  BY MaskAssumption DEF Rule
<1>2. se \in Text /\ sdir \in Text /\ IsSubdirOf(se, sdir)  BY <1>1, SeenIsText, SeenKeepsSubdirs
<1>3. place \in Seq(Names)
  <2>1. prefix \in Text  BY DEF RuleTyped
  <2>. QED BY <2>1, PlaceTyped
<1>4. /\ Len(place) \in Nat /\ DOMAIN place = 1..Len(place) /\ Len(se) \in Nat
      /\ Len(sdir) \in Nat /\ DOMAIN sdir = 1..Len(sdir)
  <2> HIDE DEF se, sdir, place
  <2>1. se \in Seq(Names) /\ sdir \in Seq(Names)  BY <1>2 DEF Text
  <2>. QED BY <1>3, <2>1
<1>5. ASSUME rule.included, Matches(rule, e) PROVE Matches(rule, dir)
  <2>1. \A x \in Candidates : Matches(rule, x) <=>
          IsSubdirOf(Seen(x, rule.case_s), place) \/ IsSubdirOf(place, Seen(x, rule.case_s))
    BY <1>5 DEF Matches, MakeMask, MakeIncludeMask, SimplePathMask
  <2> HIDE DEF se, sdir, place
  <2>2. IsSubdirOf(se, place) \/ IsSubdirOf(place, se)  BY <1>5, <2>1 DEF se
  <2>3. CASE IsSubdirOf(se, place)
    <3>1. IsSubdirOf(sdir, place) \/ IsSubdirOf(place, sdir)  BY <1>2, <1>4, <2>3, OnOneWay
    <3>. QED BY <2>1, <3>1 DEF sdir
  <2>4. CASE IsSubdirOf(place, se)
    <3>1. IsSubdirOf(place, sdir)  BY <1>2, <1>4, <2>4, SubdirTransitive
    <3>. QED BY <2>1, <3>1 DEF sdir
  <2>. QED BY <2>2, <2>3, <2>4
<1>6. ASSUME ~rule.included, kind.ordered, Matches(rule, dir) PROVE Matches(rule, e)
  <2>1. \A x \in Candidates : Matches(rule, x) <=> IsSubdirOf(Seen(x, rule.case_s), place)
    BY <1>6 DEF Matches, MakeMask, MakeExcludeMask, ExcludePathOrdered
  <2> HIDE DEF se, sdir, place
  <2>2. IsSubdirOf(sdir, place)  BY <1>6, <2>1 DEF sdir
  <2>3. IsSubdirOf(se, place)  BY <1>2, <1>4, <2>2, SubdirTransitive
  <2>. QED BY <2>1, <2>3 DEF se
<1>. QED BY <1>1, <1>5, <1>6

LEMMA LastRuleReaches ==
  ASSUME RuleTyped, kind.about = "path", kind.ordered, NEW e \in Candidates, NEW dir \in Candidates, IsSubdirOf(e, dir),
         LastRuleSays(e)
  PROVE  LastRuleSays(dir)
<1> DEFINE L == Len(seen)
           Found == {i \in 1..L : Matches(seen[i], dir)}
<1>1. seen \in Seq(Rule) /\ L \in Nat /\ DOMAIN seen = 1..L /\ \A i \in 1..L : seen[i] \in Rule  BY DEF RuleTyped
<1>2. ASSUME NEW i \in 1..L
      PROVE  /\ seen[i].included /\ Matches(seen[i], e) => Matches(seen[i], dir)
             /\ ~seen[i].included /\ Matches(seen[i], dir) => Matches(seen[i], e)
  BY <1>1, RulesOnTheWay
<1>3. CASE Found = {}
  <2>1. ~\E i \in 1..L : Matches(seen[i], dir)  BY <1>3
  <2>2. ~\E i \in 1..L : seen[i].included /\ Matches(seen[i], e)  BY <1>2, <2>1
  <2>3. seen = <<>> \/ ~seen[1].included  BY <1>1, <2>2 DEF LastRuleSays
  <2>. QED BY <1>1, <2>1, <2>3 DEF LastRuleSays
<1>4. CASE Found # {}
  <2>1. PICK k \in Found : \A j \in Found : j =< k  BY <1>1, <1>4, Greatest
  <2>2. k \in 1..L /\ Matches(seen[k], dir)  BY <2>1
  <2>3. \A j \in 1..L : j > k => ~Matches(seen[j], dir)  BY <1>1, <2>1
  <2>4. seen[k].included
    <3>1. SUFFICES ASSUME ~seen[k].included PROVE FALSE  OBVIOUS
    <3>2. Matches(seen[k], e)  BY <1>2, <2>2, <3>1
    <3>3. PICK i \in 1..L : seen[i].included /\ Matches(seen[i], e) /\ \A j \in 1..L : j > i => ~Matches(seen[j], e)
      BY <1>1, <2>2, <3>2 DEF LastRuleSays
    <3>4. i \in Found /\ i # k  BY <1>2, <3>1, <3>3
    <3>5. i < k  BY <1>1, <2>1, <2>2, <3>4
    <3>. QED BY <1>1, <2>2, <3>2, <3>3, <3>5
  <2>. QED BY <1>1, <2>2, <2>3, <2>4 DEF LastRuleSays
<1>. QED BY <1>3, <1>4

LEMMA MasksReach == ASSUME RuleInv PROVE WhatIsCoveredIsReached
<1>1. SUFFICES ASSUME task = "made", kind.about = "path", NEW e \in Extent(ret_mask), NEW dir \in Candidates, IsSubdirOf(e, dir)
               PROVE  \/ dir \in Extent(ret_mask)
                      \/ ~kind.ordered /\ \E i \in Excluded : Matches(seen[i], dir)
  BY DEF WhatIsCoveredIsReached
<1>2. RuleTyped  BY DEF RuleInv
<1>3. e \in Candidates
  <2>1. Extent(ret_mask) \in Leaf  BY ExtentsAreLeaves
  <2>. QED BY <2>1 DEF Leaf
<1>4. CASE kind.ordered
  <2>1. Extent(ret_mask) = {x \in Candidates : LastRuleSays(x)}  BY <1>1, <1>4 DEF RuleInv, OrderedIsTheLastRule
  <2>2. LastRuleSays(dir)  BY <1>1, <1>2, <1>3, <1>4, <2>1, LastRuleReaches
  <2>. QED BY <2>1, <2>2
<1>5. CASE ~kind.ordered
  <2>1. Extent(ret_mask) = {x \in Candidates : /\ Included = {} \/ \E i \in Included : Matches(seen[i], x)
                                          /\ ~\E i \in Excluded : Matches(seen[i], x)}
    BY <1>1, <1>5 DEF RuleInv, UnorderedIsBoth
  <2>2. ASSUME NEW i \in Included, Matches(seen[i], e) PROVE Matches(seen[i], dir)
    <3>1. seen[i].included /\ seen[i] \in Rule  BY <1>2 DEF Included, RuleTyped
    <3>. QED BY <1>1, <1>2, <1>3, <2>2, <3>1, RulesOnTheWay
  <2>. QED BY <1>5, <2>1, <2>2
<1>. QED BY <1>4, <1>5

-----------------------------------------------------------------------------
(* A path reads back.                                                      *)

\* No member is empty or ".", and ".." are in front.
Settled(dirs) == \A i \in 1..Len(dirs) : /\ dirs[i] \notin {Empty, Dot}
                                         /\ dirs[i] = DotDot /\ i > 1 => dirs[i - 1] = DotDot
Whole(path) == /\ path \in [relative : BOOLEAN, dirs : Seq(Names)]
               /\ path.relative => path.dirs # <<>>
               /\ Settled(path.dirs) \/ (path.relative /\ path.dirs = <<Dot>>)
PathInv == Whole(chemin)

LEMMA FrontOfASequence ==
  ASSUME NEW s \in Seq(Names), NEW n \in 0..Len(s)
  PROVE  /\ SubSeq(s, 1, n) \in Seq(Names) /\ Len(SubSeq(s, 1, n)) = n
         /\ \A i \in 1..n : SubSeq(s, 1, n)[i] = s[i]
OBVIOUS

LEMMA PushedSettled ==
  ASSUME NEW up \in Seq(Names), Settled(up), NEW x \in Names, x # Empty
  PROVE  Settled(Pushed(up, x))
<1>1. Len(up) \in Nat  OBVIOUS
<1>2. CASE x = Dot
  <2>1. Pushed(up, x) = up  BY <1>2, MaskAssumption DEF Pushed
  <2>. QED BY <2>1
<1>3. CASE x = DotDot /\ up # <<>> /\ Last(up) # DotDot
  <2> DEFINE n == Len(up) - 1
  <2>1. Pushed(up, x) = SubSeq(up, 1, n)  BY <1>3, MaskAssumption DEF Pushed, Front
  <2>2. n \in 0..Len(up) /\ \A i \in 1..n : i \in 1..Len(up)
    <3>1. Len(up) # 0  BY <1>3
    <3>. QED BY <1>1, <3>1
  <2> HIDE DEF n
  <2>3. Len(SubSeq(up, 1, n)) = n /\ \A i \in 1..n : SubSeq(up, 1, n)[i] = up[i]  BY <2>2, FrontOfASequence
  <2>4. ASSUME NEW i \in 1..n, i > 1 PROVE i - 1 \in 1..n  BY <2>2, <2>4
  <2>. QED BY <2>1, <2>2, <2>3, <2>4 DEF Settled
<1>4. CASE x # Dot /\ ~(x = DotDot /\ up # <<>> /\ Last(up) # DotDot)
  <2>1. Pushed(up, x) = Append(up, x)  BY <1>4 DEF Pushed
  <2>2. /\ Len(Append(up, x)) = Len(up) + 1 /\ Append(up, x)[Len(up) + 1] = x
        /\ \A i \in 1..Len(up) : Append(up, x)[i] = up[i]
    OBVIOUS
  <2>3. ASSUME NEW i \in 1..(Len(up) + 1)
        PROVE  /\ Append(up, x)[i] \notin {Empty, Dot}
               /\ Append(up, x)[i] = DotDot /\ i > 1 => Append(up, x)[i - 1] = DotDot
    <3>1. CASE i = Len(up) + 1
      <4>1. i > 1 => up # <<>> /\ i - 1 \in 1..Len(up) /\ Append(up, x)[i - 1] = Last(up)
        BY <1>1, <2>2, <3>1 DEF Last
      <4>. QED BY <1>4, <2>2, <3>1, <4>1
    <3>2. CASE i # Len(up) + 1
      <4>1. i \in 1..Len(up) /\ (i > 1 => i - 1 \in 1..Len(up))  BY <1>1, <3>2
      <4>. QED BY <2>2, <4>1 DEF Settled
    <3>. QED BY <3>1, <3>2
  <2>. QED BY <2>1, <2>2, <2>3 DEF Settled
<1>. QED BY <1>2, <1>3, <1>4

LEMMA ReducedIsWhole ==
  ASSUME NEW dirs \in Seq(Names), \A i \in 1..Len(dirs) : dirs[i] # Empty, NEW relative \in BOOLEAN
  PROVE  Whole([relative |-> relative, dirs |-> Reduced(relative, dirs)])
<1> DEFINE Good(s) == s \in Seq(Names) /\ Settled(s)
           Wrong == {m \in 0..Len(dirs) : ~Good(Stacks(dirs)[m])}
           path == [relative |-> relative, dirs |-> Reduced(relative, dirs)]
<1>1. Len(dirs) \in Nat /\ \A n \in 1..Len(dirs) : dirs[n] \in Names  OBVIOUS
<1>2. Wrong = {}
  <2>1. SUFFICES ASSUME Wrong # {} PROVE FALSE  OBVIOUS
  <2>2. PICK m \in Wrong : \A k \in Wrong : m =< k
    <3>1. Wrong \in SUBSET Nat  BY <1>1
    <3>. QED BY <2>1, <3>1, Smallest
  <2>3. m \in 0..Len(dirs) /\ ~Good(Stacks(dirs)[m])  BY <2>2
  <2>4. m # 0
    <3>1. Stacks(dirs)[0] = <<>>  BY <1>1, StacksAre
    <3>2. Good(<<>>)  BY DEF Settled
    <3>. QED BY <2>3, <3>1, <3>2
  <2>5. m \in 1..Len(dirs) /\ m - 1 \in 0..Len(dirs) /\ m - 1 < m  BY <1>1, <2>3, <2>4
  <2>6. Good(Stacks(dirs)[m - 1])
    <3>1. m - 1 \notin Wrong  BY <2>2, <2>5
    <3>. QED BY <2>5, <3>1
  <2>7. Stacks(dirs)[m] = Pushed(Stacks(dirs)[m - 1], dirs[m])  BY <1>1, <2>5, StacksAre
  <2>. QED BY <1>1, <2>3, <2>5, <2>6, <2>7, PushedTyped, PushedSettled
<1>3. Len(dirs) \in 0..Len(dirs)  BY <1>1
<1>4. Good(Stacks(dirs)[Len(dirs)])  BY <1>2, <1>3
<1>5. <<Dot>> \in Seq(Names) /\ <<Dot>> # <<>>  BY MaskAssumption
<1> HIDE DEF Wrong
<1>6. CASE relative /\ Stacks(dirs)[Len(dirs)] = <<>>
  <2>1. path = [relative |-> TRUE, dirs |-> <<Dot>>]  BY <1>6 DEF Reduced
  <2>. QED BY <1>5, <2>1 DEF Whole
<1>7. CASE ~(relative /\ Stacks(dirs)[Len(dirs)] = <<>>)
  <2>1. path = [relative |-> relative, dirs |-> Stacks(dirs)[Len(dirs)]]  BY <1>7 DEF Reduced
  <2>. QED BY <1>4, <1>7, <2>1 DEF Whole
<1>. QED BY <1>6, <1>7

\* Nothing is left to reduce.
LEMMA SettledStays ==
  ASSUME NEW dirs \in Seq(Names), Settled(dirs)
  PROVE  Stacks(dirs)[Len(dirs)] = dirs
<1> DEFINE Wrong == {m \in 0..Len(dirs) : Stacks(dirs)[m] # SubSeq(dirs, 1, m)}
<1>1. Len(dirs) \in Nat /\ \A n \in 1..Len(dirs) : dirs[n] \in Names  OBVIOUS
<1>2. Wrong = {}
  <2>1. SUFFICES ASSUME Wrong # {} PROVE FALSE  OBVIOUS
  <2>2. PICK m \in Wrong : \A k \in Wrong : m =< k
    <3>1. Wrong \in SUBSET Nat  BY <1>1
    <3>. QED BY <2>1, <3>1, Smallest
  <2>3. m \in 0..Len(dirs) /\ Stacks(dirs)[m] # SubSeq(dirs, 1, m)  BY <2>2
  <2>4. m # 0
    <3>1. Stacks(dirs)[0] = <<>> /\ SubSeq(dirs, 1, 0) = <<>>  BY <1>1, StacksAre
    <3>. QED BY <2>3, <3>1
  <2>5. m \in 1..Len(dirs) /\ m - 1 \in 0..Len(dirs) /\ m - 1 < m  BY <1>1, <2>3, <2>4
  <2> DEFINE up == SubSeq(dirs, 1, m - 1)
  <2>6. Stacks(dirs)[m - 1] = up
    <3>1. m - 1 \notin Wrong  BY <2>2, <2>5
    <3>. QED BY <2>5, <3>1
  <2>7. Stacks(dirs)[m] = Pushed(up, dirs[m])  BY <1>1, <2>5, <2>6, StacksAre
  <2>8. up \in Seq(Names) /\ Len(up) = m - 1 /\ \A i \in 1..(m - 1) : up[i] = dirs[i]  BY <1>1, <2>5
  <2>9. dirs[m] # Dot /\ (dirs[m] = DotDot /\ m > 1 => dirs[m - 1] = DotDot)  BY <1>1, <2>5 DEF Settled
  <2> HIDE DEF up
  <2>10. dirs[m] = DotDot /\ up # <<>> => Last(up) = DotDot
    <3>1. up # <<>> => m > 1 /\ m - 1 \in 1..(m - 1)  BY <2>5, <2>8
    <3>. QED BY <2>8, <2>9, <3>1 DEF Last
  <2>11. Pushed(up, dirs[m]) = Append(up, dirs[m])  BY <2>9, <2>10 DEF Pushed
  <2>12. Append(up, dirs[m]) = SubSeq(dirs, 1, m)
    <3>1. SubSeq(dirs, 1, m) \in Seq(Names) /\ Len(SubSeq(dirs, 1, m)) = m /\ \A i \in 1..m : SubSeq(dirs, 1, m)[i] = dirs[i]
      BY <1>1, <2>5
    <3>2. dirs[m] \in Names  BY <1>1, <2>5
    <3>3. /\ Append(up, dirs[m]) \in Seq(Names) /\ Len(Append(up, dirs[m])) = m
          /\ \A i \in 1..m : Append(up, dirs[m])[i] = dirs[i]
      BY <2>5, <2>8, <3>2
    <3>. QED BY <3>1, <3>3, SeqEqual
  <2>. QED BY <2>3, <2>7, <2>11, <2>12
<1>3. Len(dirs) \in 0..Len(dirs)  BY <1>1
<1>4. Stacks(dirs)[Len(dirs)] = SubSeq(dirs, 1, Len(dirs))  BY <1>2, <1>3
<1>. QED BY <1>4

\* What a path displays is a path, and this one.
LEMMA ReadsBack ==
  ASSUME NEW path, Whole(path)
  PROVE  IsPath(Display(path)) /\ Path(Display(path)) = path
<1> DEFINE dirs == path.dirs
<1>1. path \in [relative : BOOLEAN, dirs : Seq(Names)] /\ dirs \in Seq(Names) /\ Len(dirs) \in Nat  BY DEF Whole
<1>2. ASSUME NEW i \in 1..Len(dirs) PROVE dirs[i] # Empty
  <2>1. CASE Settled(dirs)  BY <2>1 DEF Settled
  <2>2. CASE dirs = <<Dot>>
    <3>1. \A j \in 1..Len(<<Dot>>) : <<Dot>>[j] = Dot  OBVIOUS
    <3>. QED BY <2>2, <3>1, MaskAssumption
  <2>. QED BY <2>1, <2>2 DEF Whole
<1>3. Reduced(path.relative, dirs) = dirs
  <2>1. CASE Settled(dirs)
    <3>1. Stacks(dirs)[Len(dirs)] = dirs  BY <1>1, <2>1, SettledStays
    <3>. QED BY <3>1 DEF Reduced, Whole
  <2>2. CASE path.relative /\ dirs = <<Dot>>
    <3>1. Len(dirs) = 1 /\ dirs[1] = Dot /\ 1 \in 1..Len(dirs)  BY <2>2
    <3>2. Stacks(dirs)[0] = <<>> /\ Stacks(dirs)[1] = Pushed(Stacks(dirs)[1 - 1], dirs[1])
      BY <1>1, <3>1, StacksAre
    <3>3. Stacks(dirs)[1] = Pushed(<<>>, Dot)  BY <3>1, <3>2
    <3>4. Pushed(<<>>, Dot) = <<>>  BY MaskAssumption DEF Pushed
    <3>. QED BY <2>2, <3>1, <3>3, <3>4 DEF Reduced
  <2>. QED BY <2>1, <2>2 DEF Whole
<1> HIDE DEF dirs
<1>4. ASSUME NEW text \in Text, Members(text) = dirs, (Head(text) # Empty) = path.relative, text # <<Empty>>
      PROVE  IsPath(text) /\ Path(text) = path
  <2>1. DOMAIN dirs = 1..Len(dirs)  BY <1>1
  <2>2. IsPath(text)  BY <1>2, <1>4, <2>1 DEF IsPath
  <2>3. Path(text) = [relative |-> path.relative, dirs |-> dirs]  BY <1>3, <1>4 DEF Path
  <2>. QED BY <1>1, <2>2, <2>3 DEF dirs
<1>5. CASE path.relative
  <2>1. dirs # <<>> /\ Len(dirs) \in 1..Len(dirs) /\ 1 \in 1..Len(dirs)  BY <1>1, <1>5 DEF Whole, dirs
  <2>2. Head(dirs) = dirs[1] /\ Head(dirs) # Empty  BY <1>1, <1>2, <2>1
  <2>3. Last(dirs) # Empty  BY <1>2, <2>1 DEF Last
  <2>4. Members(dirs) = dirs  BY <2>2, <2>3 DEF Members
  <2>5. dirs # <<Empty>>  BY <2>2
  <2>6. dirs \in Text  BY <1>1, <2>1 DEF Text
  <2>7. Display(path) = dirs  BY <1>5 DEF Display, dirs
  <2>. QED BY <1>4, <1>5, <2>2, <2>4, <2>5, <2>6, <2>7
<1>6. CASE ~path.relative /\ dirs = <<>>
  <2>1. Display(path) = <<Empty, Empty>>  BY <1>6 DEF Display, dirs
  <2>2. Empty \in Names  BY MaskAssumption
  <2>3. /\ <<Empty, Empty>> \in Text /\ Head(<<Empty, Empty>>) = Empty /\ Tail(<<Empty, Empty>>) = <<Empty>>
        /\ <<Empty, Empty>> # <<Empty>>
    BY <2>2 DEF Text
  <2>4. Members(<<Empty, Empty>>) = <<>>
    <3>1. Last(<<Empty>>) = Empty /\ <<Empty>> # <<>> /\ Front(<<Empty>>) = <<>>  BY <2>2 DEF Last, Front
    <3>. QED BY <2>3, <3>1 DEF Members
  <2>5. (Head(<<Empty, Empty>>) # Empty) = path.relative
    <3>1. path.relative = FALSE  BY <1>1, <1>6
    <3>. QED BY <2>3, <3>1
  <2>. QED BY <1>4, <1>6, <2>1, <2>3, <2>4, <2>5
<1>7. CASE ~path.relative /\ dirs # <<>>
  <2> DEFINE text == <<Empty>> \o dirs
  <2>1. Display(path) = text  BY <1>7 DEF Display, dirs
  <2>2. Empty \in Names  BY MaskAssumption
  <2>3. Len(dirs) # 0 /\ Len(dirs) \in 1..Len(dirs)  BY <1>1, <1>7
  <2>4. /\ text \in Seq(Names) /\ Len(text) = Len(dirs) + 1 /\ text[1] = Empty
        /\ \A i \in 1..Len(dirs) : text[i + 1] = dirs[i]
    BY <1>1, <2>2
  <2> HIDE DEF text
  <2>5. text # <<>> /\ text \in Text /\ text # <<Empty>> /\ Head(text) = Empty  BY <1>1, <2>3, <2>4 DEF Text
  <2>6. Tail(text) = dirs
    <3>1. /\ Tail(text) \in Seq(Names) /\ Len(Tail(text)) = Len(dirs)
          /\ \A i \in 1..Len(dirs) : Tail(text)[i] = text[i + 1]
      BY <1>1, <2>4, <2>5
    <3>. QED BY <1>1, <2>4, <3>1, SeqEqual
  <2>7. Last(dirs) # Empty  BY <1>2, <2>3 DEF Last
  <2>8. Members(text) = dirs  BY <2>5, <2>6, <2>7 DEF Members
  <2>9. (Head(text) # Empty) = path.relative
    <3>1. path.relative = FALSE  BY <1>1, <1>7
    <3>. QED BY <2>5, <3>1
  <2>. QED BY <1>4, <2>1, <2>5, <2>8, <2>9
<1>. QED BY <1>1, <1>5, <1>6, <1>7

LEMMA MembersOfAPath ==
  ASSUME NEW text \in Text, IsPath(text)
  PROVE  Whole(Path(text))
<1>1. Members(text) \in Seq(Names)  BY MembersTyped
<1>2. \A i \in 1..Len(Members(text)) : Members(text)[i] # Empty  BY <1>1 DEF IsPath
<1>3. (Head(text) # Empty) \in BOOLEAN  OBVIOUS
<1>. QED BY <1>1, <1>2, <1>3, ReducedIsWhole DEF Path

LEMMA PathStart == ASSUME MaskInit PROVE PathInv
<1>1. IsPath(<<Empty, Empty>>) /\ <<Empty, Empty>> \in Text
  <2>1. Empty \in Names  BY MaskAssumption
  <2>2. Tail(<<Empty, Empty>>) = <<Empty>> /\ Head(<<Empty, Empty>>) = Empty /\ <<Empty, Empty>> \in Text
    BY <2>1 DEF Text
  <2>3. Members(<<Empty, Empty>>) = <<>>
    <3>1. Last(<<Empty>>) = Empty /\ <<Empty>> # <<>> /\ Front(<<Empty>>) = <<>>  BY <2>1 DEF Last, Front
    <3>. QED BY <2>2, <3>1 DEF Members
  <2>4. <<Empty, Empty>> # <<Empty>> /\ DOMAIN <<>> = {}  OBVIOUS
  <2>. QED BY <2>2, <2>3, <2>4 DEF IsPath
<1>2. \A where \in Origins : where \in Text /\ IsPath(where)  BY MaskAssumption
<1>3. \/ \E where \in Origins : chemin = Path(where)
      \/ chemin = Path(<<Empty, Empty>>)
  BY DEF MaskInit
<1>. QED BY <1>1, <1>2, <1>3, MembersOfAPath DEF PathInv

LEMMA PlusEqualKeeps ==
  ASSUME PathInv, NEW text \in Added, PlusEqual(text)
  PROVE  PathInv'
<1> DEFINE arg == Path(text)
           dirs == chemin.dirs \o arg.dirs
<1>1. text \in Text /\ IsPath(text) /\ arg.relative  BY MaskAssumption DEF PlusEqual
<1>2. Whole(chemin) /\ Whole(arg)  BY <1>1, MembersOfAPath DEF PathInv
<1> HIDE DEF arg
<1>3. ASSUME NEW p, Whole(p) PROVE \A i \in 1..Len(p.dirs) : p.dirs[i] # Empty
  <2>1. CASE Settled(p.dirs)  BY <2>1 DEF Settled
  <2>2. CASE p.dirs = <<Dot>>
    <3>1. \A j \in 1..Len(<<Dot>>) : <<Dot>>[j] = Dot  OBVIOUS
    <3>. QED BY <2>2, <3>1, MaskAssumption
  <2>. QED BY <1>3, <2>1, <2>2 DEF Whole
<1>4. chemin.dirs \in Seq(Names) /\ arg.dirs \in Seq(Names) /\ chemin.relative \in BOOLEAN
      /\ chemin \in [relative : BOOLEAN, dirs : Seq(Names)]
  BY <1>2 DEF Whole
<1>5. dirs \in Seq(Names) /\ \A i \in 1..Len(dirs) : dirs[i] # Empty
  <2> DEFINE a == chemin.dirs
             b == arg.dirs
  <2>1. (\A i \in 1..Len(a) : a[i] # Empty) /\ (\A i \in 1..Len(b) : b[i] # Empty)  BY <1>2, <1>3
  <2>2. a \in Seq(Names) /\ b \in Seq(Names)  BY <1>4
  <2> HIDE DEF a, b
  <2>3. a \o b \in Seq(Names) /\ \A i \in 1..Len(a \o b) : (a \o b)[i] # Empty  BY <2>1, <2>2
  <2>. QED BY <2>3 DEF a, b
<1>6. chemin' = [chemin EXCEPT !.dirs = Reduced(chemin.relative, dirs)]  BY DEF PlusEqual, Plus, arg
<1> HIDE DEF dirs
<1>7. chemin' = [relative |-> chemin.relative, dirs |-> Reduced(chemin.relative, dirs)]  BY <1>4, <1>6
<1>. QED BY <1>4, <1>5, <1>7, ReducedIsWhole DEF PathInv

LEMMA PopKeeps ==
  ASSUME PathInv, Pop \/ PopFront
  PROVE  PathInv'
<1> DEFINE dirs == chemin.dirs
<1>1. /\ chemin \in [relative : BOOLEAN, dirs : Seq(Names)] /\ dirs \in Seq(Names) /\ Len(dirs) \in Nat
      /\ Settled(dirs) \/ (chemin.relative /\ dirs = <<Dot>>)
  BY DEF PathInv, Whole
<1>2. Len(dirs) > (IF chemin.relative THEN 1 ELSE 0)  BY DEF Pop, PopFront
<1> HIDE DEF dirs
<1>3. Settled(dirs) /\ Len(dirs) > 0 /\ (chemin.relative => Len(dirs) > 1)
  <2>1. Len(<<Dot>>) = 1  OBVIOUS
  <2>2. CASE chemin.relative
    <3>1. Len(dirs) > 1  BY <1>2, <2>2
    <3>2. Len(dirs) # 1  BY <1>1, <3>1
    <3>3. dirs # <<Dot>>  BY <2>1, <3>2, Zenon
    <3>. QED BY <1>1, <3>1, <3>3
  <2>3. CASE ~chemin.relative  BY <1>1, <1>2, <2>3
  <2>. QED BY <2>2, <2>3
<1>4. ASSUME NEW s \in Seq(Names), Settled(s), chemin.relative => s # <<>>, chemin' = [chemin EXCEPT !.dirs = s]
      PROVE  PathInv'
  <2>1. chemin' \in [relative : BOOLEAN, dirs : Seq(Names)] /\ chemin'.dirs = s /\ chemin'.relative = chemin.relative
    BY <1>1, <1>4
  <2>. QED BY <1>4, <2>1 DEF PathInv, Whole
<1>5. CASE Pop
  <2> DEFINE s == SubSeq(dirs, 1, Len(dirs) - 1)
  <2>1. s \in Seq(Names) /\ Len(s) = Len(dirs) - 1 /\ \A i \in 1..(Len(dirs) - 1) : s[i] = dirs[i]
    <3>1. Len(dirs) - 1 \in 0..Len(dirs)  BY <1>1, <1>3
    <3>. QED BY <1>1, <3>1, FrontOfASequence
  <2>2. chemin' = [chemin EXCEPT !.dirs = s]  BY <1>5 DEF Pop, Front, dirs
  <2> HIDE DEF s
  <2>3. Settled(s)  BY <1>1, <1>3, <2>1 DEF Settled
  <2>4. chemin.relative => s # <<>>  BY <1>1, <1>3, <2>1
  <2>. QED BY <1>4, <2>1, <2>2, <2>3, <2>4
<1>6. CASE PopFront /\ chemin.relative
  <2> DEFINE s == Tail(dirs)
  <2>1. s \in Seq(Names) /\ Len(s) = Len(dirs) - 1 /\ \A i \in 1..(Len(dirs) - 1) : s[i] = dirs[i + 1]  BY <1>1, <1>3
  <2>2. chemin' = [chemin EXCEPT !.dirs = s]  BY <1>6 DEF PopFront, dirs
  <2> HIDE DEF s
  <2>3. Settled(s)
    <3>1. ASSUME NEW i \in 1..Len(s)
          PROVE  s[i] \notin {Empty, Dot} /\ (s[i] = DotDot /\ i > 1 => s[i - 1] = DotDot)
      <4>1. i + 1 \in 1..Len(dirs) /\ s[i] = dirs[i + 1] /\ i \in 1..(Len(dirs) - 1)  BY <1>1, <1>3, <2>1
      <4>2. i > 1 => i - 1 \in 1..(Len(dirs) - 1) /\ s[i - 1] = dirs[i]  BY <1>1, <2>1, <4>1
      <4>3. dirs[i + 1] \notin {Empty, Dot} /\ (dirs[i + 1] = DotDot => dirs[i] = DotDot)
        BY <1>1, <1>3, <4>1 DEF Settled
      <4>. QED BY <4>1, <4>2, <4>3
    <3>. QED BY <3>1 DEF Settled
  <2>4. chemin.relative => s # <<>>  BY <1>1, <1>3, <2>1
  <2>. QED BY <1>4, <2>1, <2>2, <2>3, <2>4
<1>7. CASE PopFront /\ ~chemin.relative  BY <1>7 DEF PopFront, PathInv
<1>. QED BY <1>5, <1>6, <1>7

-----------------------------------------------------------------------------
(* The steps and the theorems.                                             *)

MaskInv == ListInv /\ RuleInv /\ PathInv

LEMMA ListStep ==
  ASSUME MaskInv, ListNext
  PROVE  MaskInv'
<1>1. ListInv /\ RuleInv /\ PathInv  BY DEF MaskInv
<1>2. UNCHANGED <<ruleVars, chemin>>
  BY DEF ListNext, ReadList, Refused, IsCovered, Halve, Answer
<1>3. PathInv'  BY <1>1, <1>2 DEF PathInv
<1>4. CASE \E file \in Files, where \in Origins, sensitive, include \in BOOLEAN :
             ReadList(file, where, sensitive, include)
  <2>1. ListInv'  BY <1>1, <1>4, ReadListKeeps
  <2>2. task = "list" /\ (task' = "refused" \/ task' = "ready")  BY <1>4 DEF ReadList, Refused
  <2>3. RuleInv'  BY <1>1, <1>2, <2>2, RuleUntouched
  <2>. QED BY <1>3, <2>1, <2>3 DEF MaskInv
<1>5. CASE \E expression \in Candidates : IsCovered(expression)
  <2>1. ListInv'  BY <1>1, <1>5, IsCoveredKeeps
  <2>2. task \in {"ready", "answered"} /\ task' \in {"answered", "searching"}  BY <1>5 DEF IsCovered
  <2>3. RuleInv'  BY <1>1, <1>2, <2>2, RuleUntouched
  <2>. QED BY <1>3, <2>1, <2>3 DEF MaskInv
<1>6. CASE Halve
  <2>1. ListInv'  BY <1>1, <1>6, HalveKeeps
  <2>2. task' = task  BY <1>6 DEF Halve
  <2>3. RuleInv'  BY <1>1, <1>2, <2>2, RuleUntouched
  <2>. QED BY <1>3, <2>1, <2>3 DEF MaskInv
<1>7. CASE Answer
  <2>1. ListInv'  BY <1>1, <1>7, AnswerKeeps
  <2>2. task = "searching" /\ task' = "answered"  BY <1>7 DEF Answer
  <2>3. RuleInv'  BY <1>1, <1>2, <2>2, RuleUntouched
  <2>. QED BY <1>3, <2>1, <2>3 DEF MaskInv
<1>. QED BY <1>4, <1>5, <1>6, <1>7 DEF ListNext

LEMMA OptionsStep ==
  ASSUME MaskInv, OptionsNext
  PROVE  MaskInv'
<1>1. ListInv /\ RuleInv /\ PathInv  BY DEF MaskInv
<1>2. /\ UNCHANGED <<searchVars, chemin>>
      /\ task' \in {"refused", "ordered", "unordered", "made"}
  BY DEF OptionsNext, GiveOptions, RefuseOption, Refused, TakeOrdered, EndOrdered, TakeUnordered, EndUnordered, Taken
<1>3. PathInv'  BY <1>1, <1>2 DEF PathInv
<1>4. ListInv'  BY <1>1, <1>2, ListUntouched
<1>5. CASE \E about \in Kinds, ordered \in BOOLEAN, where \in Origins, options \in Listings :
             GiveOptions(about, ordered, where, options)
  BY <1>1, <1>3, <1>4, <1>5, GiveOptionsKeeps DEF MaskInv
<1>6. CASE RefuseOption
  <2>1. task' = "refused" /\ task # "made" /\ UNCHANGED ruleVars  BY <1>6 DEF RefuseOption, Refused
  <2>. QED BY <1>1, <1>3, <1>4, <2>1, RuleUntouched DEF MaskInv
<1>7. CASE TakeOrdered  BY <1>1, <1>3, <1>4, <1>7, TakeOrderedKeeps DEF MaskInv
<1>8. CASE EndOrdered  BY <1>1, <1>3, <1>4, <1>8, EndOrderedKeeps DEF MaskInv
<1>9. CASE TakeUnordered  BY <1>1, <1>3, <1>4, <1>9, TakeUnorderedKeeps DEF MaskInv
<1>10. CASE EndUnordered  BY <1>1, <1>3, <1>4, <1>10, EndUnorderedKeeps DEF MaskInv
<1>. QED BY <1>5, <1>6, <1>7, <1>8, <1>9, <1>10 DEF OptionsNext

LEMMA PathStep ==
  ASSUME MaskInv, PathNext
  PROVE  MaskInv'
<1>1. ListInv /\ RuleInv /\ PathInv  BY DEF MaskInv
<1>2. UNCHANGED <<task, searchVars, ruleVars>>  BY DEF PathNext, PlusEqual, Pop, PopFront
<1>3. ListInv' /\ RuleInv'  BY <1>1, <1>2, ListStutters, RuleUntouched
<1>4. PathInv'  BY <1>1, PlusEqualKeeps, PopKeeps DEF PathNext
<1>. QED BY <1>3, <1>4 DEF MaskInv

LEMMA MasksInductive == MaskSpec => []MaskInv
<1>1. MaskInit => MaskInv  BY ListStart, RuleStart, PathStart DEF MaskInv
<1>2. MaskInv /\ [MaskNext]_maskVars => MaskInv'
  <2>1. MaskInv /\ MaskNext => MaskInv'  BY ListStep, OptionsStep, PathStep DEF MaskNext
  <2>2. MaskInv /\ UNCHANGED maskVars => MaskInv'
    <3>1. SUFFICES ASSUME MaskInv, UNCHANGED maskVars PROVE MaskInv'  OBVIOUS
    <3>2. UNCHANGED <<task, searchVars>> /\ UNCHANGED ruleVars /\ chemin' = chemin /\ task' = task
      BY <3>1 DEF maskVars, searchVars
    <3>3. ListInv' /\ RuleInv' /\ PathInv'  BY <3>1, <3>2, ListStutters, RuleUntouched DEF MaskInv, PathInv
    <3>. QED BY <3>3 DEF MaskInv
  <2>. QED BY <2>1, <2>2
<1>. QED BY <1>1, <1>2, PTL DEF MaskSpec

\* mask_list::is_covered: whatever the listing file, its search by halves finds what
\* is listed; what it covers beside leads to an entry; and it misses nothing but
\* what leads to the first entry of several.
THEOREM SearchTheorem == MaskSpec => []SearchIsExact
<1>1. MaskInv => SearchIsExact  BY DEF MaskInv, ListInv
<1>. QED BY <1>1, MasksInductive, PTL

\* make_ordered_mask: for options of any number and kind, the nested chains cover
\* what the last option about it includes.
THEOREM OrderTheorem == MaskSpec => []OrderedIsTheLastRule
<1>1. MaskInv => OrderedIsTheLastRule  BY DEF MaskInv, RuleInv
<1>. QED BY <1>1, MasksInductive, PTL

\* What masks of paths select is reached: with -am, every directory that leads to it
\* is covered too; without, all but those that an option excludes.
THEOREM ReachTheorem == MaskSpec => []WhatIsCoveredIsReached
<1>1. MaskInv => WhatIsCoveredIsReached  BY MasksReach DEF MaskInv
<1>. QED BY <1>1, MasksInductive, PTL

\* The three together, as the runs check them.
THEOREM SelectionTheorem == MaskSpec => []MasksSelect
<1>1. SearchIsExact /\ OrderedIsTheLastRule /\ WhatIsCoveredIsReached => MasksSelect  BY DEF MasksSelect
<1>. QED BY <1>1, SearchTheorem, OrderTheorem, ReachTheorem, PTL

\* Class path: whatever is added to a path and taken from it, the text it displays
\* is the one of a path, and of this one.
THEOREM ReadBackTheorem == MaskSpec => []PathReadsBack
<1>1. MaskInv => PathReadsBack  BY ReadsBack DEF MaskInv, PathInv, PathReadsBack
<1>. QED BY <1>1, MasksInductive, PTL
=============================================================================
