------------------------------- MODULE Storage -------------------------------
(***************************************************************************)
(* Data of any size (libdar/storage.cpp): a list of cells, more than one   *)
(* when the memory asked for could only be had in pieces, and an iterator  *)
(* on it.  A cell is a sequence of bytes; the iterator is a cell and an    *)
(* offset, the cell being 0 (NULL) when it has left the data.              *)
(***************************************************************************)
EXTENDS Integers, Sequences

SE == INSTANCE SequencesExt

CONSTANTS Byte,            \* what is written
          MaxSize,         \* bound on the bytes stored
          Moves,           \* by how much an iterator is moved
          MaySplit,        \* TRUE where an allocation may fail
          MayEmptyACell    \* TRUE: removing may leave a cell without a byte

VARIABLES cells, it, answer

vars == <<cells, it, answer>>

OffBegin == [cell |-> 0, offset |-> 1]
OffEnd == [cell |-> 0, offset |-> 2]
Begin(c) == IF c = <<>> THEN OffEnd ELSE [cell |-> 1, offset |-> 0]
RBegin(c) == [cell |-> Len(c), offset |-> Len(c[Len(c)]) - 1]

Content(c) == SE!FlattenSeq(c)
Size(c) == Len(Content(c))
Before(c, i) == Size(SubSeq(c, 1, i - 1))
\* The bytes before the iterator, -1 when it is before the first one.
At(c, i) == IF i = OffEnd THEN Size(c) ELSE IF i = OffBegin THEN -1
            ELSE Before(c, i.cell) + i.offset

-----------------------------------------------------------------------------
(* make_alloc: what a request for size bytes is split into.  The piece that
   was had is asked for again, even when less is left: a size that then goes
   below zero ends in the lack of memory. *)

Halves[n \in 0..MaxSize] == {n} \cup (IF MaySplit /\ n > 2 THEN Halves[n \div 2] ELSE {})
NoMemory == <<0>>
Splits[x \in (0..MaxSize) \X (0..MaxSize)] ==
  IF x[1] = 0 THEN {<<>>}
  ELSE UNION {IF n > x[1] THEN {NoMemory} ELSE {<<n>> \o s : s \in Splits[<<x[1] - n, n>>]} : n \in Halves[x[2]]}
Enough(sizes) == \A i \in DOMAIN sizes : sizes[i] # 0
MakeAlloc(size) == {s \in Splits[<<size, size>>] : Enough(s)}
Sum(sizes) == SE!FoldSeq(LAMBDA n, total : n + total, 0, sizes)
Cut(bytes, sizes) ==
  [i \in DOMAIN sizes |-> SubSeq(bytes, Sum(SubSeq(sizes, 1, i - 1)) + 1, Sum(SubSeq(sizes, 1, i)))]
Stored(bytes) == {Cut(bytes, s) : s \in MakeAlloc(Len(bytes))}

(* reduce: two neighbours become one cell, unless memory as large was
   refused before.  detruit refuses a cell without a byte. *)
RECURSIVE ReduceFrom(_, _, _)
ReduceFrom(c, i, failed) ==
  IF i >= Len(c) THEN {[cells |-> c, bug |-> FALSE]}
  ELSE LET somme == Len(c[i]) + Len(c[i + 1])
           joined == SubSeq(c, 1, i - 1) \o <<c[i] \o c[i + 1]>> \o SubSeq(c, i + 2, Len(c))
       IN IF somme >= failed THEN ReduceFrom(c, i + 1, failed)
          ELSE (IF c[i + 1] = <<>> THEN {[cells |-> joined, bug |-> TRUE]} ELSE ReduceFrom(joined, i, failed))
               \cup (IF MaySplit THEN ReduceFrom(c, i + 1, somme) ELSE {})
Reduce(c) == ReduceFrom(c, 1, MaxSize + 1)

-----------------------------------------------------------------------------
(* read and write *)

\* Where n bytes from the iterator lead: at the end of a cell when its last
\* byte is used, and out of the data only once more was asked for.
Behind(c, i, n) ==
  LET at == At(c, i) + n
      cell == CHOOSE k \in DOMAIN c : Before(c, k) < at /\ at <= Before(c, k + 1)
  IN IF n = 0 THEN i ELSE [cell |-> cell, offset |-> at - Before(c, cell)]
Room(c, i) == IF i = OffEnd THEN 0 ELSE Size(c) - At(c, i)
Used(n) == IF n > Room(cells, it) THEN OffEnd ELSE Behind(cells, it, n)

Overwritten(c, i, bytes) ==
  [k \in DOMAIN c |-> [o \in 1..Len(c[k]) |->
     LET at == Before(c, k) + o - At(c, i) IN IF at \in DOMAIN bytes THEN bytes[at] ELSE c[k][o]]]

Ask(op, arg, got) == answer' = [op |-> op, arg |-> arg, got |-> got]

Chunks == UNION {[1..n -> Byte] : n \in 1..2}
Write ==
  \E bytes \in Chunks :
    /\ it # OffBegin
    /\ cells' = Overwritten(cells, it, bytes)
    /\ it' = Used(Len(bytes))
    /\ Ask("write", bytes, IF Len(bytes) > Room(cells, it) THEN Room(cells, it) ELSE Len(bytes))

Read ==
  \E n \in 1..3 :
    /\ it # OffBegin
    /\ it' = Used(n)
    /\ Ask("read", n, SubSeq(Content(cells), At(cells, it) + 1,
                             At(cells, it) + (IF n > Room(cells, it) THEN Room(cells, it) ELSE n)))
    /\ UNCHANGED cells

-----------------------------------------------------------------------------
(* insert_bytes_at_iterator_cmn, remove_bytes_at_iterator: the iterator is
   worth nothing behind them. *)

Settle(c, arg, op) ==
  \E r \in Reduce(c) :
    /\ cells' = r.cells /\ it' = Begin(r.cells)
    /\ Ask(op, arg, IF r.bug THEN "SRC_BUG" ELSE "done")

Insert ==
  \E bytes \in Chunks :
    /\ Size(cells) + Len(bytes) <= MaxSize
    /\ IF it.cell = 0
       THEN \E new \in Stored(bytes) :
              Settle(IF it = OffEnd THEN cells \o new ELSE new \o cells, bytes, "insert")
       ELSE LET old == cells[it.cell]
                both == SubSeq(old, 1, it.offset) \o bytes \o SubSeq(old, it.offset + 1, Len(old))
            IN \E new \in Stored(both) :
                 Settle(SubSeq(cells, 1, it.cell - 1) \o new \o SubSeq(cells, it.cell + 1, Len(cells)),
                        bytes, "insert")

RECURSIVE Removed(_, _, _, _)
Removed(c, k, offset, n) ==
  IF n = 0 \/ k > Len(c) THEN c
  ELSE LET can == Len(c[k]) - offset
           kept == SubSeq(c[k], 1, offset)
       IN IF can >= n THEN [c EXCEPT ![k] = kept \o SubSeq(@, offset + n + 1, Len(@))]
          ELSE IF offset > 0 THEN Removed([c EXCEPT ![k] = kept], k + 1, 0, n - can)
          ELSE Removed(SubSeq(c, 1, k - 1) \o SubSeq(c, k + 1, Len(c)), k, 0, n - can)

Remove ==
  \E n \in 1..3 :
    /\ it.cell # 0
    /\ LET c == Removed(cells, it.cell, it.offset, n)
       IN /\ MayEmptyACell \/ \A k \in DOMAIN c : c[k] # <<>>
          /\ Settle(c, n, "remove")

\* copy_from: what was had for the other is not had again.
Copy ==
  \E new \in Stored(Content(cells)) :
    cells' = new /\ it' = Begin(new) /\ Ask("copy", 0, "done")

-----------------------------------------------------------------------------
(* The iterator. *)

PlusOne(c, i) ==
  IF i.cell = 0 THEN i
  ELSE IF i.offset + 1 < Len(c[i.cell]) THEN [i EXCEPT !.offset = @ + 1]
  ELSE IF i.cell < Len(c) THEN [cell |-> i.cell + 1, offset |-> 0] ELSE OffEnd
LessOne(c, i) ==
  IF i.cell = 0 THEN i
  ELSE IF i.offset > 0 THEN [i EXCEPT !.offset = @ - 1]
  ELSE IF i.cell > 1 THEN [cell |-> i.cell - 1, offset |-> Len(c[i.cell - 1]) - 1] ELSE OffBegin

\* relative_skip_to
RECURSIVE Forward(_, _, _)
Forward(c, i, n) ==
  IF i.cell = 0 THEN OffEnd
  ELSE IF n = 0 THEN i
  ELSE IF i.offset + n < Len(c[i.cell]) THEN [i EXCEPT !.offset = @ + n]
  ELSE Forward(c, IF i.cell < Len(c) THEN [cell |-> i.cell + 1, offset |-> 0] ELSE OffEnd,
               n - (Len(c[i.cell]) - i.offset))
RECURSIVE Backward(_, _, _)
Backward(c, i, n) ==
  IF i.cell = 0 \/ n = 0 THEN i
  ELSE IF n <= i.offset THEN [i EXCEPT !.offset = @ - n]
  ELSE Backward(c, IF i.cell > 1 THEN [cell |-> i.cell - 1, offset |-> Len(c[i.cell - 1])] ELSE OffBegin,
                n - i.offset)
\* operator +=, in two halves; operator -=
Plus(c, i, n) == Forward(c, Forward(c, i, n \div 2), n - n \div 2)

Move ==
  /\ UNCHANGED cells
  \* One behind the last byte of a cell, a single step is one too many.
  /\ \/ /\ it.cell # 0 => it.offset < Len(cells[it.cell])
        /\ it' = PlusOne(cells, it) /\ Ask("++", 1, "done")
     \/ it' = LessOne(cells, it) /\ Ask("--", 1, "done")
     \/ \E n \in Moves : it' = Plus(cells, it, n) /\ Ask("+=", n, "done")
     \/ \E n \in Moves : it' = Backward(cells, it, n) /\ Ask("-=", n, "done")
     \/ \E n \in Moves : it' = Forward(cells, Begin(cells), n) /\ Ask("skip_to", n, "done")
     \/ cells # <<>> /\ it' = RBegin(cells) /\ Ask("rbegin", 0, "done")

\* operator *, get_position
Ref ==
  /\ Ask("*", 0, IF it.cell # 0 /\ it.offset < Len(cells[it.cell]) THEN cells[it.cell][it.offset + 1] ELSE "Erange")
  /\ UNCHANGED <<cells, it>>

Init == cells = <<>> /\ it = OffEnd /\ answer = [op |-> "none", arg |-> 0, got |-> "none"]
Next == Write \/ Read \/ Insert \/ Remove \/ Copy \/ Move \/ Ref
Spec == Init /\ [][Next]_vars

-----------------------------------------------------------------------------
(* The sequence of bytes it stands for. *)

Old == Content(cells)
Here == At(cells, it)
New == Content(cells')
There == At(cells', it')
Arg == answer'.arg
Capped(n) == IF n > Len(Old) - Here THEN Len(Old) - Here ELSE n
\* A position left by the end does not come back.
Left == it.cell = 0

\* However the bytes were split when they were allocated, a storage is the
\* sequence of its bytes, and its iterator a position in it.
StorageStep ==
  CASE answer'.op = "write" -> /\ New = [k \in DOMAIN Old |-> IF k - Here \in DOMAIN Arg THEN Arg[k - Here] ELSE Old[k]]
                               /\ There = Here + Capped(Len(Arg)) /\ answer'.got = Capped(Len(Arg))
    [] answer'.op = "read" -> /\ New = Old /\ There = Here + Capped(Arg)
                              /\ answer'.got = SubSeq(Old, Here + 1, Here + Capped(Arg))
    [] answer'.op = "insert" -> LET at == IF Here < 0 THEN 0 ELSE Here
                                IN New = SubSeq(Old, 1, at) \o Arg \o SubSeq(Old, at + 1, Len(Old)) /\ answer'.got = "done"
    [] answer'.op = "remove" -> /\ New = SubSeq(Old, 1, Here) \o SubSeq(Old, Here + Arg + 1, Len(Old))
                                /\ answer'.got = "done"
    [] answer'.op = "copy" -> New = Old
    [] answer'.op \in {"++", "+="} -> New = Old /\ There = IF Left /\ answer'.op = "++" THEN Here
                                                          ELSE IF Left THEN Len(Old) ELSE Here + Capped(Arg)
    [] answer'.op \in {"--", "-="} -> New = Old /\ There = IF Left THEN Here ELSE IF Arg > Here THEN -1 ELSE Here - Arg
    [] answer'.op = "skip_to" -> New = Old /\ There = IF Arg > Len(Old) THEN Len(Old) ELSE Arg
    [] answer'.op = "rbegin" -> New = Old /\ There = Len(Old) - 1
    [] answer'.op = "*" -> New = Old /\ answer'.got = IF it.cell # 0 /\ it.offset < Len(cells[it.cell])
                                                     THEN Old[Here + 1] ELSE "Erange"
    [] answer'.op = "none" -> New = Old
StorageIsASequence == [][StorageStep]_vars
=============================================================================
