------------------------------ MODULE Clusters ------------------------------
(***************************************************************************)
(* The allocation of small objects (libdar/special_alloc.cpp).  A cluster  *)
(* is a piece of memory cut into blocks of one size, with a table of words *)
(* saying which are taken; a sized object lists the clusters of one size,  *)
(* keeping one that is empty in case it is needed again; zones tell from a *)
(* pointer which cluster it comes from.  The mutex makes one step of a     *)
(* call; any thread may release what another one was given.                *)
(***************************************************************************)
EXTENDS Integers, Sequences, FiniteSets

CONSTANTS BlockSizes,        \* what is asked for
          Memory,            \* addresses 0 to Memory - 1
          WordBits,          \* blocks a word of the table stands for
          AverageTableSize

VARIABLES carte,    \* size -> clusters (by address), next_free_in_table, pending_release
          ordered,  \* address of a cluster -> block_size, words, next, taken
          live,     \* <<pointer, size asked>>, what the program holds
          result    \* how the last call ended

vars == <<carte, ordered, live, result>>

NoCluster == -1
IsEnd == -2  \* the end of a list

BlockSize(size) == IF size > 0 THEN size ELSE 1
TableSize(size) == IF size > 0 THEN AverageTableSize \div (WordBits * size) + 1 ELSE 1
Blocks(c) == c.words * WordBits
Area(a, c) == a..(a + Blocks(c) * c.block_size - 1)
Full(c) == Cardinality(c.taken) = Blocks(c)

\* What operator new may give: any piece of memory that is free.
Places(size) ==
  LET new == [block_size |-> BlockSize(size), words |-> TableSize(size), next |-> 0, taken |-> {}]
  IN {x \in (0..(Memory - 1)) \X {new} :
        /\ Area(x[1], x[2]) \subseteq 0..(Memory - 1)
        /\ \A a \in DOMAIN ordered : Area(a, ordered[a]) \cap Area(x[1], x[2]) = {}}

-----------------------------------------------------------------------------
(* cluster::alloc *)

Word(c, w) == {b \in c.taken : b \div WordBits = w}
FullWord(c, w) == Cardinality(Word(c, w)) = WordBits
FirstWord(c, from) ==
  LET free == {w \in from..(c.words - 1) : ~ FullWord(c, w)}
  IN IF free = {} THEN c.words ELSE CHOOSE w \in free : \A v \in free : w <= v
FreeWord(c) == IF FirstWord(c, c.next) < c.words THEN FirstWord(c, c.next) ELSE FirstWord(c, 0)
FreeSlot(c) ==
  LET slots == {b \in (FreeWord(c) * WordBits)..(FreeWord(c) * WordBits + WordBits - 1) : b \notin c.taken}
  IN CHOOSE b \in slots : \A e \in slots : b <= e
Taken(c) == [c EXCEPT !.next = FreeWord(c), !.taken = @ \cup {FreeSlot(c)}]

-----------------------------------------------------------------------------
(* sized::alloc *)

Rank(s, a) == CHOOSE i \in DOMAIN s : s[i] = a
\* Faulty: the cluster kept in case is used as any other.
UsableAnyway(z, a) == ~ Full(ordered[a])
Usable(z, a) == a # z.pending /\ ~ Full(ordered[a])
FirstUsable(z, from) ==
  LET ok == {i \in from..Len(z.clusters) : Usable(z, z.clusters[i])}
  IN IF ok = {} THEN IsEnd ELSE z.clusters[CHOOSE i \in ok : \A j \in ok : i <= j]
Found(z) ==
  LET after == IF z.next = IsEnd THEN IsEnd ELSE FirstUsable(z, Rank(z.clusters, z.next))
  IN IF after # IsEnd THEN after ELSE FirstUsable(z, 1)

Give(size, z, a, c) ==
  /\ carte' = [s \in DOMAIN carte \cup {size} |-> IF s = size THEN z ELSE carte[s]]
  /\ IF Full(c) THEN result' = "SRC_BUG" /\ UNCHANGED <<ordered, live>>
     ELSE /\ ordered' = [b \in DOMAIN ordered \cup {a} |-> IF b = a THEN Taken(c) ELSE ordered[b]]
          /\ live' = live \cup {<<a + c.block_size * FreeSlot(c), size>>} /\ result' = "done"

\* special_alloc_new, for a size that was not used yet.
NewSized(size) ==
  /\ size \notin DOMAIN carte
  /\ \E x \in Places(size) :
       Give(size, [clusters |-> <<x[1]>>, next |-> x[1], pending |-> NoCluster], x[1], x[2])

Alloc(size) ==
  /\ size \in DOMAIN carte
  /\ LET z == carte[size]
     IN IF Found(z) # IsEnd THEN Give(size, [z EXCEPT !.next = Found(z)], Found(z), ordered[Found(z)])
        ELSE IF z.pending = NoCluster
        THEN \E x \in Places(size) :
               Give(size, [z EXCEPT !.clusters = <<x[1]>> \o @, !.next = x[1]], x[1], x[2])
        ELSE IF \A i \in DOMAIN z.clusters : z.clusters[i] # z.pending
        THEN result' = "SRC_BUG" /\ UNCHANGED <<carte, ordered, live>>
        ELSE Give(size, [z EXCEPT !.next = z.pending, !.pending = NoCluster], z.pending, ordered[z.pending])

\* operator new fails: what is searched has moved to the end of the list.
OutOfMemory(size) ==
  /\ size \in DOMAIN carte => Found(carte[size]) = IsEnd /\ carte[size].pending = NoCluster
  /\ carte' = IF size \in DOMAIN carte THEN [carte EXCEPT ![size].next = IsEnd] ELSE carte
  /\ result' = "Ememory" /\ UNCHANGED <<ordered, live>>

-----------------------------------------------------------------------------
(* special_alloc_delete, cluster::inherited_release, push_to_release_list *)

Without(s, a) == SelectSeq(s, LAMBDA b : b # a)
After(s, a) == IF Rank(s, a) < Len(s) THEN s[Rank(s, a) + 1] ELSE IsEnd

\* The cluster that was kept is deleted for the one that is now empty.
Push(z, a) ==
  IF z.pending = NoCluster THEN [z EXCEPT !.pending = a]
  ELSE [clusters |-> Without(z.clusters, z.pending),
        next |-> IF z.next = z.pending THEN After(z.clusters, z.next) ELSE z.next,
        pending |-> a]

Release(x) ==
  LET ptr == x[1]
      zones == {a \in DOMAIN ordered : ptr \in Area(a, ordered[a])}
  IN IF zones = {} THEN result' = "SRC_BUG" /\ live' = live \ {x} /\ UNCHANGED <<carte, ordered>>
     ELSE LET a == CHOOSE b \in zones : TRUE
              c == ordered[a]
              slot == (ptr - a) \div c.block_size
              size == CHOOSE s \in DOMAIN carte : \E i \in DOMAIN carte[s].clusters : carte[s].clusters[i] = a
              z == Push(carte[size], a)
              emptied == c.taken = {slot}
          IN IF (ptr - a) % c.block_size # 0 \/ slot \notin c.taken
             THEN result' = "SRC_BUG" /\ live' = live \ {x} /\ UNCHANGED <<carte, ordered>>
             ELSE /\ live' = live \ {x}
                  /\ carte' = IF emptied THEN [carte EXCEPT ![size] = z] ELSE carte
                  /\ ordered' = LET left == IF emptied /\ carte[size].pending # NoCluster
                                            THEN DOMAIN ordered \ {carte[size].pending} ELSE DOMAIN ordered
                                IN [b \in left |-> IF b = a THEN [c EXCEPT !.taken = @ \ {slot}] ELSE ordered[b]]
                  /\ result' = IF emptied /\ z.clusters = <<>> THEN "SRC_BUG" ELSE "done"

\* special_alloc_garbage_collect
Unused(z) == Len(z.clusters) = 1 /\ ordered[z.clusters[1]].taken = {}
GarbageCollect ==
  LET gone == {s \in DOMAIN carte : Unused(carte[s])}
  IN /\ carte' = [s \in DOMAIN carte \ gone |-> carte[s]]
     /\ ordered' = [a \in DOMAIN ordered \ {carte[s].clusters[1] : s \in gone} |-> ordered[a]]
     /\ result' = "collected" /\ UNCHANGED live

Init == carte = <<>> /\ ordered = <<>> /\ live = {} /\ result = "none"
Next == /\ result # "SRC_BUG"
        /\ \/ \E size \in BlockSizes : NewSized(size) \/ Alloc(size) \/ OutOfMemory(size)
           \/ \E x \in live : Release(x)
           \/ GarbageCollect
Spec == Init /\ [][Next]_vars

-----------------------------------------------------------------------------
Bytes(x) == x[1]..(x[1] + BlockSize(x[2]) - 1)

\* What is given out lies apart, in the cluster that records it as taken, and
\* nothing else is recorded.
BlocksAreApart ==
  /\ \A x, y \in live : x # y => Bytes(x) \cap Bytes(y) = {}
  /\ \A x \in live : \E a \in DOMAIN ordered :
       Bytes(x) \subseteq Area(a, ordered[a]) /\ (x[1] - a) \div ordered[a].block_size \in ordered[a].taken
  /\ \A a \in DOMAIN ordered :
       Cardinality(ordered[a].taken) = Cardinality({x \in live : x[1] \in Area(a, ordered[a])})

\* No size keeps more than one empty cluster, and only to use it again; once
\* garbage is collected, the sizes that are left are those in use.
MemoryIsGivenBack ==
  /\ \A a \in DOMAIN ordered : Cardinality({s \in DOMAIN carte : \E i \in DOMAIN carte[s].clusters :
                                             carte[s].clusters[i] = a}) = 1
  /\ \A s \in DOMAIN carte : \A i \in DOMAIN carte[s].clusters :
       ordered[carte[s].clusters[i]].taken = {} => carte[s].pending = carte[s].clusters[i]
  /\ result = "collected" => DOMAIN carte = {x[2] : x \in live}

\* The calls of a program that releases once what it was given meet no
\* internal error.
NoBug == result # "SRC_BUG"

ClustersAreShared == BlocksAreApart /\ MemoryIsGivenBack /\ NoBug
=============================================================================
