--------------------------- MODULE DatabaseStore ---------------------------
(***************************************************************************)
(* What dar_manager promises about the file of a database: a process makes *)
(* of what the file held what its user asks for, one request after the     *)
(* other, and the file takes what was made, whole, or is torn by a writing *)
(* that did not come to its end.                                           *)
(***************************************************************************)
EXTENDS Integers, Sequences, SequencesExt

CONSTANTS
  Earlier,    \* the contents it may have at first
  Stamp,      \* the dates archives may be of
  MaxArchive  \* how many archives a database holds at most

VARIABLES
  good,  \* the content the file had when it was last complete
  whole, \* whether it is complete
  draft  \* what a process has made of it

vars == <<good, whole, draft>>

Value == {"given", "changed"}
New(s) == [stamp |-> s, name |-> "given", path |-> "given"]
Setting == {"options", "dar_path"}
Empty == [archives |-> <<>>, settings |-> {}]

\* The archives but those of numbers a to b.
Without(s, a, b) == SubSeq(s, 1, a - 1) \o SubSeq(s, b + 1, Len(s))

\* What the requests make of a content.
Added(c) == {[c EXCEPT !.archives = Append(@, New(s))] :
               s \in {t \in Stamp : Len(c.archives) < MaxArchive}}
Removed(c) == {[c EXCEPT !.archives = Without(@, a, b)] : a, b \in 1..Len(c.archives)}
Moved(c) == {[c EXCEPT !.archives = InsertAt(RemoveAt(@, i), j, @[i])] :
               i, j \in 1..Len(c.archives)}
Renamed(c) == {[c EXCEPT !.archives[k].name = "changed"] : k \in 1..Len(c.archives)}
Placed(c) == {[c EXCEPT !.archives[k].path = "changed"] : k \in 1..Len(c.archives)}
Configured(c) == {[c EXCEPT !.settings = @ \cup {x}] : x \in Setting}

Edited(c) == {c} \cup Added(c) \cup Removed(c) \cup Moved(c)
             \cup Renamed(c) \cup Placed(c) \cup Configured(c)

Init == /\ \/ good = Empty /\ whole = FALSE
           \/ good \in Earlier /\ whole = TRUE
        /\ draft = good

Edit == draft' \in Edited(draft) /\ UNCHANGED <<good, whole>>

\* A process ends; the next one starts from the file.
Forget == draft' = good /\ UNCHANGED <<good, whole>>

Tear == whole' = FALSE /\ UNCHANGED <<good, draft>>

Write == whole' = TRUE /\ good' = draft /\ draft' = draft

Next == Edit \/ Forget \/ Tear \/ Write
Spec == Init /\ [][Next]_vars
=============================================================================
