---------------------------- MODULE MCDarManager ----------------------------
(***************************************************************************)
(* Small sessions of dar_manager for TLC, and the refinement: the file     *)
(* given with -B does what DatabaseStore says.                             *)
(***************************************************************************)
EXTENDS DarManager

VARIABLE good \* the content the file Base had when it was last complete

Content(f) == [archives |-> f.coordinate, settings |-> f.settings]

\* Databases of up to three archives, in order and not.
SomeDatabases == {<<>>, <<1, 2>>, <<1, 1, 2>>, <<1, 2, 1>>}

MCInit == Init /\ good = Content(disk[Base])
MCNext ==
  /\ Next
  /\ good' = IF disk'[Base].state = "whole" THEN Content(disk'[Base]) ELSE good
MCSpec == MCInit /\ [][MCNext]_<<vars, good>>

\* What a process has made of the file: nothing before it has read it, or made
\* sure that there is none.
Draft == IF pc \in {"shell", "reading"} \/ (op = "create" /\ pc = "opening") THEN good
         ELSE Content(dat)

Store == INSTANCE DatabaseStore
  WITH whole <- disk[Base].state = "whole", draft <- Draft, MaxArchive <- ArchiveNumMax - 1,
       Earlier <- {Content(Left(s)) : s \in Earlier}

\* Whatever is killed, refused or cancelled, and whatever is saved under
\* another name, the file given with -B goes from one content to what the
\* requests of a process make of it, header and tree together, or is torn
\* (dar_manager.cpp little_main, op_batch, op_interactive, write_base).
StoreIsImplemented == Store!Spec

\* What the process has in memory: the header and the tree belong together, a
\* command that needs the tree finds it, and delayed requests are blocked only
\* while the file is written or after that failed.
MemoryIsWhole == HeaderMatchesTree /\ TreeIsThere /\ BlockedByFailureOnly
=============================================================================
