------------------------------ MODULE MCBackup ------------------------------
(***************************************************************************)
(* Instances of Backup for TLC, and the restoration of the archives made,  *)
(* from the full one to the last differential one, into an empty           *)
(* directory: filtre_restore of libdar/filtre.cpp and                      *)
(* filesystem_restore::write of libdar/filesystem.cpp, with everything     *)
(* overwritten (-w), dirty files accepted and the whole archive asked for. *)
(* It is an operator on the archives of module Backup, which the           *)
(* properties compare with the disk.                                       *)
(***************************************************************************)
EXTENDS Backup

CONSTANTS i1, i2

\* A directory with one name in it, and a file after it.
TreePath == {<<"d">>, <<"d", "x">>, <<"z">>}
TreeOrder == <<<<"d">>, <<"d", "x">>, <<"z">>>>
TreeDisk == {<<"d">> :> "dir" @@ <<"d", "x">> :> i1 @@ <<"z">> :> i2}
TreeMasks == {TreePath, TreePath \ {<<"d">>}, TreePath \ {<<"d", "x">>}}

\* Three names in the root: separate files, two links of one, or a missing one.
LinksPath == {<<"a">>, <<"b">>, <<"c">>}
LinksOrder == <<<<"a">>, <<"b">>, <<"c">>>>
LinksDisk == {<<"a">> :> i1 @@ <<"b">> :> i2 @@ <<"c">> :> i1,
              <<"a">> :> i1 @@ <<"b">> :> i1 @@ <<"c">> :> i2,
              <<"a">> :> "none" @@ <<"b">> :> i1 @@ <<"c">> :> i1}
AllCovered == {LinksPath}

-----------------------------------------------------------------------------
\* A place of the restored tree; inode tells hard links from copies: it is the
\* step, archive and path, that created it.
Nothing == [kind |-> "none", inode |-> <<>>, data |-> <<>>]
Directory == [kind |-> "dir", inode |-> <<>>, data |-> <<>>]

\* supprime: a place and all below it.
Supprime(place, p) == [q \in Path |-> IF q \in Under(p) THEN Nothing ELSE place[q]]

\* make_file for a plain file: a hard link to the first restored link of its
\* inode, corres_write, or else the data.
MakeFile(r, k, p, s) ==
  [r EXCEPT !.place[p] = IF s \in DOMAIN r.corres_write THEN r.place[r.corres_write[s]]
                         ELSE [kind  |-> "file", inode |-> <<k, p>>,
                               data  |-> archives[k].etoile[s].data],
            !.corres_write = @ @@ (s :> p)]

\* filesystem_restore::write for the entry at p of the k-th archive.
Write(r, k, p) ==
  LET x == archives[k].cat[p]
      s == x.star
      exists == r.place[p].kind # "none"
      removed == [r EXCEPT !.place = Supprime(r.place, p)]
      saved == archives[k].etoile[s].saved
  IN CASE x.kind = "detruit" -> removed
       [] x.kind = "dir" ->
            IF r.place[p].kind = "dir" THEN r ELSE [removed EXCEPT !.place[p] = Directory]
       [] x.kind = "file" /\ (saved \/ (~exists /\ s \in DOMAIN r.corres_write)) ->
            MakeFile(removed, k, p, s)
       [] x.kind = "file" /\ ~saved /\ exists /\ archives[k].etoile[s].mirage ->
            [r EXCEPT !.corres_write = @ @@ (s :> p)]
       [] OTHER -> r

\* filtre_restore: the entries of an archive in their order.  Each archive of
\* the chain is restored by a run of its own, which knows no hard link at first.
RestoreOne(place, k) ==
  FoldLeft(LAMBDA r, p : IF p \in DOMAIN archives[k].cat THEN Write(r, k, p) ELSE r,
           [place |-> place, corres_write |-> Empty], Order).place

\* The tree restored from the first n archives.
Restored(n) ==
  FoldLeft(RestoreOne, [p \in Path |-> Nothing], [k \in 1..n |-> k])
-----------------------------------------------------------------------------

Finished == Idle /\ archives # <<>> /\ still

\* The restored tree has at p what is there on the disk.
AsOnDisk(place, p) ==
  IF disk[p] \in Inode
  THEN place[p].kind = "file" /\ place[p].data = <<version[disk[p]], version[disk[p]]>>
  ELSE place[p].kind = disk[p]

\* A backup left out as ignored a name, or a directory above it, that the
\* archive before had: it does not know whether the name was removed since.
LeftOut(p) ==
  \E n \in 2..Len(archives), q \in Path :
    /\ p \in Under(q)
    /\ q \in DOMAIN archives[n - 1].cat /\ archives[n - 1].cat[q].kind # "detruit"
    /\ q \notin DOMAIN archives[n].cat /\ Reached(archives[n].cat, q)

\* A backup met a name as a further link of an inode that had not changed,
\* and did not compare it with what the archives before have at that name.
NotCompared(p) ==
  \E n \in 2..Len(archives) :
    LET now == archives[n].cat
        before == archives[n - 1].cat
        s == now[p].star
    IN /\ p \in DOMAIN now /\ now[p].kind = "file" /\ s # p /\ ~archives[n].etoile[s].saved
       /\ \E k \in 1..(n - 1) : p \in DOMAIN archives[k].cat
       /\ ~ (/\ {p, s} \subseteq DOMAIN before
             /\ before[p].kind = "file" /\ before[s].kind = "file"
             /\ before[p].star = before[s].star)

\* A name was given to another file while it was copied, and the dates do not
\* tell.  (A file found to have changed is dirty, and saved again next time.)
NotSure(p) ==
  \E n \in 1..Len(archives) :
    /\ p \in DOMAIN archives[n].cat /\ archives[n].cat[p].kind = "file"
    /\ LET i == archives[n].etoile[archives[n].cat[p].star] IN ~i.sure /\ ~i.dirty

\* A file saved dirty is not saved again: the archive of a backup interrupted
\* before it was reached has it as unchanged and not dirty.
DirtyForgotten(p) ==
  \E n \in 2..Len(archives) :
    LET now == archives[n].cat
        before == archives[n - 1].cat
    IN /\ archives[n].aborted
       /\ p \in DOMAIN now \cap DOMAIN before
       /\ now[p].kind = "file" /\ before[p].kind = "file"
       /\ ~archives[n].etoile[now[p].star].saved /\ archives[n - 1].etoile[before[p].star].dirty

\* That happened to a name, or to one an archive has as a link of its inode.
Astray(p) ==
  \E q \in Path :
    /\ NotCompared(q) \/ NotSure(q) \/ DirtyForgotten(q)
    /\ q = p \/ \E n \in 1..Len(archives) :
                   /\ {p, q} \subseteq DOMAIN archives[n].cat
                   /\ archives[n].cat[p].star = archives[n].cat[q].star

Requested(p) == {q \in Path : p \in Under(q)} \subseteq mask

\* A name the chain is to give back as it is on the disk.
Followed(p) ==
  IF disk[p] = "none" THEN ~LeftOut(p)
  ELSE Requested(p) /\ ~Astray(p) /\ disk[p] \notin undated

\* Restoring a chain, full and differential archives, gives back what was on
\* the disk at the last backup, what was removed in between and the hard links
\* included, whatever happened in the backups before it: interrupted, files
\* missed, changed while they were read, read again.
ChainRestoresTheDisk ==
  Finished /\ ~Last(archives).aborted =>
    LET place == Restored(Len(archives))
    IN /\ \A p \in Path : Followed(p) => AsOnDisk(place, p)
       /\ \A p, q \in Path :
            Followed(p) /\ Followed(q) /\ {disk[p], disk[q]} \subseteq Inode =>
              (place[p].inode = place[q].inode <=> disk[p] = disk[q])

\* The archive of an interrupted backup gives each name as the chain had it
\* before, or as the disk has it: what was not reached is neither lost nor
\* mixed up.
InterruptedKeepsOrRefreshes ==
  Finished /\ Last(archives).aborted =>
    LET before == Restored(Len(archives) - 1)
        after == Restored(Len(archives))
    IN \A p \in Path : \/ Astray(p)
                       \/ after[p].kind = before[p].kind /\ after[p].data = before[p].data
                       \/ AsOnDisk(after, p)
=============================================================================
