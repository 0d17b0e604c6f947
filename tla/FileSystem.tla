----------------------------- MODULE FileSystem -----------------------------
(***************************************************************************)
(* The part of the host's file system below the exported directories, as   *)
(* the system calls made by the server see it: a tree of names, the inode  *)
(* each name is linked to, and the type of each inode.  Nothing here is in *)
(* the repository; every operator is the POSIX call of the same name.      *)
(*                                                                         *)
(* Inode numbers are reused: a number with no link left is free and may be *)
(* given to the next file.  The target of a symbolic link dangles, so a    *)
(* call that follows links fails on one.                                   *)
(***************************************************************************)
EXTENDS NfsStatus, Naturals, Sequences

CONSTANTS Name,      \* the file names in use
          LongName,  \* a file name longer than NFS_MAXNAMLEN
          Inode,     \* the inode numbers of the device
          RootIno,   \* the inode of the root of the modelled tree
          MaxDepth   \* bound: the length of the longest path

Path == UNION {[1..n -> Name] : n \in 0..MaxDepth}

ASSUME FileSystemAssumption ==
    /\ MaxDepth \in Nat
    /\ RootIno \in Inode
    /\ LongName \notin Name
    /\ NULL \notin Inode
    /\ NULL \notin Path

VARIABLES tree,   \* the inode each path is linked to, NULL where there is none
          ftype   \* the type of each inode, "none" for one that has no link

fsvars == <<tree, ftype>>

FileSystemInit ==
    /\ tree = [p \in Path |-> IF p = <<>> THEN RootIno ELSE NULL]
    /\ ftype = [i \in Inode |-> IF i = RootIno THEN "NFDIR" ELSE "none"]

-----------------------------------------------------------------------------
Child(p, n) == IF p = NULL THEN NULL ELSE Append(p, n)

lstat(p) == IF p \in Path THEN tree[p] ELSE NULL

TypeAt(p) == IF lstat(p) = NULL THEN "none" ELSE ftype[lstat(p)]

FreeInode == {i \in Inode : \A p \in Path : tree[p] # i}

Under(d, p) == Len(d) <= Len(p) /\ SubSeq(p, 1, Len(d)) = d

IsEmptyDirectory(p) == \A n \in Name : lstat(Append(p, n)) = NULL

\* The tree becomes t; an inode with no link left in t is freed.
Become(t, types) ==
    /\ tree' = t
    /\ ftype' = [i \in Inode |-> IF \E p \in Path : t[p] = i THEN types[i] ELSE "none"]

\* open(O_CREAT), mkdir and symlink of a name that does not exist
MakeNode(p, i, t) == Become([tree EXCEPT ![p] = i], [ftype EXCEPT ![i] = t])

\* link of a name that does not exist
MakeLink(p, i) == Become([tree EXCEPT ![p] = i], ftype)

\* unlink, and rmdir of an empty directory
DropName(p) == Become([tree EXCEPT ![p] = NULL], ftype)

\* What rename(2) reports: "0" or the errno.
RenameErrno(from, to) ==
    LET replaces == lstat(to) \notin {NULL, lstat(from)}
        moves    == TypeAt(from) = "NFDIR"
    IN  IF to[Len(to)] = LongName                                 THEN "ENAMETOOLONG"
        ELSE IF moves /\ from # to /\ Under(from, to)              THEN "EINVAL"
        ELSE IF replaces /\ moves /\ TypeAt(to) # "NFDIR"          THEN "ENOTDIR"
        ELSE IF replaces /\ ~moves /\ TypeAt(to) = "NFDIR"         THEN "EISDIR"
        ELSE IF replaces /\ moves /\ ~IsEmptyDirectory(to)         THEN "ENOTEMPTY"
        ELSE "0"

\* The path that p, at or below 'to' after the move, had before it.
Before(from, to, p) == from \o SubSeq(p, Len(to) + 1, Len(p))

\* Nothing happens when both names are links to the same file.
MoveName(from, to) ==
    LET moved == [p \in Path |-> IF Under(to, p) THEN lstat(Before(from, to, p))
                                 ELSE IF Under(from, p) THEN NULL
                                 ELSE tree[p]]
    IN  Become(IF lstat(from) = lstat(to) THEN tree ELSE moved, ftype)

\* bound: a moved directory keeps everything below it within MaxDepth
MoveFits(from, to) ==
    \A p \in Path : Under(from, p) /\ lstat(p) # NULL
                      => Len(to) + Len(p) - Len(from) <= MaxDepth
=============================================================================
