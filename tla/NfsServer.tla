------------------------------ MODULE NfsServer ------------------------------
(***************************************************************************)
(* The Mount and NFS programs served by one event loop (the QUIC server or *)
(* a TCP server with one client): one action per procedure, each run to    *)
(* completion before the next.  A file handle is the inode number of the   *)
(* file; the inode cache turns it back into the path every system call     *)
(* uses.  A client may present any inode number it ever received, so a     *)
(* request names an arbitrary one.                                         *)
(*                                                                         *)
(* The outcome of a permission check is a free choice, and so are the      *)
(* failures of the device, 'Errno'.                                        *)
(***************************************************************************)
EXTENDS FileSystem, InodeCache

CONSTANTS Exports,    \* the paths ./exports lists
          Errno,      \* the errnos the device may report, e.g. "EIO"
          MaxCache,   \* bound: the length of the inode cache
          MaxMounts   \* bound: the length of the mount list

ASSUME NfsServerAssumption ==
    /\ Exports \subseteq Path
    /\ Errno \subseteq {"EIO", "ENXIO", "ENOSPC", "EROFS", "EDQUOT", "EFBIG"}
    /\ MaxCache \in Nat
    /\ MaxMounts \in Nat

Procedure == {"NULL", "MNT", "GETATTR", "SETATTR", "READLINK", "READ", "WRITE", "READDIR",
              "STATFS", "LOOKUP", "CREATE", "MKDIR", "SYMLINK", "LINK", "REMOVE", "RMDIR",
              "RENAME"}

VARIABLES inode_cache,  \* the mappings, newest first
          mount_list,   \* the paths mounted, newest first
          reply         \* the last reply: procedure, outcome, the handle in it

vars == <<tree, ftype, inode_cache, mount_list, reply>>

Reply(proc, stat, fh) == reply' = [proc |-> proc, stat |-> stat, fh |-> fh]

\* The path a handle stands for.
PathOf(fh) == get_absolute_path_from_inode_number(inode_cache, fh)

Init ==
    /\ FileSystemInit
    /\ inode_cache = <<>>
    /\ mount_list = <<>>
    /\ reply = [proc |-> "NULL", stat |-> "NFS_OK", fh |-> NULL]

-----------------------------------------------------------------------------
(***************************************************************************)
(* The checks the procedures begin with.                                   *)
(***************************************************************************)
\* The handle resolves to a path, and there is something at that path.
FileChecks(fh) ==
    Check(PathOf(fh) = NULL, "NFSERR_NOENT") ?? Check(lstat(PathOf(fh)) = NULL, "SYSTEM_ERR")

DirectoryChecks(fh) ==
    FileChecks(fh) ?? Check(TypeAt(PathOf(fh)) # "NFDIR", "NFSERR_NOTDIR")

\* The file a procedure is about exists in the directory: lstat of its path.
ChildChecks(fh, name) ==
    DirectoryChecks(fh)
      ?? Check(name = LongName, "SYSTEM_ERR")
      ?? Check(lstat(Child(PathOf(fh), name)) = NULL, "NFSERR_NOENT")

\* The name of a file to be created is legal and not in use.
NewChildChecks(fh, name) ==
    DirectoryChecks(fh)
      ?? Check(name = LongName, "NFSERR_NAMETOOLONG")
      ?? Check(lstat(Child(PathOf(fh), name)) # NULL, "NFSERR_EXIST")

Denied(granted) == Check(~granted, "NFSERR_ACCES")

\* A request that only leads to a reply.
Answer(proc, stat) ==
    /\ Reply(proc, stat, NULL)
    /\ UNCHANGED <<tree, ftype, inode_cache, mount_list>>

\* bound: a new name stays within MaxDepth
Fits(fh) == PathOf(fh) # NULL => Len(PathOf(fh)) < MaxDepth

-----------------------------------------------------------------------------
(***************************************************************************)
(* The Mount program.                                                      *)
(***************************************************************************)
MntChecks(path) ==
    Check(lstat(path) = NULL, "MNTERR_NOENT")
      ?? Check(TypeAt(path) # "NFDIR", "MNTERR_NOTDIR")
      ?? Check(path \notin Exports, "MNTERR_NOTEXP")

\* MNT always creates a new mapping, also for a directory that has one.
\* Every caller may mount (check_mount_proc_permissions).
Mnt(path) ==
    \/ /\ MntChecks(path) # "NFS_OK"
       /\ Answer("MNT", MntChecks(path))
    \/ /\ MntChecks(path) = "NFS_OK"
       /\ Len(inode_cache) < MaxCache /\ Len(mount_list) < MaxMounts
       /\ inode_cache' = add_inode_mapping(inode_cache, lstat(path), path)
       /\ mount_list' = <<path>> \o mount_list
       /\ Reply("MNT", "NFS_OK", lstat(path))
       /\ UNCHANGED <<tree, ftype>>
-----------------------------------------------------------------------------
Null == Answer("NULL", "NFS_OK")

\* Arguments of the wrong type, or with a part missing.
Malformed == \E proc \in Procedure \ {"NULL"} : Answer(proc, "GARBAGE_ARGS")

-----------------------------------------------------------------------------
(***************************************************************************)
(* Procedures that change nothing here: they read, or they change the      *)
(* contents or the attributes of a file.                                   *)
(***************************************************************************)
Getattr(fh) == Answer("GETATTR", FileChecks(fh))

\* The permission check is the first call that looks at the path.
Setattr(fh) ==
    \E granted, updated \in BOOLEAN :
        /\ updated => TypeAt(PathOf(fh)) # "NFLNK"   \* chown follows links
        /\ Answer("SETATTR", FileChecks(fh) ?? Denied(granted) ?? Check(~updated, "SYSTEM_ERR"))

Readlink(fh) ==
    \E granted \in BOOLEAN, e \in Errno \cup {"0"} :
        Answer("READLINK", FileChecks(fh)
                             ?? Check(TypeAt(PathOf(fh)) # "NFLNK", "NFSERR_STALE")
                             ?? Denied(granted) ?? SysCall(e, {"EIO"}))

\* read_from_file and write_to_file follow links and report every failure to open.
DataChecks(fh) == FileChecks(fh) ?? Check(TypeAt(PathOf(fh)) = "NFDIR", "NFSERR_ISDIR")

Read(fh) ==
    \E granted, done \in BOOLEAN :
        /\ done => TypeAt(PathOf(fh)) # "NFLNK"
        /\ Answer("READ", DataChecks(fh) ?? Denied(granted) ?? Check(~done, "SYSTEM_ERR"))

\* 'big': more bytes than NFS_MAXDATA
Write(fh) ==
    \E big, granted, opened \in BOOLEAN, e \in Errno \cup {"0"} :
        /\ opened => TypeAt(PathOf(fh)) # "NFLNK"
        /\ Answer("WRITE", DataChecks(fh) ?? Check(big, "NFSERR_FBIG") ?? Denied(granted)
                             ?? Check(~opened, "SYSTEM_ERR")
                             ?? SysCall(e, {"EFBIG", "EIO", "ENOSPC"}))

Readdir(fh) ==
    \E granted, done \in BOOLEAN :
        Answer("READDIR", DirectoryChecks(fh) ?? Denied(granted) ?? Check(~done, "SYSTEM_ERR"))

\* No attributes are read: statvfs is the first call that looks at the path.
Statfs(fh) ==
    \E e \in Errno \cup {"0"} :
        Answer("STATFS", Check(PathOf(fh) = NULL, "NFSERR_NOENT")
                           ?? Check(TypeAt(PathOf(fh)) \in {"none", "NFLNK"}, "SYSTEM_ERR")
                           ?? SysCall(e, {"EIO"}))

-----------------------------------------------------------------------------
(***************************************************************************)
(* LOOKUP.                                                                 *)
(***************************************************************************)
LookupChecks(fh, name, granted) == ChildChecks(fh, name) ?? Denied(granted)

\* The handle of a file that has a mapping is reused, whatever path it is
\* mapped to; otherwise a mapping to the looked up path is created.
Lookup(fh, name) ==
    \E granted \in BOOLEAN :
        LET child == Child(PathOf(fh), name)
            stat  == LookupChecks(fh, name, granted)
        IN  \/ /\ stat # "NFS_OK"
               /\ Answer("LOOKUP", stat)
            \/ /\ stat = "NFS_OK"
               /\ \/ /\ IsCached(inode_cache, lstat(child))
                     /\ UNCHANGED inode_cache
                  \/ /\ ~IsCached(inode_cache, lstat(child))
                     /\ Len(inode_cache) < MaxCache
                     /\ inode_cache' = add_inode_mapping(inode_cache, lstat(child), child)
               /\ Reply("LOOKUP", "NFS_OK", lstat(child))
               /\ UNCHANGED <<tree, ftype, mount_list>>

-----------------------------------------------------------------------------
(***************************************************************************)
(* CREATE, MKDIR, SYMLINK and LINK.                                        *)
(***************************************************************************)
\* The node exists but one of the calls that set its attributes failed, or
\* (MKDIR) a size was given: an error is returned and no mapping is made.
LeaveUnfinished(proc, stat, child, type) ==
    /\ \E i \in FreeInode : MakeNode(child, i, type)
    /\ Reply(proc, stat, NULL)
    /\ UNCHANGED <<inode_cache, mount_list>>

Finish(proc, child, type) ==
    \E i \in FreeInode :
        /\ MakeNode(child, i, type)
        /\ Len(inode_cache) < MaxCache
        /\ inode_cache' = add_inode_mapping(inode_cache, i, child)
        /\ Reply(proc, "NFS_OK", i)
        /\ UNCHANGED mount_list

CreateChecks(fh, name, granted) == NewChildChecks(fh, name) ?? Denied(granted)

Create(fh, name) ==
    \E granted \in BOOLEAN, e \in Errno \cup {"0"} :
        LET stat == CreateChecks(fh, name, granted)
                      ?? SysCall(e, {"EIO", "ENAMETOOLONG", "ENOSPC", "ENXIO"})
        IN  \/ stat # "NFS_OK" /\ Answer("CREATE", stat)
            \/ /\ stat = "NFS_OK" /\ Fits(fh)
               /\ \/ LeaveUnfinished("CREATE", "SYSTEM_ERR", Child(PathOf(fh), name), "NFREG")
                  \/ Finish("CREATE", Child(PathOf(fh), name), "NFREG")

MkdirChecks(fh, name, granted) == NewChildChecks(fh, name) ?? Denied(granted)

Mkdir(fh, name) ==
    \E granted \in BOOLEAN, e \in Errno \cup {"0"} :
        LET stat == MkdirChecks(fh, name, granted)
                      ?? SysCall(e, {"EDQUOT", "ENAMETOOLONG", "ENOSPC", "EROFS"})
        IN  \/ stat # "NFS_OK" /\ Answer("MKDIR", stat)
            \/ /\ stat = "NFS_OK" /\ Fits(fh)
               /\ \/ \E s \in {"SYSTEM_ERR", "NFSERR_ISDIR"} :
                        LeaveUnfinished("MKDIR", s, Child(PathOf(fh), name), "NFDIR")
                  \/ Finish("MKDIR", Child(PathOf(fh), name), "NFDIR")

SymlinkChecks(fh, name, granted) == NewChildChecks(fh, name) ?? Denied(granted)

\* No mapping is made: the client has to look the link up.
Symlink(fh, name) ==
    \E granted \in BOOLEAN, e \in Errno \cup {"0"} :
        LET stat == SymlinkChecks(fh, name, granted)
                      ?? SysCall(e, {"EIO", "ENAMETOOLONG", "ENOENT", "ENOSPC", "EROFS"})
        IN  \/ stat # "NFS_OK" /\ Answer("SYMLINK", stat)
            \/ /\ stat = "NFS_OK" /\ Fits(fh)
               /\ \E i \in FreeInode : MakeNode(Child(PathOf(fh), name), i, "NFLNK")
               /\ Reply("SYMLINK", "NFS_OK", NULL)
               /\ UNCHANGED <<inode_cache, mount_list>>

\* Mutant: the target may be a directory.
LinkChecksAnyType(target, fh, name, granted) ==
    FileChecks(target) ?? NewChildChecks(fh, name) ?? Denied(granted)

LinkChecks(target, fh, name, granted) ==
    FileChecks(target)
      ?? Check(TypeAt(PathOf(target)) # "NFREG", "NFSERR_ISDIR")
      ?? NewChildChecks(fh, name) ?? Denied(granted)

\* The target is whatever is now at the path the target's handle resolves to.
Link(target, fh, name) ==
    \E granted \in BOOLEAN, e \in Errno \cup {"0"} :
        LET stat == LinkChecks(target, fh, name, granted)
                      ?? SysCall(e, {"EDQUOT", "EIO", "ENAMETOOLONG", "ENOENT", "ENOSPC", "EROFS"})
        IN  \/ stat # "NFS_OK" /\ Answer("LINK", stat)
            \/ /\ stat = "NFS_OK" /\ Fits(fh)
               /\ MakeLink(Child(PathOf(fh), name), lstat(PathOf(target)))
               /\ Reply("LINK", "NFS_OK", NULL)
               /\ UNCHANGED <<inode_cache, mount_list>>
-----------------------------------------------------------------------------
(***************************************************************************)
(* REMOVE, RMDIR and RENAME.                                               *)
(***************************************************************************)
\* Mutant: the mapping of the removed file is kept.
ForgetKeepsMapping(proc, child) ==
    /\ DropName(child)
    /\ Reply(proc, "NFS_OK", NULL)
    /\ UNCHANGED <<inode_cache, mount_list>>

\* Mutant: the mapping of the directory is removed instead of the file's.
ForgetDirectory(proc, child) ==
    /\ DropName(child)
    /\ inode_cache' = remove_inode_mapping_by_absolute_path(
                        inode_cache, SubSeq(child, 1, Len(child) - 1))
    /\ Reply(proc, "NFS_OK", NULL)
    /\ UNCHANGED mount_list

\* The name is gone and so is the first mapping to its path.
Forget(proc, child) ==
    /\ DropName(child)
    /\ inode_cache' = remove_inode_mapping_by_absolute_path(inode_cache, child)
    /\ Reply(proc, "NFS_OK", NULL)
    /\ UNCHANGED mount_list

RemoveChecks(fh, name, granted) ==
    ChildChecks(fh, name)
      ?? Check(TypeAt(Child(PathOf(fh), name)) = "NFDIR", "NFSERR_ISDIR") ?? Denied(granted)

Remove(fh, name) ==
    \E granted \in BOOLEAN, e \in Errno \cup {"0"} :
        LET stat == RemoveChecks(fh, name, granted) ?? SysCall(e, {"EIO", "ENAMETOOLONG", "EROFS"})
        IN  \/ stat # "NFS_OK" /\ Answer("REMOVE", stat)
            \/ stat = "NFS_OK" /\ Forget("REMOVE", Child(PathOf(fh), name))

RmdirChecks(fh, name, granted) ==
    ChildChecks(fh, name)
      ?? Check(TypeAt(Child(PathOf(fh), name)) # "NFDIR", "NFSERR_NOTDIR") ?? Denied(granted)

Rmdir(fh, name) ==
    \E granted \in BOOLEAN, e \in Errno \cup {"0"} :
        LET child == Child(PathOf(fh), name)
            stat  == RmdirChecks(fh, name, granted)
                       ?? Check(~IsEmptyDirectory(child), "NFSERR_NOTEMPTY")
                       ?? SysCall(e, {"ENAMETOOLONG", "EROFS"})
        IN  \/ stat # "NFS_OK" /\ Answer("RMDIR", stat)
            \/ stat = "NFS_OK" /\ Forget("RMDIR", child)

RenameChecks(from_fh, from_name, to_fh, granted) ==
    ChildChecks(from_fh, from_name) ?? DirectoryChecks(to_fh) ?? Denied(granted)

\* The first mapping to the old path is given the new one.
Rename(from_fh, from_name, to_fh, to_name) ==
    \E granted \in BOOLEAN, e \in Errno \cup {"0"} :
        LET from  == Child(PathOf(from_fh), from_name)
            to    == Child(PathOf(to_fh), to_name)
            errno == IF e # "0" THEN e ELSE RenameErrno(from, to)
            stat  == RenameChecks(from_fh, from_name, to_fh, granted)
                       ?? SysCall(errno, {"EDQUOT", "EINVAL", "ENAMETOOLONG", "ENOENT",
                                          "ENOSPC", "ENOTEMPTY", "EROFS"})
        IN  \/ stat # "NFS_OK" /\ Answer("RENAME", stat)
            \/ /\ stat = "NFS_OK" /\ MoveFits(from, to)
               /\ MoveName(from, to)
               /\ inode_cache' = update_inode_mapping_absolute_path(inode_cache, from, to)
               /\ Reply("RENAME", "NFS_OK", NULL)
               /\ UNCHANGED mount_list

-----------------------------------------------------------------------------
AnyName == Name \cup {LongName}

Next ==
    \/ Null \/ Malformed
    \/ \E p \in Path : Mnt(p)
    \/ \E fh \in Inode : \/ Getattr(fh) \/ Setattr(fh) \/ Readlink(fh) \/ Read(fh)
                         \/ Write(fh) \/ Readdir(fh) \/ Statfs(fh)
    \/ \E fh \in Inode, n \in AnyName :
            \/ Lookup(fh, n) \/ Create(fh, n) \/ Mkdir(fh, n) \/ Symlink(fh, n)
            \/ Remove(fh, n) \/ Rmdir(fh, n)
    \/ \E t, fh \in Inode, n \in AnyName : Link(t, fh, n)
    \/ \E f, t \in Inode, n, m \in AnyName : Rename(f, n, t, m)

Spec == Init /\ [][Next]_vars

-----------------------------------------------------------------------------
\* What the procedures ask of the file system keeps it a tree: what has a
\* name has a parent that is a directory, and a directory has one name (LINK
\* refuses directories before it calls link).
TreeOK ==
    /\ tree[<<>>] = RootIno /\ ftype[RootIno] = "NFDIR"
    /\ \A p \in Path : p # <<>> /\ tree[p] # NULL => TypeAt(SubSeq(p, 1, Len(p) - 1)) = "NFDIR"
    /\ \A p, q \in Path : tree[p] = tree[q] /\ TypeAt(p) = "NFDIR" => p = q
    /\ \A i \in Inode : ftype[i] = "none" <=> i \in FreeInode
-----------------------------------------------------------------------------
(***************************************************************************)
(* The handles the server has given out.                                   *)
(***************************************************************************)
Mappings == {inode_cache[k] : k \in DOMAIN inode_cache}

\* Every mapping leads to the file its handle was given out for, and no file
\* but an export (MNT maps it anew each time) is mapped twice.
CacheSound ==
    /\ \A m \in Mappings : tree[m.path] = m.ino
    /\ \A j, k \in DOMAIN inode_cache :
            inode_cache[j].ino = inode_cache[k].ino
                => j = k \/ inode_cache[j].path \in Exports \/ inode_cache[k].path \in Exports

StrictlyAbove(d, p) == Under(d, p) /\ d # p

\* The two ways RENAME strands a mapping: a directory above the file moved,
\* or another file took the file's name.
AncestorMoved ==
    \E m \in Mappings, q \in Path : StrictlyAbove(q, m.path) /\ tree'[q] # tree[q]
Replaced ==
    \E m \in Mappings : tree'[m.path] \notin {NULL, m.ino}

\* No procedure but RENAME ever makes a handle lead to the wrong file or to
\* none, and RENAME only does it to handles of files below a directory it
\* moves (update_inode_mapping_absolute_path_by_absolute_path renames one
\* mapping, not those below it) and of files it replaces (their mapping is
\* not removed).
OnlyRenameStrands ==
    [][CacheSound /\ ~CacheSound' => reply'.proc = "RENAME" /\ (AncestorMoved \/ Replaced)]_vars

\* From the first MNT of a directory on, whatever the clients do, the handle
\* of the directory leads back to it: later mappings are searched first, and
\* REMOVE, RMDIR and RENAME edit the list by path.
MountedResolves ==
    \A k \in DOMAIN mount_list :
        /\ lstat(mount_list[k]) # NULL
        /\ PathOf(lstat(mount_list[k])) = mount_list[k]
=============================================================================
