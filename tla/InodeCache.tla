----------------------------- MODULE InodeCache -----------------------------
(***************************************************************************)
(* The list that turns the inode number inside a client's file handle back *)
(* into an absolute path (src/nfs/server/inode_cache.c): a linked list of  *)
(* mappings, newest first.  Every search stops at the first match and      *)
(* nothing prevents two mappings of one inode number or of one path.       *)
(***************************************************************************)
EXTENDS NfsStatus, Naturals, Sequences

Mapping(ino, path) == [ino |-> ino, path |-> path]

\* The first position of the list where the field f is v, 0 if there is none.
FirstIno(cache, ino) ==
    IF \E k \in DOMAIN cache : cache[k].ino = ino
    THEN CHOOSE k \in DOMAIN cache :
            cache[k].ino = ino /\ \A j \in 1..(k-1) : cache[j].ino # ino
    ELSE 0

FirstPath(cache, path) ==
    IF \E k \in DOMAIN cache : cache[k].path = path
    THEN CHOOSE k \in DOMAIN cache :
            cache[k].path = path /\ \A j \in 1..(k-1) : cache[j].path # path
    ELSE 0

DropAt(cache, k) ==
    [j \in 1..(Len(cache) - 1) |-> IF j < k THEN cache[j] ELSE cache[j + 1]]

add_inode_mapping(cache, ino, path) == <<Mapping(ino, path)>> \o cache

remove_inode_mapping_by_inode_number(cache, ino) ==
    IF FirstIno(cache, ino) = 0 THEN cache ELSE DropAt(cache, FirstIno(cache, ino))

remove_inode_mapping_by_absolute_path(cache, path) ==
    IF FirstPath(cache, path) = 0 THEN cache ELSE DropAt(cache, FirstPath(cache, path))

update_inode_mapping_absolute_path(cache, path, new) ==
    IF FirstPath(cache, path) = 0 THEN cache
    ELSE [cache EXCEPT ![FirstPath(cache, path)].path = new]

get_absolute_path_from_inode_number(cache, ino) ==
    IF FirstIno(cache, ino) = 0 THEN NULL ELSE cache[FirstIno(cache, ino)].path

IsCached(cache, ino) == FirstIno(cache, ino) # 0
=============================================================================
