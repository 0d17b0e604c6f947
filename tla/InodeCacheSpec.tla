--------------------------- MODULE InodeCacheSpec ---------------------------
(***************************************************************************)
(* What the inode cache promises its users: each operation of              *)
(* inode_cache.c is one step on the list of mappings.                      *)
(***************************************************************************)
EXTENDS InodeCache

CONSTANTS Inos, Paths, Root

VARIABLE cache

Init == cache = <<Mapping(Root, Root)>>

Add == \E i \in Inos, p \in Paths : cache' = add_inode_mapping(cache, i, p)

RemoveByInode == \E i \in Inos : cache' = remove_inode_mapping_by_inode_number(cache, i)

RemoveByPath == \E p \in Paths : cache' = remove_inode_mapping_by_absolute_path(cache, p)

Update == \E p, q \in Paths : cache' = update_inode_mapping_absolute_path(cache, p, q)

Next == Add \/ RemoveByInode \/ RemoveByPath \/ Update

Spec == Init /\ [][Next]_cache
=============================================================================
