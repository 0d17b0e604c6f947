---------------------------- MODULE MCNfsServer -----------------------------
(***************************************************************************)
(* NfsServer on small instances.                                           *)
(***************************************************************************)
EXTENDS NfsServer, TLC

CONSTANTS a, b, i1, i2

MCExports == {<<>>}
MCErrno == {"EIO"}
\* No action reads the last reply: states that differ only in it have the same
\* future.  There is one exported path, so the length is the mount list.
MCView == <<tree, ftype, inode_cache, Len(mount_list)>>
MCSymmetry == Permutations({a, b}) \cup Permutations({i1, i2})
=============================================================================
