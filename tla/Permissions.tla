----------------------------- MODULE Permissions -----------------------------
(***************************************************************************)
(* Who may do what: src/common_permissions and src/nfs/server/             *)
(* nfs_permissions.c, for the procedures Attributes.tla is about.  A mode  *)
(* is a set of pairs of a class and a right.  A check answers NFS_OK,      *)
(* NFSERR_ACCES, or SYSTEM_ERR where lstat finds no file.  NONE as an      *)
(* attribute to be set is the protocol's -1: leave it as it is.            *)
(***************************************************************************)
CONSTANT NONE

Right == {"r", "w", "x"}
Class == {"owner", "group", "others"}

check_root_user(uid) == uid = 0

\* The one class of a caller: the owner's rights hide the group's, the group's the rest.
ClassOf(attr, uid, gid) ==
    IF uid = attr.uid THEN "owner" ELSE IF gid = attr.gid THEN "group" ELSE "others"

CheckRight(attr, right, uid, gid) ==
    IF attr = NONE THEN "SYSTEM_ERR"
    ELSE IF <<ClassOf(attr, uid, gid), right>> \in attr.mode THEN "NFS_OK"
    ELSE "NFSERR_ACCES"

check_read_permission(attr, uid, gid) == CheckRight(attr, "r", uid, gid)
check_write_permission(attr, uid, gid) == CheckRight(attr, "w", uid, gid)

\* Root may do anything, and no file is looked at.
UnlessRoot(uid, stat) == IF check_root_user(uid) THEN "NFS_OK" ELSE stat

check_setattr_proc_permissions(attr, sattr, uid, gid) ==
    UnlessRoot(uid,
        IF sattr.uid # NONE \/ sattr.gid # NONE THEN "NFSERR_ACCES"
        ELSE IF sattr.mode # NONE \/ sattr.size # NONE \/ sattr.times # NONE
             THEN check_write_permission(attr, uid, gid)
        ELSE "NFS_OK")

check_read_proc_permissions(attr, uid, gid) == UnlessRoot(uid, check_read_permission(attr, uid, gid))
check_write_proc_permissions(attr, uid, gid) == UnlessRoot(uid, check_write_permission(attr, uid, gid))
check_create_proc_permissions(dir, uid, gid) == UnlessRoot(uid, check_write_permission(dir, uid, gid))
check_remove_proc_permissions(dir, uid, gid) == UnlessRoot(uid, check_write_permission(dir, uid, gid))
=============================================================================
