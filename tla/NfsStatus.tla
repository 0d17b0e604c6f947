----------------------------- MODULE NfsStatus ------------------------------
(***************************************************************************)
(* The outcome of a procedure: an NFS status, or "SYSTEM_ERR" or           *)
(* "GARBAGE_ARGS" when the accepted reply carries no procedure result.     *)
(* A procedure is a sequence of checks with an early return after each;    *)
(* s ?? t is the outcome of the checks s followed by the checks t.         *)
(***************************************************************************)
CONSTANT NULL   \* the null pointer: no path, no inode

Check(failed, stat) == IF failed THEN stat ELSE "NFS_OK"

s ?? t == IF s = "NFS_OK" THEN t ELSE s

\* The status each errno is reported as by the procedures that single it out.
StatusOf(errno) ==
    CASE errno = "EIO"          -> "NFSERR_IO"
      [] errno = "ENXIO"        -> "NFSERR_NXIO"
      [] errno = "ENOENT"       -> "NFSERR_NOENT"
      [] errno = "ENOSPC"       -> "NFSERR_NOSPC"
      [] errno = "EROFS"        -> "NFSERR_ROFS"
      [] errno = "ENAMETOOLONG" -> "NFSERR_NAMETOOLONG"
      [] errno = "ENOTEMPTY"    -> "NFSERR_NOTEMPTY"
      [] errno = "EDQUOT"       -> "NFSERR_DQUOT"
      [] errno = "EFBIG"        -> "NFSERR_FBIG"
      [] errno = "EINVAL"       -> "NFSERR_EXIST"

\* A failed system call: the errnos in 'mapped' have a status of their own.
SysCall(errno, mapped) ==
    IF errno = "0" THEN "NFS_OK" ELSE IF errno \in mapped THEN StatusOf(errno) ELSE "SYSTEM_ERR"
=============================================================================
