------------------------------ MODULE FuseNames ------------------------------
(***************************************************************************)
(* The name space through the FUSE client: src/fuse/handlers and           *)
(* src/fuse/path_resolution.c on top of the procedures of NfsServer.tla.   *)
(* libfuse hands a handler one or two paths.  The worker thread of the     *)
(* handler looks every path up again from the root, one LOOKUP per         *)
(* component, and calls one procedure with the handles it got.  Nothing    *)
(* keeps other requests, each of several calls as well, from running in    *)
(* between, and a handle is only an inode number.                          *)
(*                                                                         *)
(* A call is one step: the server answers it before it takes the next.     *)
(* The handshake of handler and worker is that of FuseFile.tla; here a     *)
(* request starts, resolves, calls and returns.                            *)
(***************************************************************************)
EXTENDS NfsServer

CONSTANTS
    Caller,       \* the threads of libfuse
    Requests,     \* the requests libfuse may make
    Servers,      \* the trees and inode caches the server may have when the client mounts
    MaxRequests   \* bound: how many requests there are

ASSUME FuseNamesAssumption ==
    /\ MaxRequests \in Nat
    /\ \A r \in Requests : r.path \in Path /\ r.to \in Path

VARIABLES
    request,   \* request[c]: the request of thread c and the worker's locals
    begun

fuse_vars == <<vars, request, begun>>

dirname(p) == IF p = <<>> THEN p ELSE SubSeq(p, 1, Len(p) - 1)
basename(p) == p[Len(p)]

\* The paths a worker resolves, in this order.
Resolved(r) ==
    CASE r.op \in {"getattr", "readlink", "utimens"} -> <<r.path>>
      [] r.op \in {"mknod", "mkdir", "symlink", "unlink", "rmdir"} -> <<dirname(r.path)>>
      [] r.op = "link"   -> <<dirname(r.to), r.path>>
      [] r.op = "rename" -> <<dirname(r.path), dirname(r.to)>>

(***************************************************************************)
(* The locals of a request.  names are the components of the current path  *)
(* still to be looked up from handle, whose type is type; handles are the  *)
(* results so far.  code is what the handler returns, stat the status of   *)
(* the last reply.  tree, alone, sound and moved are history: the tree     *)
(* when the request began, whether it ran by itself, whether every handle  *)
(* led to its file when it began, and whether another request renamed or   *)
(* removed a directory meanwhile.                                          *)
(***************************************************************************)
Idle == [at |-> "idle", op |-> "getattr", path |-> <<>>, to |-> <<>>, names |-> <<>>, handle |-> NULL,
         type |-> "NFDIR", handles |-> <<>>, code |-> "0", stat |-> "NFS_OK",
         tree |-> <<>>, alone |-> TRUE, sound |-> TRUE, moved |-> FALSE]

Running(c) == request[c].at # "idle"

\* The share is mounted: MNT made the mapping of its root.
FuseInit ==
    /\ \E s \in Servers :
          /\ tree = s.tree /\ ftype = s.ftype
          /\ inode_cache = add_inode_mapping(s.cache, RootIno, <<>>)
    /\ mount_list = <<<<>>>>
    /\ reply = [proc |-> "MNT", stat |-> "NFS_OK", fh |-> RootIno]
    /\ request = [c \in Caller |-> Idle]
    /\ begun = 0

\* The worker turns to the next path, or has all its handles and calls.
Ready(r) ==
    IF r.names # <<>> THEN r
    ELSE LET next == [r EXCEPT !.handles = Append(@, r.handle), !.handle = RootIno, !.type = "NFDIR"]
             n    == Len(next.handles)
         IN  IF n = Len(Resolved(r)) THEN [next EXCEPT !.at = "call"]
             ELSE IF Resolved(r)[n + 1] # <<>> THEN [next EXCEPT !.names = Resolved(r)[n + 1]]
             ELSE [next EXCEPT !.handles = Append(@, RootIno), !.at = "call"]

\* nfs_getattr, nfs_mkdir, ...: the handler splits the paths and starts the worker.
Start(c) ==
    /\ ~Running(c)
    /\ begun < MaxRequests
    /\ begun' = begun + 1
    /\ \E r \in Requests :
          request' = [d \in Caller |->
              IF d = c
              THEN Ready([Idle EXCEPT !.at = "resolve", !.op = r.op, !.path = r.path, !.to = r.to,
                                      !.names = Resolved(r)[1], !.handle = RootIno, !.tree = tree,
                                      !.alone = \A e \in Caller : ~Running(e), !.sound = CacheSound])
              ELSE [request[d] EXCEPT !.alone = @ /\ ~Running(d)]]
    /\ UNCHANGED vars

\* The worker has its error code, and the handler returns it.
Ends(c, code, stat) ==
    request' = [request EXCEPT ![c] = [Idle EXCEPT !.code = code, !.stat = stat]]

-----------------------------------------------------------------------------
(***************************************************************************)
(* Replies.  One without a procedure result, or none, is status # 0 of the *)
(* client stub.                                                            *)
(***************************************************************************)
NoResult == {"SYSTEM_ERR", "GARBAGE_ARGS"}
Result(stat, ok) == [stat |-> stat, body |-> IF stat = "NFS_OK" THEN ok ELSE "default_case"]

validate_nfs_attr_stat(res) == res.body = IF res.stat = "NFS_OK" THEN "attributes" ELSE "default_case"
validate_nfs_dir_op_res(res) == res.body = IF res.stat = "NFS_OK" THEN "diropok" ELSE "default_case"
validate_nfs_read_link_res(res) == res.body = IF res.stat = "NFS_OK" THEN "data" ELSE "default_case"
validate_nfs_nfs_stat(res) == TRUE

\* Mutant: a name that is there already is not an error.
MapExistToZero(stat) == IF stat \in {"NFS_OK", "NFSERR_EXIST"} THEN "0" ELSE "-EIO"

\* The statuses the procedures modelled here answer with.  NFSERR_NXIO keeps its sign.
map_nfs_error(stat) ==
    CASE stat = "NFS_OK"             -> "0"
      [] stat = "NFSERR_NOENT"       -> "-ENOENT"
      [] stat = "NFSERR_IO"          -> "-EIO"
      [] stat = "NFSERR_NXIO"        -> "ENXIO"
      [] stat = "NFSERR_ACCES"       -> "-EACCES"
      [] stat = "NFSERR_EXIST"       -> "-EEXIST"
      [] stat = "NFSERR_NOTDIR"      -> "-ENOTDIR"
      [] stat = "NFSERR_ISDIR"       -> "-EISDIR"
      [] stat = "NFSERR_NOSPC"       -> "-ENOSPC"
      [] stat = "NFSERR_ROFS"        -> "-EROFS"
      [] stat = "NFSERR_NAMETOOLONG" -> "-ENAMETOOLONG"
      [] stat = "NFSERR_NOTEMPTY"    -> "-ENOTEMPTY"
      [] stat = "NFSERR_DQUOT"       -> "-EDQUOT"
      [] stat = "NFSERR_STALE"       -> "-ESTALE"

\* The codes a worker may return.  A status that is not NFS_OK or NFSERR_ACCES is read from the
\* reply after the reply is freed: the code is then the right one or whatever the memory holds by now.
Codes(res, valid) ==
    IF ~valid \/ res.stat \in NoResult THEN {"-EIO"}
    ELSE IF res.stat \in {"NFS_OK", "NFSERR_ACCES"} THEN {map_nfs_error(res.stat)}
    ELSE {map_nfs_error(res.stat), "unknown"}

-----------------------------------------------------------------------------
(***************************************************************************)
(* resolve_absolute_path, one LOOKUP at a time.                            *)
(***************************************************************************)
LookupError(stat) ==
    CASE stat \in NoResult -> "-EIO" [] stat = "NFSERR_ACCES" -> "-EACCES" [] OTHER -> "-ENOENT"

\* Mutant: strtok in place of strtok_r, so that the next component may be that of another thread's path.
ResolveWithStrtok(c) ==
    LET r == request[c]
    IN  /\ r.at = "resolve" /\ r.type = "NFDIR"
        /\ \E d \in Caller : request[d].at = "resolve" /\ Lookup(r.handle, Head(request[d].names))
        /\ IF reply'.stat = "NFS_OK"
           THEN request' = [request EXCEPT ![c] =
                    Ready([r EXCEPT !.names = Tail(@), !.handle = reply'.fh, !.type = ftype[reply'.fh]])]
           ELSE Ends(c, LookupError(reply'.stat), reply'.stat)
        /\ UNCHANGED begun

resolve_absolute_path(c) ==
    LET r == request[c]
    IN  /\ r.at = "resolve"
        /\ \/ /\ r.type # "NFDIR"
              /\ Ends(c, "-ENOTDIR", "NFSERR_NOTDIR")
              /\ UNCHANGED vars
           \/ /\ r.type = "NFDIR"
              /\ Lookup(r.handle, Head(r.names))
              /\ IF reply'.stat = "NFS_OK" /\ validate_nfs_dir_op_res(Result(reply'.stat, "diropok"))
                 THEN request' = [request EXCEPT ![c] =
                          Ready([r EXCEPT !.names = Tail(@), !.handle = reply'.fh, !.type = ftype[reply'.fh]])]
                 ELSE Ends(c, LookupError(reply'.stat), reply'.stat)
        /\ UNCHANGED begun

\* A call is lost before the server serves it, or the worker cannot be started at all.
CallLost(c) ==
    /\ request[c].at \in {"resolve", "call"}
    /\ Ends(c, "-EIO", "lost")
    /\ UNCHANGED <<vars, begun>>

\* The call ends the request, also when its reply is lost; a directory moved or removed is noted for the others.
Returns(c, res, valid) ==
    /\ \E end \in {<<code, res.stat>> : code \in Codes(res, valid)} \cup {<<"-EIO", "lost">>} :
          request' = [d \in Caller |->
              IF d = c THEN [Idle EXCEPT !.code = end[1], !.stat = end[2]]
              ELSE [request[d] EXCEPT !.moved = @ \/ (Running(d) /\ tree' # tree
                                                      /\ request[c].op \in {"rename", "rmdir"})]]
    /\ UNCHANGED begun

Calls(c, op) == request[c].at = "call" /\ request[c].op = op
H(c) == request[c].handles

blocking_getattr(c) ==
    /\ Calls(c, "getattr")
    /\ Getattr(H(c)[1])
    /\ LET res == Result(reply'.stat, "attributes") IN Returns(c, res, validate_nfs_attr_stat(res))

blocking_readlink(c) ==
    /\ Calls(c, "readlink")
    /\ Readlink(H(c)[1])
    /\ LET res == Result(reply'.stat, "data") IN Returns(c, res, validate_nfs_read_link_res(res))

blocking_utimens(c) ==
    /\ Calls(c, "utimens")
    /\ Setattr(H(c)[1])
    /\ LET res == Result(reply'.stat, "attributes") IN Returns(c, res, validate_nfs_attr_stat(res))

blocking_mknod(c) ==
    /\ Calls(c, "mknod")
    /\ Create(H(c)[1], basename(request[c].path))
    /\ LET res == Result(reply'.stat, "diropok") IN Returns(c, res, validate_nfs_dir_op_res(res))

blocking_mkdir(c) ==
    /\ Calls(c, "mkdir")
    /\ Mkdir(H(c)[1], basename(request[c].path))
    /\ reply'.stat # "NFSERR_ISDIR"   \* no size is given
    /\ LET res == Result(reply'.stat, "diropok") IN Returns(c, res, validate_nfs_dir_op_res(res))

\* The procedures that answer with a bare status.
Stat == Result(reply'.stat, "none")

blocking_symlink(c) ==
    /\ Calls(c, "symlink")
    /\ Symlink(H(c)[1], basename(request[c].path))
    /\ Returns(c, Stat, validate_nfs_nfs_stat(Stat))

blocking_link(c) ==
    /\ Calls(c, "link")
    /\ Link(H(c)[2], H(c)[1], basename(request[c].to))
    /\ Returns(c, Stat, validate_nfs_nfs_stat(Stat))

blocking_unlink(c) ==
    /\ Calls(c, "unlink")
    /\ Remove(H(c)[1], basename(request[c].path))
    /\ Returns(c, Stat, validate_nfs_nfs_stat(Stat))

blocking_rmdir(c) ==
    /\ Calls(c, "rmdir")
    /\ Rmdir(H(c)[1], basename(request[c].path))
    /\ Returns(c, Stat, validate_nfs_nfs_stat(Stat))

blocking_rename(c) ==
    /\ Calls(c, "rename")
    /\ Rename(H(c)[1], basename(request[c].path), H(c)[2], basename(request[c].to))
    /\ Returns(c, Stat, validate_nfs_nfs_stat(Stat))

Worker(c) ==
    \/ resolve_absolute_path(c) \/ CallLost(c)
    \/ blocking_getattr(c) \/ blocking_readlink(c) \/ blocking_utimens(c)
    \/ blocking_mknod(c) \/ blocking_mkdir(c) \/ blocking_symlink(c) \/ blocking_link(c)
    \/ blocking_unlink(c) \/ blocking_rmdir(c) \/ blocking_rename(c)

FuseNext == \E c \in Caller : Start(c) \/ Worker(c)
FuseSpec == FuseInit /\ [][FuseNext]_fuse_vars

-----------------------------------------------------------------------------
(***************************************************************************)
(* What a request does to a tree t by itself, with permission and a device *)
(* that works: the call of the same name on a local file system.  LINK     *)
(* links regular files only, and utimens follows a link (SETATTR).         *)
(***************************************************************************)
At(t, p) == IF p \in Path THEN t[p] ELSE NULL
TypeIn(t, types, p) == IF At(t, p) = NULL THEN "none" ELSE types[At(t, p)]

Succeeds(r, types) ==
    LET t == r.tree
        New(p) == At(t, p) = NULL /\ TypeIn(t, types, dirname(p)) = "NFDIR"
    IN  CASE r.op = "getattr"  -> At(t, r.path) # NULL
          [] r.op = "readlink" -> TypeIn(t, types, r.path) = "NFLNK"
          [] r.op = "utimens"  -> TypeIn(t, types, r.path) \in {"NFREG", "NFDIR"}
          [] r.op \in {"mknod", "mkdir", "symlink"} -> New(r.path)
          [] r.op = "link"     -> TypeIn(t, types, r.path) = "NFREG" /\ New(r.to)
          [] r.op = "unlink"   -> TypeIn(t, types, r.path) \in {"NFREG", "NFLNK"}
          [] r.op = "rmdir"    -> TypeIn(t, types, r.path) = "NFDIR" /\ \A n \in Name : At(t, Append(r.path, n)) = NULL
          [] r.op = "rename"   -> /\ At(t, r.path) # NULL
                                  /\ TypeIn(t, types, dirname(r.to)) = "NFDIR"
                                  /\ RenameErrno(r.path, r.to) = "0"

Effect(r, t, types) ==
    LET was == r.tree
        Same(p) == At(t, p) = At(was, p)
    IN  CASE r.op \in {"getattr", "readlink", "utimens"} -> t = was
          [] r.op \in {"mknod", "mkdir", "symlink"} ->
                /\ TypeIn(t, types, r.path) = (CASE r.op = "mknod" -> "NFREG" [] r.op = "mkdir" -> "NFDIR"
                                                 [] OTHER -> "NFLNK")
                /\ \A p \in Path \ {r.path} : Same(p)
          [] r.op = "link" -> At(t, r.to) = was[r.path] /\ \A p \in Path \ {r.to} : Same(p)
          [] r.op \in {"unlink", "rmdir"} -> t[r.path] = NULL /\ \A p \in Path \ {r.path} : Same(p)
          [] r.op = "rename" ->
                \/ At(was, r.path) = At(was, r.to) /\ t = was
                \/ \A p \in Path : At(t, p) = IF Under(r.to, p) THEN At(was, Before(r.path, r.to, p))
                                              ELSE IF Under(r.path, p) THEN NULL ELSE was[p]

Returned(c) == Running(c) /\ request'[c].at = "idle"

(***************************************************************************)
(* A request that runs by itself, while every handle the server gave out   *)
(* leads to its file, does what the same call does on a local file system. *)
(* If it returns 0 the call succeeds and the tree becomes what the call    *)
(* makes it.  If the call would succeed, the request fails only because    *)
(* permission was denied, a system call failed or a call was lost.  If the *)
(* call would fail, the tree stays as it was.  This is about the whole of  *)
(* path resolution, the checks of the procedures, the handles and the      *)
(* error codes (path_resolution.c, the handlers, map_nfs_error).           *)
(***************************************************************************)
AloneLikeLocal ==
    [][\A c \in Caller : (Returned(c) /\ request[c].alone /\ request[c].sound) =>
          LET r == request[c]
              s == request'[c].stat
          IN  /\ request'[c].code = "0" => Succeeds(r, ftype) /\ Effect(r, tree', ftype')
              /\ Succeeds(r, ftype) => \/ request'[c].code = "0"
                                       \/ s \in {"NFSERR_ACCES", "NFSERR_IO", "SYSTEM_ERR", "lost"}
              /\ ~Succeeds(r, ftype) => tree' = r.tree]_fuse_vars

(***************************************************************************)
(* A request changes the tree only at and below the paths libfuse gave it, *)
(* unless while it ran another request renamed or removed a directory, or  *)
(* handles were already led astray by an earlier RENAME.  The exceptions   *)
(* are real: a handle follows a directory that is renamed, and the number  *)
(* of a removed directory may be that of another one by the time the       *)
(* handle is used (the timestamp in the handle is never looked at).        *)
(***************************************************************************)
ChangesOnlyItsPaths ==
    [][\A c \in Caller : (request[c].at = "call" /\ Returned(c) /\ ~request[c].moved /\ CacheSound) =>
          \A p \in Path : tree'[p] # tree[p] =>
              \/ Under(request[c].path, p)
              \/ request[c].op \in {"link", "rename"} /\ Under(request[c].to, p)]_fuse_vars
=============================================================================
