---------------------------- MODULE MCFuseNames -----------------------------
(***************************************************************************)
(* Two threads of libfuse and three requests, in a share with a directory  *)
(* a, a file a/b in it and, at b, nothing, a file, a link or a directory.  *)
(***************************************************************************)
EXTENDS FuseNames, TLC

CONSTANTS a, b, i1, i2, i3

\* No action reads the last reply, nor how a request that is over ended.
MCView == <<tree, ftype, inode_cache, begun, [c \in Caller |-> IF Running(c) THEN request[c] ELSE Idle]>>
MCSymmetry == Permutations(Caller)

MCExports == {<<>>}
MCErrno == {"EIO"}

\* Earlier clients have looked at everything there is, or at nothing.
Server(type, used) ==
    [tree  |-> [p \in Path |-> CASE p = <<>> -> RootIno [] p = <<a>> -> i1 [] p = <<a, b>> -> i2
                                 [] p = <<b>> /\ type # "none" -> i3 [] OTHER -> NULL],
     ftype |-> (RootIno :> "NFDIR" @@ i1 :> "NFDIR" @@ i2 :> "NFREG" @@ i3 :> type),
     cache |-> IF used THEN <<Mapping(i3, <<b>>), Mapping(i2, <<a, b>>), Mapping(i1, <<a>>)>> ELSE <<>>]
MCServers == {Server(type, FALSE) : type \in {"none", "NFLNK", "NFDIR"}} \cup {Server("NFREG", TRUE)}

One(op, p) == [op |-> op, path |-> p, to |-> <<>>]
Two(op, p, q) == [op |-> op, path |-> p, to |-> q]
MCRequests ==
    {One(op, p) : op \in {"getattr", "readlink", "utimens"}, p \in {<<b>>, <<a, b>>}} \cup
    {One(op, p) : op \in {"mknod", "mkdir", "symlink"}, p \in {<<b>>, <<b, a>>, <<a, a>>}} \cup
    {One(op, p) : op \in {"unlink", "rmdir"}, p \in {<<b>>, <<a>>, <<a, b>>}} \cup
    {One("readlink", <<a, a>>), Two("link", <<a, b>>, <<b>>), Two("link", <<b>>, <<a, a>>)} \cup
    {Two("rename", <<a>>, <<b>>), Two("rename", <<b>>, <<a>>), Two("rename", <<a, b>>, <<b>>), Two("rename", <<b>>, <<a, a>>)}
=============================================================================
