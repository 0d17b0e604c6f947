--------------------------- MODULE MCServerThreads ---------------------------
(***************************************************************************)
(* ServerThreads with a few connections.                                   *)
(***************************************************************************)
EXTENDS ServerThreads

CONSTANTS t1, t2, t3
=============================================================================
