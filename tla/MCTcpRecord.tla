----------------------------- MODULE MCTcpRecord -----------------------------
(***************************************************************************)
(* TcpRecord with small bytes, headers and fragments.                      *)
(***************************************************************************)
EXTENDS TcpRecord
=============================================================================
