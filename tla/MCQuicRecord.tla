---------------------------- MODULE MCQuicRecord -----------------------------
(***************************************************************************)
(* QuicRecord with two streams, small bytes, headers and fragments.        *)
(***************************************************************************)
EXTENDS QuicRecord

CONSTANTS s1, s2
=============================================================================
