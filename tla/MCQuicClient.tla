---------------------------- MODULE MCQuicClient -----------------------------
(***************************************************************************)
(* QuicClient with a few callers.                                          *)
(***************************************************************************)
EXTENDS QuicClient, TLC

CONSTANTS i1, i2, i3

MCSymmetry == Permutations(Invoker)
=============================================================================
