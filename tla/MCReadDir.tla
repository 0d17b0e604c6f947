------------------------------ MODULE MCReadDir ------------------------------
(***************************************************************************)
(* ReadDir with three listings: two of one user with different gids in one *)
(* directory, one of another user in another.                              *)
(***************************************************************************)
EXTENDS ReadDir, TLC

CONSTANTS l1, l2, l3, alice, bob, d1, d2

MCUser == l1 :> alice @@ l2 :> alice @@ l3 :> bob
MCGid == l1 :> 1 @@ l2 :> 2 @@ l3 :> 1
MCDir == l1 :> d1 @@ l2 :> d1 @@ l3 :> d2
\* with a byte count of 2: replies of one and of two entries, one filled
\* exactly, and an end of stream that needs a call of its own (d1);
\* one name that is too long for the byte count (d2)
MCEntries == d1 :> <<1, 1, 2>> @@ d2 :> <<3>>
=============================================================================
