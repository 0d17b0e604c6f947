---------------------------- MODULE MCAttributes -----------------------------
(***************************************************************************)
(* Two threads and three calls by root, by the owner of the directory and  *)
(* by somebody else.                                                       *)
(***************************************************************************)
EXTENDS Attributes, TLC

Threads == Permutations(Worker)

MCCreds == {[uid |-> 0, gid |-> 0], [uid |-> 1, gid |-> 1], [uid |-> 2, gid |-> 1]}

Private == {<<"owner", "r">>, <<"owner", "w">>}
Shared == {<<"owner", "r">>, <<"group", "r">>, <<"group", "w">>}
MCModes == {Private, Shared}
MCUmask == {<<"group", "w">>, <<"others", "w">>}
MCDir == [uid |-> 1, gid |-> 1, mode |-> Private]

Nothing == [mode |-> NONE, uid |-> NONE, gid |-> NONE, size |-> NONE, times |-> NONE]
MCSattrs == {[Nothing EXCEPT !.mode = Private, !.size = 0],
             [Nothing EXCEPT !.mode = Shared, !.uid = 2, !.times = "set"],
             [Nothing EXCEPT !.size = 1, !.times = "half"]}
=============================================================================
