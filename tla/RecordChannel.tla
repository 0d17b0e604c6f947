---------------------------- MODULE RecordChannel ----------------------------
(***************************************************************************)
(* What record marking promises on every channel (a TCP connection, or a   *)
(* stream of a QUIC connection): records are delivered whole, once and in  *)
(* the order they were sent.  Callers wait for the answer to one record    *)
(* before they send the next.  A channel may break, alone or with others   *)
(* of the same connection, and promises nothing from then on.              *)
(***************************************************************************)
EXTENDS Naturals, Sequences

CONSTANTS Chan, Record

VARIABLES input,   \* the records sent on each channel
          output,  \* the records received
          broken   \* whether it has broken

vars == <<input, output, broken>>

Init ==
    /\ input = [c \in Chan |-> <<>>] /\ output = [c \in Chan |-> <<>>]
    /\ broken = [c \in Chan |-> FALSE]

Send(c) ==
    /\ ~broken[c] /\ input[c] = output[c]
    /\ \E r \in Record : input' = [input EXCEPT ![c] = Append(@, r)]
    /\ UNCHANGED <<output, broken>>

Deliver(c) ==
    /\ ~broken[c] /\ Len(output[c]) < Len(input[c])
    /\ output' = [output EXCEPT ![c] = Append(@, input[c][Len(output[c]) + 1])]
    /\ UNCHANGED <<input, broken>>

\* Some channels break, or are broken already.
Break ==
    /\ broken' \in [Chan -> BOOLEAN]
    /\ \A c \in Chan : broken[c] => broken'[c]
    /\ \A c \in Chan : broken'[c] \/ (input'[c] = input[c] /\ output'[c] = output[c])

Next == Break \/ \E c \in Chan : Send(c) \/ Deliver(c)

Spec == Init /\ [][Next]_vars /\ \A c \in Chan : WF_vars(Deliver(c))
=============================================================================
