----------------------------- MODULE MCFuseFile -----------------------------
\* Two threads of libfuse on a file of up to three bytes, sent two bytes per RPC:
\* requests of one and of two RPCs, that overlap, start inside the file, at its
\* end and past its end, and shorten it under the others.
EXTENDS FuseFile

CONSTANTS c1, c2

MCCallers == {c1, c2}

Request(k, o, s) == [kind |-> k, offset |-> o, size |-> s]
MCRequests == {Request("read", 0, 3), Request("read", 2, 3),
               Request("write", 0, 3), Request("write", 2, 1), Request("write", 1, 0),
               Request("truncate", 0, 1), Request("open", 0, 0)}
=============================================================================
