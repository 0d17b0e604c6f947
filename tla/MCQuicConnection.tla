-------------------------- MODULE MCQuicConnection --------------------------
EXTENDS QuicConnection

CONSTANTS c1, c2, c3
=============================================================================
