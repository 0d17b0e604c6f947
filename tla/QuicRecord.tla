----------------------------- MODULE QuicRecord ------------------------------
(***************************************************************************)
(* One direction of the streams of QUIC connections: the event loop at one *)
(* end sends a record on a stream (send_rm_record_quic), the event loop of *)
(* the server collects it piece by piece, whenever the stream is readable, *)
(* in a receiving context it finds by the connection and the stream        *)
(* (src/transport/quic/quic_record_marking.c and server_on_stream_readable *)
(* of quic_rpc_server.c).  The streams deliver independently of each       *)
(* other.  Clients come one after another; nothing is done when a          *)
(* connection ends (server_on_conn_closed), and a connection is known by   *)
(* the address of its quic_conn_t, which the next one may get.             *)
(***************************************************************************)
EXTENDS RecordMarking, FiniteSets

CONSTANTS Stream,
          Sizes,          \* bound: the sizes of the records
          Rooms,          \* bound: how many bytes a stream may have room for
          MaxConnections  \* bound: how many connections there are

ASSUME QuicRecordAssumption ==
    Sizes \subseteq 1..MaxRecord /\ Rooms \subseteq Nat /\ MaxConnections \in 1..2

VARIABLES conn,      \* the number of the present connection
          input,     \* per connection and stream: the records passed to send_rm_record_quic
          accepted,  \* per stream: the bytes of the last one the stream accepted
          wire,      \* per stream: the bytes in transit
          contexts,  \* rm_receiving_contexts, newest first
          output,    \* per connection and stream: the records handled
          stale,     \* the streams for which there was a context when the connection began
          crashed    \* memory was freed twice

vars == <<conn, input, accepted, wire, contexts, output, stale, crashed>>

Chan == (1..MaxConnections) \X Stream

\* The number of records sent, on all streams of all connections.
Sent == Cardinality(UNION {{c} \X DOMAIN input[c] : c \in Chan})

Init ==
    /\ conn = 1
    /\ input = [c \in Chan |-> <<>>] /\ output = [c \in Chan |-> <<>>]
    /\ accepted = [s \in Stream |-> 0]
    /\ wire = [s \in Stream |-> <<>>]
    /\ contexts = <<>> /\ stale = {} /\ crashed = FALSE

-----------------------------------------------------------------------------
\* When a stream accepts no more bytes quic_stream_write fails with -1.  As a
\* size_t that is positive, the counter in send_bytes_quic goes down to 0 and
\* wraps, and send_bytes_quic returns 0: the rest of the record is dropped.
Send(s, size, room) ==
    LET c      == <<conn, s>>
        record == Data(Len(input[c]), size)
        framed == Framed(record, 0)
        bytes  == SubSeq(framed, 1, Smaller(Len(framed), room))
    IN  /\ ~crashed /\ Len(input[c]) = Len(output[c]) /\ Sent < MaxRecords
        /\ input' = [input EXCEPT ![c] = Append(@, record)]
        /\ accepted' = [accepted EXCEPT ![s] = Len(bytes)]
        /\ wire' = [wire EXCEPT ![s] = @ \o bytes]
        /\ UNCHANGED <<conn, contexts, output, stale, crashed>>

-----------------------------------------------------------------------------
\* create_rm_receiving_context
NewContext(s) == [stream |-> s, header |-> <<>>, payload |-> <<>>, payloads |-> <<>>,
                  full |-> FALSE, surplus |-> FALSE]

\* find_rm_receiving_context and get_rm_receiving_context: the first, or 0
ContextOf(list, s) ==
    IF \E k \in DOMAIN list : list[k].stream = s
    THEN CHOOSE k \in DOMAIN list : list[k].stream = s /\ \A j \in 1..(k - 1) : list[j].stream # s
    ELSE 0

WithContext(s) == IF ContextOf(contexts, s) = 0 THEN <<NewContext(s)>> \o contexts ELSE contexts

\* Mutant: the header is not reset after a fragment.
TakeByteKeepsHeader(c, b) ==
    LET payload == Append(c.payload, b)
        header  == HeaderOf(c.header)
    IN  IF Len(c.header) < HeaderSize THEN [c EXCEPT !.header = Append(@, b)]
        ELSE IF Len(payload) < SizeInHeader(header) THEN [c EXCEPT !.payload = payload]
        ELSE [c EXCEPT !.payloads = @ \o payload, !.payload = <<>>, !.full = IsLastFragment(header)]

\* One byte of the body of the loop in receive_available_bytes_quic: it belongs
\* to the header, or to the payload of the fragment; at the end of the fragment
\* the payload is saved, and unless it was the last the context is reset
\* (after the last it makes no difference: Readable removes the context).  A
\* fragment without payload ends when there is another byte.
TakeByte(c, b) ==
    LET payload == Append(c.payload, b)
        header  == HeaderOf(c.header)
    IN  CASE Len(c.header) < HeaderSize -> [c EXCEPT !.header = Append(@, b)]
          [] Len(c.header) = HeaderSize /\ SizeInHeader(header) = 0 ->
                IF IsLastFragment(header) THEN [c EXCEPT !.full = TRUE, !.surplus = TRUE]
                ELSE [c EXCEPT !.header = <<b>>]
          [] OTHER ->
                IF Len(payload) < SizeInHeader(header) THEN [c EXCEPT !.payload = payload]
                ELSE [c EXCEPT !.payloads = @ \o payload, !.full = IsLastFragment(header),
                               !.payload = <<>>, !.header = <<>>]

\* The bytes of one read; some of them may be left when the record is complete.
TakeBytes(c, bytes) ==
    LET after[k \in 0..Len(bytes)] ==
            IF k = 0 THEN c
            ELSE IF after[k - 1].full THEN [after[k - 1] EXCEPT !.surplus = TRUE]
            ELSE TakeByte(after[k - 1], bytes[k])
    IN  after[Len(bytes)]

\* Mutant: the first context is removed, whatever its stream.
WithoutFirst(list, s) == Tail(list)

\* remove_rm_receiving_context
Without(list, s) ==
    LET k == ContextOf(list, s)
    IN  [j \in 1..(Len(list) - 1) |-> IF j < k THEN list[j] ELSE list[j + 1]]

\* server_on_stream_readable when a read returns n bytes.  Bytes behind the end of the
\* record are an error: the callback returns and keeps the context, and the next time the
\* buffers of its last fragment are used and freed again.
Readable(s, n) ==
    LET list == WithContext(s)
        k    == ContextOf(list, s)
        c    == TakeBytes(list[k], SubSeq(wire[s], 1, n))
    IN  /\ ~crashed /\ n <= Len(wire[s])
        /\ wire' = [wire EXCEPT ![s] = SubSeq(@, n + 1, Len(@))]
        /\ \/ /\ list[k].full /\ crashed' = TRUE
              /\ UNCHANGED <<contexts, output>>
           \/ /\ ~list[k].full /\ (~c.full \/ c.surplus)
              /\ contexts' = [list EXCEPT ![k] = c]
              /\ UNCHANGED <<output, crashed>>
           \/ /\ ~list[k].full /\ c.full /\ ~c.surplus
              /\ contexts' = Without(list, s)
              /\ output' = [output EXCEPT ![<<conn, s>>] = Append(@, c.payloads)]
              /\ UNCHANGED crashed
        /\ UNCHANGED <<conn, input, accepted, stale>>

\* The connection ends and another is accepted, whose quic_conn_t has the same address
\* or not.  In the latter case no context of the former is found any more (two
\* connections at most: a third could have the address of the first again).
ConnClosed(same_address) ==
    /\ ~crashed /\ conn < MaxConnections
    /\ conn' = conn + 1
    /\ accepted' = [s \in Stream |-> 0] /\ wire' = [s \in Stream |-> <<>>]
    /\ contexts' = IF same_address THEN contexts ELSE <<>>
    /\ stale' = {s \in Stream : ContextOf(contexts', s) # 0}
    /\ UNCHANGED <<input, output, crashed>>

Next ==
    \/ \E s \in Stream :
        \/ \E size \in Sizes, room \in Rooms : Send(s, size, room)
        \/ \E n \in 1..(MaxRecord * (HeaderSize + 1)) : Readable(s, n)
    \/ \E same_address \in BOOLEAN : ConnClosed(same_address)

\* What a stream accepted is delivered.
Fairness == \A s \in Stream : WF_vars(\E n \in 1..(MaxRecord * (HeaderSize + 1)) : Readable(s, n))

Spec == Init /\ [][Next]_vars /\ Fairness

-----------------------------------------------------------------------------
\* A stream has at most one context, and has one exactly while the record on
\* it has been received in part: no context outlives its record, so the next
\* record on the stream starts afresh, also on the next connection.  The exception
\* is real: a connection that ended in the middle of a record leaves its context to
\* a connection with the same address and stream, and only then is memory freed twice.
ContextsFresh ==
    /\ \A j, k \in DOMAIN contexts : contexts[j].stream = contexts[k].stream => j = k
    /\ \A s \in Stream \ stale :
          ContextOf(contexts, s) # 0 <=> /\ Len(wire[s]) < accepted[s]
                                         /\ input[<<conn, s>>] # output[<<conn, s>>]
    /\ crashed => stale # {}

\* The last record on the stream was cut off (and send_rm_record_quic returned 0).
CutOff(s) ==
    LET sent == input[<<conn, s>>]
        size == Len(sent[Len(sent)])
    IN  sent # <<>> /\ accepted[s] < size + HeaderSize * ((size + MaxFragment - 1) \div MaxFragment)

\* The records there are (the bytes of the n-th depend on n modulo ByteValues).
Records == {Data(n, size) : n \in 0..(ByteValues - 1), size \in Sizes}

Channel == INSTANCE RecordChannel
             WITH Record <- Records,
                  broken <- [c \in Chan |-> \/ crashed \/ c[1] < conn
                                            \/ c[1] = conn /\ (c[2] \in stale \/ CutOff(c[2]))]

\* Every stream of every connection is a channel of records, however its bytes are cut
\* and mixed with those of other streams, as long as it accepts whole records, the
\* connection lasts and it found no context of an earlier one; a stream on which that is
\* not so does not disturb the others, unless memory is freed twice.
ImplementsChannel == Channel!Spec
=============================================================================
