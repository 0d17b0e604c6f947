------------------------------ MODULE TcpRecord ------------------------------
(***************************************************************************)
(* One direction of a TCP connection: one end in send_rm_record_tcp, the   *)
(* other in receive_rm_record_tcp (src/transport/tcp/tcp_record_marking.c).*)
(* send and recv transfer as many bytes as they like.  When the sending    *)
(* process ends, in the middle of a record or not, recv returns 0 after    *)
(* the bytes in transit.  After the connection is reset both calls fail    *)
(* with -1, which the code keeps in a size_t and adds to the number of     *)
(* bytes transferred.                                                      *)
(***************************************************************************)
EXTENDS RecordMarking

CONSTANT SizeMod   \* the number of values of a size_t

ASSUME TcpRecordAssumption == SizeMod \in Nat \ {0}

VARIABLES input,   \* the records passed to send_rm_record_tcp
          output,  \* the records receive_rm_record_tcp returned
          wire,    \* the bytes in transit
          closed,  \* the sender has closed it
          reset,   \* it has been reset
          tx,      \* the sender: the call of send_bytes_tcp it is in
          rx       \* the receiver: the call of receive_bytes_tcp it is in

vars == <<input, output, wire, closed, reset, tx, rx>>

\* at: which buffer; offset: rm_record_data_bytes_sent; total: total_bytes_sent
TxIdle == [at |-> "idle", offset |-> 0, total |-> 0]

\* at: which buffer; buffer: the bytes in it, of which 'total' (total_bytes_read)
\* count; header: the fragment's; record: rm_record_data_buffer
RxIdle == [at |-> "idle", buffer |-> <<>>, total |-> 0, header |-> 0, record |-> <<>>]

Init ==
    /\ input = <<>> /\ output = <<>> /\ wire = <<>>
    /\ closed = FALSE /\ reset = FALSE
    /\ tx = TxIdle /\ rx = RxIdle

\* A size_t after -1 has been added to it.
MinusOne(total) == (total + SizeMod - 1) % SizeMod

Reset ==
    /\ ~reset
    /\ reset' = TRUE /\ wire' = <<>>
    /\ UNCHANGED <<input, output, closed, tx, rx>>

Close ==
    /\ ~closed
    /\ closed' = TRUE /\ tx' = TxIdle
    /\ UNCHANGED <<input, output, wire, reset, rx>>

-----------------------------------------------------------------------------
Record == input[Len(input)]

\* source_buffer of the current call of send_bytes_tcp
Source ==
    IF tx.at = "header" THEN HeaderBytes(FragmentHeader(Record, tx.offset))
    ELSE FragmentData(Record, tx.offset)

Send(size) ==
    /\ tx.at = "idle" /\ ~closed /\ input = output /\ Len(input) < MaxRecords
    /\ input' = Append(input, Data(Len(input), size))
    /\ tx' = [TxIdle EXCEPT !.at = "header"]
    /\ UNCHANGED <<output, wire, closed, reset, rx>>

Sending == tx.at # "idle" /\ tx.total < Len(Source)

SendBytes(n) ==
    /\ Sending /\ ~reset /\ n <= Len(Source) - tx.total
    /\ wire' = wire \o SubSeq(Source, tx.total + 1, tx.total + n)
    /\ tx' = [tx EXCEPT !.total = @ + n]
    /\ UNCHANGED <<input, output, closed, reset, rx>>

\* Mutant: -1 is taken for an interrupted call, to be made again.
SendFailsRetry ==
    /\ Sending /\ reset
    /\ UNCHANGED vars

\* bytes_sent < 0 is never true of a size_t.
SendFails ==
    /\ Sending /\ reset
    /\ tx' = [tx EXCEPT !.total = MinusOne(@)]
    /\ UNCHANGED <<input, output, wire, closed, reset, rx>>

\* send_bytes_tcp returns 0
SendReturns ==
    LET offset == tx.offset + FragmentSize(Record, tx.offset)
    IN  /\ tx.at # "idle" /\ ~Sending
        /\ tx' = CASE tx.at = "header"                         -> [tx EXCEPT !.at = "data", !.total = 0]
                   [] tx.at = "data" /\ offset < Len(Record)   -> [at |-> "header", offset |-> offset,
                                                                  total |-> 0]
                   [] tx.at = "data" /\ offset >= Len(Record)  -> TxIdle
        /\ UNCHANGED <<input, output, wire, closed, reset, rx>>

-----------------------------------------------------------------------------
\* bytes_to_read of the current call of receive_bytes_tcp
Wanted == IF rx.at = "header" THEN HeaderSize ELSE SizeInHeader(rx.header)

\* is_tcp_connection_closed sees a byte
Peek ==
    /\ rx.at = "idle" /\ wire # <<>>
    /\ rx' = [RxIdle EXCEPT !.at = "header"]
    /\ UNCHANGED <<input, output, wire, closed, reset, tx>>

Receiving == rx.at \in {"header", "data"} /\ rx.total < Wanted

\* Mutant: every recv writes at the start of the buffer.
PutAtStart(buffer, total, bytes) == bytes \o SubSeq(buffer, Len(bytes) + 1, Len(buffer))

\* recv writes behind the bytes that count
Put(buffer, total, bytes) == SubSeq(buffer, 1, total) \o bytes

ReceiveBytes(n) ==
    /\ Receiving /\ n <= Smaller(Len(wire), Wanted - rx.total)
    /\ rx' = [rx EXCEPT !.buffer = Put(@, rx.total, SubSeq(wire, 1, n)), !.total = @ + n]
    /\ wire' = SubSeq(wire, n + 1, Len(wire))
    /\ UNCHANGED <<input, output, closed, reset, tx>>

ReceiveFails ==
    /\ Receiving /\ reset
    /\ rx' = [rx EXCEPT !.total = MinusOne(@)]
    /\ UNCHANGED <<input, output, wire, closed, reset, tx>>

\* recv returns 0: receive_bytes_tcp fails, or is_tcp_connection_closed says so.
ReceiveEnds ==
    /\ closed /\ ~reset /\ wire = <<>>
    /\ Receiving \/ rx.at = "idle"
    /\ rx' = [RxIdle EXCEPT !.at = "ended"]
    /\ UNCHANGED <<input, output, wire, closed, reset, tx>>

\* What the buffer holds when receive_bytes_tcp returns 0: a byte that was never
\* written has any value.
Contents == {b \in [1..Wanted -> Byte] : \A k \in 1..Len(rx.buffer) : b[k] = rx.buffer[k]}

HeaderReceived ==
    /\ rx.at = "header" /\ ~Receiving
    /\ \E b \in Contents :
            rx' = [rx EXCEPT !.at = "data", !.buffer = <<>>, !.total = 0, !.header = HeaderOf(b)]
    /\ UNCHANGED <<input, output, wire, closed, reset, tx>>

FragmentReceived ==
    /\ rx.at = "data" /\ ~Receiving /\ ~IsLastFragment(rx.header)
    /\ \E b \in Contents :
            rx' = [RxIdle EXCEPT !.at = "header", !.record = rx.record \o b]
    /\ Len(rx'.record) <= MaxRecord        \* bound
    /\ UNCHANGED <<input, output, wire, closed, reset, tx>>

RecordReceived ==
    /\ rx.at = "data" /\ ~Receiving /\ IsLastFragment(rx.header)
    /\ \E b \in Contents : output' = Append(output, rx.record \o b)
    /\ rx' = IF reset THEN [RxIdle EXCEPT !.at = "ended"] ELSE RxIdle
    /\ UNCHANGED <<input, wire, closed, reset, tx>>

-----------------------------------------------------------------------------
Sender == SendFails \/ SendReturns \/ \E n \in 1..(MaxFragment + HeaderSize) : SendBytes(n)
Receiver ==
    \/ Peek \/ ReceiveFails \/ ReceiveEnds \/ HeaderReceived \/ FragmentReceived
    \/ RecordReceived \/ \E n \in 1..(MaxFragment + HeaderSize) : ReceiveBytes(n)

Next == Close \/ Reset \/ Sender \/ Receiver \/ \E size \in 1..MaxRecord : Send(size)

\* Both ends keep running.
Fairness == WF_vars(Sender) /\ WF_vars(Receiver)

Spec == Init /\ [][Next]_vars /\ Fairness

-----------------------------------------------------------------------------
\* As long as the connection is not reset, what is received is what was sent,
\* in whatever pieces send and recv transferred it, and nothing is received of
\* a record whose sender ended before it had sent all of it.
IntactUnlessReset ==
    ~reset => /\ Len(output) <= Len(input)
              /\ output = SubSeq(input, 1, Len(output))

\* send_rm_record_tcp returns, also on a connection that was reset: the loop
\* in send_bytes_tcp ends because the counter goes below 0 and wraps.
SendEnds == tx.at # "idle" ~> tx.at = "idle"

Records == {Data(n, size) : n \in 0..MaxRecords, size \in 1..MaxRecord}

Channel == INSTANCE RecordChannel
             WITH Chan <- {1}, Record <- Records,
                  input <- [c \in {1} |-> input], output <- [c \in {1} |-> output],
                  broken <- [c \in {1} |-> closed \/ reset]

\* The two ends implement the channel: until the sender ends or the connection
\* is reset, every record passed to send_rm_record_tcp is returned by
\* receive_rm_record_tcp.
ImplementsChannel == Channel!Spec
=============================================================================
