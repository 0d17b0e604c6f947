---------------------------- MODULE RecordMarking ----------------------------
(***************************************************************************)
(* RPC record marking as both transports use it: a record is sent as a     *)
(* series of fragments, each a header (a flag for the last fragment and    *)
(* the size, as an integer in network byte order) followed by its data.    *)
(***************************************************************************)
EXTENDS Naturals, Sequences

CONSTANTS ByteValues,   \* the number of values of a byte
          HeaderSize,   \* RM_FRAGMENT_HEADER_SIZE
          MaxFragment,  \* RM_MAX_FRAGMENT_DATA_SIZE
          MaxRecord,    \* bound: the size of the largest record
          MaxRecords    \* bound: the number of records sent

\* The powers of ByteValues: what the bytes of an integer count.
Weight[k \in 0..HeaderSize] == IF k = 0 THEN 1 ELSE Weight[k - 1] * ByteValues

\* The flag of the last fragment is the most significant bit of the header.
LastFlag == Weight[HeaderSize] \div 2

ASSUME RecordMarkingAssumption ==
    /\ ByteValues \in Nat \ {0, 1} /\ HeaderSize \in Nat \ {0}
    /\ MaxFragment \in 1..(LastFlag - 1)
    /\ MaxRecord \in Nat \ {0} /\ MaxRecords \in Nat

Byte == 0..(ByteValues - 1)

\* The n-th record when it has the given size: neighbouring bytes differ.
Data(n, size) == [k \in 1..size |-> (n + k) % ByteValues]

Smaller(x, y) == IF x < y THEN x ELSE y

\* The size of the fragment that starts after 'offset' bytes of the record ...
FragmentSize(record, offset) == Smaller(Len(record) - offset, MaxFragment)

\* ... its header ...
FragmentHeader(record, offset) ==
    FragmentSize(record, offset)
      + (IF Len(record) - offset = FragmentSize(record, offset) THEN LastFlag ELSE 0)

\* ... as sent: htonl and memcpy ...
HeaderBytes(header) ==
    [k \in 1..HeaderSize |-> (header \div Weight[HeaderSize - k]) % ByteValues]

\* ... and its data.
FragmentData(record, offset) ==
    SubSeq(record, offset + 1, offset + FragmentSize(record, offset))

\* Mutant: the bytes of a header are taken in the order of the sender's machine.
HeaderOfReversed(bytes) ==
    LET sum[k \in 0..HeaderSize] ==
            IF k = 0 THEN 0 ELSE sum[k - 1] * ByteValues + bytes[HeaderSize + 1 - k]
    IN  sum[HeaderSize]

\* The header in the bytes received: memcpy and ntohl.
HeaderOf(bytes) ==
    LET sum[k \in 0..HeaderSize] == IF k = 0 THEN 0 ELSE sum[k - 1] * ByteValues + bytes[k]
    IN  sum[HeaderSize]

IsLastFragment(header) == header >= LastFlag
SizeInHeader(header) == header % LastFlag

\* Everything that is sent of the record after its first 'offset' bytes.
Framed(record, offset) ==
    LET from[start \in 0..Len(record)] ==
            IF start = Len(record) THEN <<>>
            ELSE HeaderBytes(FragmentHeader(record, start)) \o FragmentData(record, start)
                   \o from[start + FragmentSize(record, start)]
    IN  from[offset]
=============================================================================
