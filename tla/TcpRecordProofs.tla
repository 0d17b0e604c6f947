-------------------------- MODULE TcpRecordProofs ---------------------------
(***************************************************************************)
(* For any sizes of bytes, headers, fragments and records: what is received*)
(* over TCP is what was sent, whatever pieces send and recv transfer, and  *)
(* the promises of RecordChannel are kept.                                 *)
(***************************************************************************)
EXTENDS TcpRecord, RecordMarkingProofs

TcpType ==
    /\ input \in Seq(Seq(Byte)) /\ output \in Seq(Seq(Byte)) /\ wire \in Seq(Byte) /\ closed \in BOOLEAN
    /\ tx \in [at : {"idle", "header", "data"}, offset : Nat, total : Nat]
    /\ rx \in [at : {"idle", "header", "data", "ended"}, buffer : Seq(Byte), total : Nat, header : Nat,
               record : Seq(Byte)]

NextOffset(offset) == offset + FragmentSize(Record, offset)

\* What send_rm_record_tcp sends after the buffer it is sending, and all it still has to send.
AfterSource ==
    (IF tx.at = "header" THEN FragmentData(Record, tx.offset) ELSE <<>>) \o Framed(Record, NextOffset(tx.offset))

Unsent ==
    IF tx.at = "idle" THEN <<>> ELSE SubSeq(Source, tx.total + 1, Len(Source)) \o AfterSource

\* What receive_rm_record_tcp has to receive from the start of its buffer on.
Expected ==
    IF rx.at = "data"
    THEN FragmentData(Record, Len(rx.record)) \o Framed(Record, NextOffset(Len(rx.record)))
    ELSE Framed(Record, Len(rx.record))

\* The sender is at a fragment of the record.
TxOK ==
    /\ tx.at = "idle" => tx = TxIdle
    /\ tx.at # "idle" => /\ input # <<>> /\ ~closed
                         /\ tx.offset \in 0..(Len(Record) - 1) /\ tx.total \in 0..Len(Source)

\* Every record that was sent has been received.
Between ==
    /\ input = output /\ wire = <<>> /\ Unsent = <<>>
    /\ rx = RxIdle \/ (rx.at = "ended" /\ closed)

\* All records but the last were received.
AllButLast == input # <<>> /\ output = SubSeq(input, 1, Len(input) - 1)

\* The sender ended, and the last record is lost.
Interrupted == AllButLast /\ rx.at = "ended" /\ closed

\* The last record is on its way: what the receiver has, what is in transit and what is
\* still to be sent make up the record.
UnderWay ==
    /\ AllButLast
    /\ rx.at # "ended" /\ (rx.at = "idle" => rx = RxIdle)
    /\ Len(rx.record) \in 0..(Len(Record) - 1) /\ rx.record = SubSeq(Record, 1, Len(rx.record))
    /\ rx.at = "data" => rx.header = FragmentHeader(Record, Len(rx.record))
    /\ rx.total = Len(rx.buffer) /\ (rx.at # "idle" => rx.total <= Wanted)
    /\ \E lost \in Seq(Byte) : (rx.buffer \o wire) \o lost = Expected /\ (~closed => lost = Unsent)

InOrder == TcpType /\ TxOK /\ (Between \/ Interrupted \/ UnderWay)

\* As long as the connection is not reset.
TcpInv == ~reset => InOrder

\* The invariant holds when the connection is made.
LEMMA TcpInit == Init => TcpInv
<1> SUFFICES ASSUME Init PROVE InOrder
  BY Zenon DEF TcpInv
<1>1. <<>> \in Seq(Seq(Byte)) /\ <<>> \in Seq(Byte) /\ 0 \in Nat
  OBVIOUS
<1>2. TcpType
  BY <1>1, Zenon DEF Init, TcpType, TxIdle, RxIdle
<1>3. tx.at = "idle" /\ tx = TxIdle
  BY Zenon DEF Init, TxIdle
<1> QED
  BY <1>2, <1>3, Zenon DEF Init, InOrder, TxOK, Between, Unsent

\* The record that is being sent is the last.
LEMMA RecordIs ==
    ASSUME TcpType, input # <<>>
    PROVE  Record \in Seq(Byte) /\ Len(Record) \in Nat /\ Len(input) \in Nat /\ Len(input) >= 1
<1>1. Len(input) \in Nat /\ Len(input) >= 1 /\ Len(input) \in 1..Len(input)
  BY DEF TcpType
<1>2. Record \in Seq(Byte)
  BY <1>1, ElementOf, Zenon DEF TcpType, Record
<1> QED
  BY <1>1, <1>2, Joined, Zenon

\* The buffer that is being sent, and what comes after it.
LEMMA SourceIs ==
    ASSUME TcpType, TxOK, tx.at # "idle"
    PROVE  /\ Source \in Seq(Byte) /\ Len(Source) \in Nat /\ Len(Source) > 0
           /\ AfterSource \in Seq(Byte)
           /\ NextOffset(tx.offset) \in (tx.offset + 1)..Len(Record)
           /\ tx.offset \in 0..(Len(Record) - 1) /\ Record \in Seq(Byte)
<1>1. Record \in Seq(Byte) /\ tx.offset \in 0..(Len(Record) - 1) /\ Len(Record) \in Nat
  BY RecordIs, Zenon DEF TxOK
<1>2. /\ NextOffset(tx.offset) \in (tx.offset + 1)..Len(Record)
      /\ FragmentSize(Record, tx.offset) \in 1..MaxFragment
  BY <1>1, FragmentIs, Zenon DEF NextOffset
<1>3. NextOffset(tx.offset) \in 0..Len(Record)
  BY <1>1, <1>2
<1>4. Framed(Record, NextOffset(tx.offset)) \in Seq(Byte)
  BY <1>1, <1>3, FramedUnfolds, Zenon
<1>5. /\ HeaderBytes(FragmentHeader(Record, tx.offset)) \in Seq(Byte)
      /\ Len(HeaderBytes(FragmentHeader(Record, tx.offset))) = HeaderSize
      /\ FragmentData(Record, tx.offset) \in Seq(Byte)
      /\ Len(FragmentData(Record, tx.offset)) = FragmentSize(Record, tx.offset)
  BY <1>1, FragmentBytes, Zenon
<1>6. Source \in Seq(Byte) /\ Len(Source) \in Nat /\ Len(Source) > 0
  <2>1. HeaderSize \in Nat /\ HeaderSize > 0
    BY RecordMarkingAssumption
  <2>2. FragmentSize(Record, tx.offset) \in Nat /\ FragmentSize(Record, tx.offset) > 0
    BY <1>2, RecordMarkingAssumption
  <2> QED
    BY <1>5, <2>1, <2>2, Zenon DEF Source
<1>7. AfterSource \in Seq(Byte)
  BY <1>4, <1>5, Joined, Zenon DEF AfterSource
<1> QED
  BY <1>1, <1>2, <1>6, <1>7, Zenon

\* A step of the receiver leaves what is still to be sent.
LEMMA SameUnsent ==
    ASSUME UNCHANGED <<tx, input>>
    PROVE  Unsent' = Unsent /\ Record' = Record /\ (\A offset : NextOffset(offset)' = NextOffset(offset))
<1>1. Record' = Record /\ Source' = Source
  BY Zenon DEF Record, Source
<1>2. AfterSource' = AfterSource
  BY <1>1, Zenon DEF AfterSource, NextOffset
<1>3. Unsent' = Unsent
  BY <1>1, <1>2, Zenon DEF Unsent
<1> QED
  BY <1>1, <1>3, Zenon DEF NextOffset

\* The sender ends: what it had not sent is lost.
LEMMA CloseStep ==
    ASSUME InOrder, Close
    PROVE  InOrder'
<1>1. closed' = TRUE /\ tx' = TxIdle /\ UNCHANGED <<input, output, wire, rx>>
  BY Zenon DEF Close
<1>2. TcpType'
  <2>1. TxIdle \in [at : {"idle", "header", "data"}, offset : Nat, total : Nat]
    BY Zenon DEF TxIdle
  <2> QED
    BY <1>1, <2>1, Zenon DEF InOrder, TcpType
<1>3. tx'.at = "idle"
  BY <1>1, Zenon DEF TxIdle
<1>4. TxOK' /\ Unsent' = <<>>
  BY <1>1, <1>3, Zenon DEF TxOK, Unsent
<1>5. Record' = Record /\ AllButLast' = AllButLast
  BY <1>1, Zenon DEF Record, AllButLast
<1>6. Expected' = Expected /\ Wanted' = Wanted
  BY <1>1, <1>5, Zenon DEF Expected, NextOffset, Wanted
<1>7. Between => Between'
  BY <1>1, <1>4, Zenon DEF Between
<1>8. Interrupted => Interrupted'
  BY <1>1, <1>5, Zenon DEF Interrupted
<1>9. UnderWay => UnderWay'
  BY <1>1, <1>5, <1>6, Zenon DEF UnderWay
<1> QED
  BY <1>2, <1>4, <1>7, <1>8, <1>9, Zenon DEF InOrder

\* A record is passed to send_rm_record_tcp.
LEMMA SendStep ==
    ASSUME InOrder, NEW size \in 1..MaxRecord, Send(size)
    PROVE  InOrder'
<1> DEFINE r == Data(Len(input), size)
<1>1. /\ tx.at = "idle" /\ ~closed /\ input = output
      /\ input' = Append(input, r) /\ tx' = [TxIdle EXCEPT !.at = "header"]
      /\ UNCHANGED <<output, wire, closed, rx>>
  BY Zenon DEF Send
<1>2. input \in Seq(Seq(Byte)) /\ Len(input) \in Nat
  BY DEF InOrder, TcpType
<1>3. r \in Seq(Byte) /\ Len(r) = size /\ size \in Nat /\ size >= 1
  <2>1. size \in Nat /\ size >= 1
    BY RecordMarkingAssumption
  <2> QED
    BY <1>2, <2>1, DataIs, Zenon
<1> HIDE DEF r
<1>4. /\ input' \in Seq(Seq(Byte)) /\ input' # <<>> /\ Len(input') = Len(input) + 1
      /\ input'[Len(input')] = r /\ input = SubSeq(input', 1, Len(input') - 1)
  BY <1>1, <1>2, <1>3
<1>5. Record' = r
  BY <1>4, Zenon DEF Record
<1>6. tx' = [at |-> "header", offset |-> 0, total |-> 0]
  BY <1>1, Zenon DEF TxIdle
<1>7. tx'.at = "header" /\ tx'.offset = 0 /\ tx'.total = 0
  BY <1>6, Zenon
<1>8. TcpType'
  <2>1. tx' \in [at : {"idle", "header", "data"}, offset : Nat, total : Nat]
    BY <1>6, Zenon
  <2> QED
    BY <1>1, <1>4, <2>1, Zenon DEF InOrder, TcpType
<1> DEFINE h == HeaderBytes(FragmentHeader(r, 0))
           d == FragmentData(r, 0)
           n == 0 + FragmentSize(r, 0)
<1>9. 0 \in 0..(Len(r) - 1) /\ 0 \in 0..Len(r)
  BY <1>3
<1>10. h \in Seq(Byte) /\ d \in Seq(Byte) /\ n \in 0..Len(r)
  <2>1. n \in 1..Len(r)
    BY <1>3, <1>9, FragmentIs
  <2>2. n \in 0..Len(r)
    BY <1>3, <2>1
  <2> QED
    BY <1>3, <1>9, <2>2, FragmentBytes, Zenon
<1>11. Framed(r, n) \in Seq(Byte) /\ Framed(r, 0) \in Seq(Byte) /\ Framed(r, 0) = (h \o d) \o Framed(r, n)
  BY <1>3, <1>9, <1>10, FramedUnfolds, Zenon
<1>12. Source' = h /\ AfterSource' = d \o Framed(r, n)
  BY <1>5, <1>7, Zenon DEF Source, AfterSource, NextOffset
<1> HIDE DEF h, d, n
<1>13. SubSeq(h, 0 + 1, Len(h)) = h
  <2>1. 0 + 1 = 1
    OBVIOUS
  <2> QED
    BY <1>10, <2>1, WholePart, Zenon
<1>14. Unsent' = Framed(r, 0)
  <2>1. Unsent' = SubSeq(h, 0 + 1, Len(h)) \o (d \o Framed(r, n))
    BY <1>7, <1>12, Zenon DEF Unsent
  <2> QED
    <3>1. (h \o d) \o Framed(r, n) = h \o (d \o Framed(r, n))
      BY <1>10, <1>11, Regroup, Zenon
    <3> QED
      BY <1>11, <1>13, <2>1, <3>1, Zenon
<1>15. TxOK'
  <2>1. Len(h) \in Nat /\ 0 \in 0..Len(h)
    BY <1>10
  <2> QED
    BY <1>1, <1>4, <1>5, <1>7, <1>9, <1>12, <2>1, Zenon DEF TxOK
<1>16. rx = RxIdle /\ wire = <<>>
  <2>1. Between
    <3>1. ~AllButLast
      <4>1. AllButLast => Len(input) >= 1 /\ Len(SubSeq(input, 1, Len(input) - 1)) = Len(input) - 1
        BY <1>2, WithoutLast, Zenon DEF AllButLast
      <4> QED
        <5>1. AllButLast => Len(input) = Len(input) - 1
          BY <1>1, <4>1, Zenon DEF AllButLast
        <5>2. Len(input) # Len(input) - 1
          BY <1>2
        <5> QED
          BY <5>1, <5>2, Zenon
    <3> QED
      BY <3>1, Zenon DEF InOrder, Interrupted, UnderWay
  <2> QED
    BY <1>1, <2>1, Zenon DEF Between
<1>17. UnderWay'
  <2>1. AllButLast'
    BY <1>1, <1>4, Zenon DEF AllButLast
  <2>2. rx'.at = "idle" /\ rx'.record = <<>> /\ rx'.total = 0 /\ rx'.buffer = <<>> /\ rx' = RxIdle
    BY <1>1, <1>16, Zenon DEF RxIdle
  <2>3. Len(<<>>) = 0 /\ SubSeq(r, 1, 0) = <<>>
    BY <1>3
  <2>4. Expected' = Framed(r, 0)
    BY <1>5, <2>2, <2>3, Zenon DEF Expected
  <2>5. (rx'.buffer \o wire') \o Unsent' = Expected'
    <3>1. wire' = <<>> /\ rx'.buffer = <<>>
      BY <1>1, <1>16, <2>2, Zenon
    <3>2. <<>> \o <<>> = <<>> /\ <<>> \o Framed(r, 0) = Framed(r, 0)
      BY <1>11, Joined, Zenon
    <3>3. (<<>> \o <<>>) \o Framed(r, 0) = Framed(r, 0)
      BY <3>2, Zenon
    <3> QED
      BY <1>14, <2>4, <3>1, <3>3, Zenon
  <2>6. Unsent' \in Seq(Byte)
    BY <1>11, <1>14, Zenon
  <2> QED
    BY <1>5, <1>9, <2>1, <2>2, <2>3, <2>5, <2>6, Zenon DEF UnderWay
<1> QED
  BY <1>8, <1>15, <1>17, Zenon DEF InOrder

\* send takes some bytes of the buffer.
LEMMA SendBytesStep ==
    ASSUME InOrder, NEW n \in Nat \ {0}, SendBytes(n)
    PROVE  InOrder'
<1> DEFINE x == SubSeq(Source, tx.total + 1, tx.total + n)
           y == SubSeq(Source, (tx.total + n) + 1, Len(Source))
<1>1. /\ tx.at # "idle" /\ tx.total < Len(Source) /\ n <= Len(Source) - tx.total
      /\ wire' = wire \o x /\ tx' = [tx EXCEPT !.total = @ + n]
      /\ UNCHANGED <<input, output, closed, rx>>
  BY Zenon DEF SendBytes, Sending
<1>2. TcpType /\ TxOK
  BY Zenon DEF InOrder
<1>3. /\ Source \in Seq(Byte) /\ Len(Source) \in Nat /\ AfterSource \in Seq(Byte)
      /\ tx.total \in 0..Len(Source) /\ ~closed
  BY <1>1, <1>2, SourceIs, Zenon DEF TxOK
<1>4. tx'.at = tx.at /\ tx'.offset = tx.offset /\ tx'.total = tx.total + n
      /\ tx' \in [at : {"idle", "header", "data"}, offset : Nat, total : Nat]
  <2>1. tx \in [at : {"idle", "header", "data"}, offset : Nat, total : Nat]
    BY <1>2, Zenon DEF TcpType
  <2>2. tx' = [tx EXCEPT !.total = @ + n]
    BY <1>1, Zenon
  <2> HIDE DEF x, y
  <2> QED
    BY <2>1, <2>2
<1>5. Record' = Record /\ Source' = Source /\ AfterSource' = AfterSource
  <2>1. Record' = Record
    BY <1>1, Zenon DEF Record
  <2> QED
    BY <1>4, <2>1, Zenon DEF Source, AfterSource, NextOffset
<1>6. n \in 0..(Len(Source) - tx.total) /\ tx.total + n \in 0..Len(Source)
  BY <1>1, <1>3
<1>7. /\ x \in Seq(Byte) /\ Len(x) = n /\ y \in Seq(Byte)
      /\ SubSeq(Source, tx.total + 1, Len(Source)) = x \o y
  <2>1. y \in Seq(Byte)
    BY <1>3, <1>6, Cut, Zenon
  <2> QED
    BY <1>3, <1>6, <2>1, CutRest, Zenon
<1>8. Unsent = (x \o y) \o AfterSource /\ Unsent' = y \o AfterSource
  <2> HIDE DEF x
  <2>1. Unsent = (x \o y) \o AfterSource
    BY <1>1, <1>7, Zenon DEF Unsent
  <2>2. Unsent' = y \o AfterSource
    BY <1>1, <1>4, <1>5, Zenon DEF Unsent
  <2> QED
    BY <2>1, <2>2, Zenon
<1> HIDE DEF x, y
<1>9. Unsent' \in Seq(Byte) /\ Unsent = x \o Unsent'
  <2>1. y \o AfterSource \in Seq(Byte)
    BY <1>3, <1>7, Joined, Zenon
  <2>2. (x \o y) \o AfterSource = x \o (y \o AfterSource)
    BY <1>3, <1>7, Regroup, Zenon
  <2> QED
    BY <1>8, <2>1, <2>2, Zenon
<1>10. wire \in Seq(Byte) /\ wire' \in Seq(Byte) /\ rx.buffer \in Seq(Byte)
  <2>1. wire \in Seq(Byte) /\ rx.buffer \in Seq(Byte)
    BY <1>2, Zenon DEF TcpType
  <2> QED
    BY <1>1, <1>7, <2>1, Joined, Zenon
<1>11. TcpType'
  BY <1>1, <1>2, <1>4, <1>10, Zenon DEF TcpType
<1>12. TxOK'
  BY <1>1, <1>2, <1>4, <1>5, <1>6, Zenon DEF TxOK
<1>13. UnderWay
  <2>1. Unsent # <<>>
    <3>1. Len(Unsent) = Len(x) + Len(Unsent') /\ Len(Unsent') \in Nat
      BY <1>7, <1>9, Joined, Zenon
    <3>2. Len(Unsent) # 0
      BY <1>7, <3>1
    <3> QED
      BY <3>2
  <2> QED
    BY <1>3, <2>1, Zenon DEF InOrder, Between, Interrupted
<1>14. (rx.buffer \o wire) \o Unsent = Expected
  BY <1>3, <1>13, Zenon DEF UnderWay
<1>15. (rx'.buffer \o wire') \o Unsent' = Expected
  <2>1. (rx.buffer \o wire) \o (x \o Unsent') = Expected
    BY <1>9, <1>14, Zenon
  <2>2. rx.buffer \o wire \in Seq(Byte) /\ wire \o x \in Seq(Byte) /\ x \in Seq(Byte) /\ Unsent' \in Seq(Byte)
    BY <1>7, <1>9, <1>10, Joined, Zenon
  <2>3. (rx.buffer \o wire) \o (x \o Unsent') = ((rx.buffer \o wire) \o x) \o Unsent'
    <3> DEFINE a == rx.buffer \o wire
               z == Unsent'
    <3>1. a \in Seq(Byte) /\ z \in Seq(Byte)
      BY <2>2, Zenon
    <3> HIDE DEF a, z
    <3>2. (a \o x) \o z = a \o (x \o z)
      BY <1>7, <3>1, Regroup, Zenon
    <3> QED
      BY <3>2, Zenon DEF a, z
  <2>4. (rx.buffer \o wire) \o x = rx.buffer \o (wire \o x)
    BY <1>7, <1>10, Regroup, Zenon
  <2> QED
    BY <1>1, <2>1, <2>3, <2>4, Zenon
<1>16. UnderWay'
  <2>1. AllButLast' /\ Expected' = Expected /\ Wanted' = Wanted
    BY <1>1, <1>5, <1>13, Zenon DEF AllButLast, UnderWay, Expected, NextOffset, Wanted
  <2> QED
    BY <1>1, <1>5, <1>9, <1>13, <1>15, <2>1, Zenon DEF UnderWay
<1> QED
  BY <1>11, <1>12, <1>16, Zenon DEF InOrder

\* send_bytes_tcp returns: the next buffer is what came after the last one.
LEMMA SendReturnsStep ==
    ASSUME InOrder, SendReturns
    PROVE  InOrder'
<1> DEFINE o == tx.offset
           n == NextOffset(o)
           d == FragmentData(Record, o)
           h(k) == HeaderBytes(FragmentHeader(Record, k))
<1>0. TcpType /\ TxOK
  BY Zenon DEF InOrder
<1>1. tx.at # "idle" /\ ~Sending /\ UNCHANGED <<input, output, wire, closed, rx>>
  BY Zenon DEF SendReturns
<1>2. /\ Source \in Seq(Byte) /\ Len(Source) \in Nat /\ AfterSource \in Seq(Byte)
      /\ tx.total \in 0..Len(Source) /\ n \in (o + 1)..Len(Record)
      /\ o \in 0..(Len(Record) - 1) /\ Record \in Seq(Byte) /\ Len(Record) \in Nat
  BY <1>0, <1>1, SourceIs, Joined, Zenon DEF TxOK
<1>3. n \in 0..Len(Record) /\ n \in Nat
  BY <1>2
<1>4. d \in Seq(Byte) /\ Framed(Record, n) \in Seq(Byte)
  BY <1>2, <1>3, FragmentBytes, FramedUnfolds, Zenon
<1>5. Unsent = AfterSource
  <2>1. ~(tx.total < Len(Source))
    BY <1>1, Zenon DEF Sending
  <2>2. tx.total = Len(Source)
    BY <1>2, <2>1
  <2>3. SubSeq(Source, Len(Source) + 1, Len(Source)) = <<>>
    BY <1>2
  <2>4. <<>> \o AfterSource = AfterSource
    BY <1>2, Joined, Zenon
  <2> QED
    BY <1>1, <2>2, <2>3, <2>4, Zenon DEF Unsent
<1>6. Record' = Record
  BY <1>1, Zenon DEF Record
<1>7. tx' \in [at : {"idle", "header", "data"}, offset : Nat, total : Nat] /\ Unsent' = Unsent /\ TxOK'
  <2>1. CASE tx.at = "header"
    <3>1. tx' = [tx EXCEPT !.at = "data", !.total = 0]
      BY <2>1, Zenon DEF SendReturns
    <3>2. tx'.at = "data" /\ tx'.offset = o /\ tx'.total = 0
          /\ tx' \in [at : {"idle", "header", "data"}, offset : Nat, total : Nat]
      <4>1. tx \in [at : {"idle", "header", "data"}, offset : Nat, total : Nat]
        BY <1>0, Zenon DEF TcpType
      <4> QED
        BY <3>1, <4>1, Zenon
    <3>3. Source' = d /\ AfterSource' = <<>> \o Framed(Record, n)
      BY <1>6, <3>2, Zenon DEF Source, AfterSource, NextOffset
    <3>4. AfterSource' = Framed(Record, n)
      BY <1>4, <3>3, Joined, Zenon
    <3>5. AfterSource = d \o Framed(Record, n)
      BY <2>1, Zenon DEF AfterSource
    <3> HIDE DEF d, n, o
    <3>6. SubSeq(d, 0 + 1, Len(d)) = d /\ 0 \in 0..Len(d)
      <4>1. 0 + 1 = 1 /\ 0 \in 0..Len(d)
        BY <1>4
      <4> QED
        BY <1>4, <4>1, WholePart, Zenon
    <3>7. Unsent' = SubSeq(d, 0 + 1, Len(d)) \o Framed(Record, n)
      BY <3>2, <3>3, <3>4, Zenon DEF Unsent
    <3>8. Unsent' = Unsent
      BY <1>5, <3>5, <3>6, <3>7, Zenon
    <3>9. TxOK'
      BY <1>0, <1>1, <1>2, <1>6, <3>2, <3>3, <3>6, Zenon DEF TxOK, o
    <3> QED
      BY <3>2, <3>8, <3>9, Zenon
  <2>2. CASE tx.at = "data" /\ n < Len(Record)
    <3>1. tx' = [at |-> "header", offset |-> n, total |-> 0]
      <4>1. tx.at # "header" /\ tx.offset + FragmentSize(Record, tx.offset) < Len(Record)
        BY <2>2, Zenon DEF NextOffset
      <4>2. ~(tx.offset + FragmentSize(Record, tx.offset) >= Len(Record))
        BY <1>2, <2>2 DEF NextOffset
      <4> QED
        BY <2>2, <4>1, <4>2, Zenon DEF SendReturns, NextOffset
    <3> HIDE DEF n
    <3>2. /\ tx'.at = "header" /\ tx'.offset = n /\ tx'.total = 0
          /\ tx' \in [at : {"idle", "header", "data"}, offset : Nat, total : Nat]
      BY <1>3, <3>1, Zenon
    <3>3. n \in 0..(Len(Record) - 1)
      BY <1>2, <1>3, <2>2
    <3> DEFINE m == NextOffset(n)
    <3>4. m \in 0..Len(Record)
      <4>1. m \in (n + 1)..Len(Record)
        BY <1>2, <3>3, FragmentIs, Zenon DEF NextOffset
      <4> QED
        BY <1>3, <4>1
    <3>5. Source' = h(n) /\ AfterSource' = FragmentData(Record, n) \o Framed(Record, m)
      BY <1>6, <3>2, Zenon DEF Source, AfterSource, NextOffset
    <3>6. /\ h(n) \in Seq(Byte) /\ FragmentData(Record, n) \in Seq(Byte) /\ Framed(Record, m) \in Seq(Byte)
          /\ Framed(Record, n) = (h(n) \o FragmentData(Record, n)) \o Framed(Record, m)
      <4>1. Framed(Record, m) \in Seq(Byte)
        BY <1>2, <3>4, FramedUnfolds, Zenon
      <4>2. Framed(Record, n) = (h(n) \o FragmentData(Record, n)) \o Framed(Record, m)
        BY <1>2, <3>3, FramedUnfolds, Zenon DEF NextOffset
      <4> QED
        BY <1>2, <3>3, <4>1, <4>2, FragmentBytes, Zenon
    <3> DEFINE hn == h(n)
               dn == FragmentData(Record, n)
    <3>7. hn \in Seq(Byte) /\ dn \in Seq(Byte)
      BY <3>6, Zenon
    <3>8. Framed(Record, n) = (hn \o dn) \o Framed(Record, m)
      BY <3>6, Zenon
    <3>9. Source' = hn /\ AfterSource' = dn \o Framed(Record, m)
      BY <3>5, Zenon
    <3>10. AfterSource = Framed(Record, n)
      <4>1. AfterSource = <<>> \o Framed(Record, n)
        BY <2>2, Zenon DEF AfterSource, n
      <4> QED
        BY <1>4, <4>1, Joined, Zenon
    <3> HIDE DEF hn, dn, m
    <3>11. SubSeq(hn, 0 + 1, Len(hn)) = hn /\ 0 \in 0..Len(hn)
      <4>1. 0 + 1 = 1 /\ 0 \in 0..Len(hn)
        BY <3>7
      <4> QED
        BY <3>7, <4>1, WholePart, Zenon
    <3>12. Unsent' = hn \o (dn \o Framed(Record, m))
      BY <3>2, <3>9, <3>11, Zenon DEF Unsent
    <3>13. Unsent' = Unsent
      <4>1. (hn \o dn) \o Framed(Record, m) = hn \o (dn \o Framed(Record, m))
        BY <3>6, <3>7, Regroup, Zenon
      <4> QED
        BY <1>5, <3>8, <3>10, <3>12, <4>1, Zenon
    <3>14. TxOK'
      BY <1>0, <1>1, <1>6, <3>2, <3>3, <3>9, <3>11, Zenon DEF TxOK
    <3> QED
      BY <3>2, <3>13, <3>14, Zenon
  <2>3. CASE tx.at = "data" /\ ~(n < Len(Record))
    <3>1. n = Len(Record)
      BY <1>2, <2>3
    <3>2. tx' = TxIdle
      <4>1. tx.at # "header" /\ ~(tx.offset + FragmentSize(Record, tx.offset) < Len(Record))
        BY <2>3, Zenon DEF NextOffset
      <4>2. tx.offset + FragmentSize(Record, tx.offset) >= Len(Record)
        BY <1>2, <3>1 DEF NextOffset
      <4> QED
        BY <2>3, <4>1, <4>2, Zenon DEF SendReturns
    <3>3. tx'.at = "idle" /\ TxIdle \in [at : {"idle", "header", "data"}, offset : Nat, total : Nat]
      BY <3>2, Zenon DEF TxIdle
    <3>4. Framed(Record, n) = <<>>
      BY <1>2, <3>1, FramedUnfolds, Zenon
    <3>5. AfterSource = <<>> \o Framed(Record, n)
      BY <2>3, Zenon DEF AfterSource
    <3>6. Unsent' = Unsent
      BY <1>5, <3>3, <3>4, <3>5, Joined, Zenon DEF Unsent
    <3> QED
      BY <3>2, <3>3, <3>6, Zenon DEF TxOK
  <2>4. tx.at = "header" \/ tx.at = "data"
    BY <1>0, <1>1, Zenon DEF TcpType
  <2> QED
    BY <2>1, <2>2, <2>3, <2>4, Zenon
<1>8. TcpType'
  BY <1>0, <1>1, <1>7, Zenon DEF TcpType
<1>9. Between => Between'
  BY <1>1, <1>7, Zenon DEF Between
<1>10. Interrupted => Interrupted'
  BY <1>1, Zenon DEF Interrupted, AllButLast
<1>11. UnderWay => UnderWay'
  <2>1. AllButLast' = AllButLast /\ Expected' = Expected /\ Wanted' = Wanted
    BY <1>1, <1>6, Zenon DEF AllButLast, Expected, NextOffset, Wanted
  <2> QED
    BY <1>1, <1>6, <1>7, <2>1, Zenon DEF UnderWay
<1> QED
  BY <1>7, <1>8, <1>9, <1>10, <1>11, Zenon DEF InOrder

\* The receiver is at a fragment of the record under way.
LEMMA ReceiverIs ==
    ASSUME InOrder, rx.at \in {"header", "data"}
    PROVE  /\ TcpType /\ TxOK /\ UnderWay /\ Record \in Seq(Byte) /\ Len(Record) \in Nat
           /\ Len(rx.record) \in 0..(Len(Record) - 1) /\ NextOffset(Len(rx.record)) \in 0..Len(Record)
           /\ HeaderBytes(FragmentHeader(Record, Len(rx.record))) \in Seq(Byte)
           /\ FragmentData(Record, Len(rx.record)) \in Seq(Byte)
           /\ Framed(Record, NextOffset(Len(rx.record))) \in Seq(Byte)
           /\ Framed(Record, Len(rx.record))
                = HeaderBytes(FragmentHeader(Record, Len(rx.record)))
                    \o (FragmentData(Record, Len(rx.record)) \o Framed(Record, NextOffset(Len(rx.record))))
           /\ rx.buffer \in Seq(Byte) /\ wire \in Seq(Byte) /\ Len(rx.buffer) = rx.total
           /\ Wanted \in Nat /\ rx.total <= Wanted
<1> DEFINE o == Len(rx.record)
           h == HeaderBytes(FragmentHeader(Record, o))
           d == FragmentData(Record, o)
           n == NextOffset(o)
<1>1. TcpType /\ TxOK /\ UnderWay
  <2>1. rx.at # "idle" /\ rx.at # "ended"
    BY Zenon
  <2>2. rx # RxIdle
    BY <2>1 DEF RxIdle
  <2> QED
    BY <2>1, <2>2, Zenon DEF InOrder, Between, Interrupted
<1>2. Record \in Seq(Byte) /\ Len(Record) \in Nat
  BY <1>1, RecordIs, Zenon DEF UnderWay, AllButLast
<1>3. o \in 0..(Len(Record) - 1)
  BY <1>1, Zenon DEF UnderWay
<1>4. n \in 0..Len(Record)
  <2>1. n \in (o + 1)..Len(Record)
    BY <1>2, <1>3, FragmentIs, Zenon DEF NextOffset
  <2> QED
    BY <1>2, <1>3, <2>1
<1>5. h \in Seq(Byte) /\ d \in Seq(Byte) /\ Framed(Record, n) \in Seq(Byte)
  BY <1>2, <1>3, <1>4, FragmentBytes, FramedUnfolds, Zenon
<1>6. Framed(Record, o) = (h \o d) \o Framed(Record, n)
  BY <1>2, <1>3, FramedUnfolds, Zenon DEF NextOffset
<1>7. rx.buffer \in Seq(Byte) /\ wire \in Seq(Byte)
  BY <1>1, Zenon DEF TcpType
<1>8. Wanted \in Nat
  <2>1. CASE rx.at = "header"
    BY <2>1, RecordMarkingAssumption, Zenon DEF Wanted
  <2>2. CASE rx.at = "data"
    <3>1. Wanted = FragmentSize(Record, o)
      BY <1>1, <1>2, <1>3, <2>2, FragmentIs, Zenon DEF UnderWay, Wanted
    <3>2. FragmentSize(Record, o) \in 1..MaxFragment
      BY <1>2, <1>3, FragmentIs, Zenon
    <3> QED
      BY <3>1, <3>2, RecordMarkingAssumption
  <2> QED
    BY <2>1, <2>2, Zenon
<1>9. Len(rx.buffer) = rx.total /\ rx.total <= Wanted
  <2>1. rx.at # "idle"
    BY Zenon
  <2> QED
    BY <1>1, <2>1, Zenon DEF UnderWay
<1> HIDE DEF o, h, d, n
<1>10. (h \o d) \o Framed(Record, n) = h \o (d \o Framed(Record, n))
  BY <1>5, Regroup, Zenon
<1> QED
  BY <1>1, <1>2, <1>3, <1>4, <1>5, <1>6, <1>7, <1>8, <1>9, <1>10, Zenon DEF o, h, d, n

\* When receive_bytes_tcp returns every byte of its buffer has been written.
LEMMA BufferWritten ==
    ASSUME InOrder, rx.at \in {"header", "data"}, ~Receiving, NEW b \in Contents
    PROVE  b = rx.buffer /\ Len(rx.buffer) = Wanted
<1>1. rx.buffer \in Seq(Byte) /\ Len(rx.buffer) = rx.total /\ Wanted \in Nat /\ rx.total <= Wanted
  BY ReceiverIs, Zenon
<1>2. ~(rx.total < Wanted)
  BY Zenon DEF Receiving
<1>3. Len(rx.buffer) = Wanted
  BY <1>1, <1>2
<1>4. b \in [1..Wanted -> Byte] /\ \A k \in 1..Wanted : b[k] = rx.buffer[k]
  BY <1>3, Zenon DEF Contents
<1>5. b \in Seq(Byte) /\ Len(b) = Wanted
  BY <1>1, <1>4
<1>6. b = rx.buffer
  BY <1>1, <1>3, <1>4, <1>5, SameElements, Zenon
<1> QED
  BY <1>3, <1>6, Zenon

\* is_tcp_connection_closed sees the first byte of a record.
LEMMA PeekStep ==
    ASSUME InOrder, Peek
    PROVE  InOrder'
<1>1. /\ rx.at = "idle" /\ wire # <<>> /\ rx' = [RxIdle EXCEPT !.at = "header"]
      /\ UNCHANGED <<input, output, wire, closed, tx>>
  BY Zenon DEF Peek
<1>2. TcpType /\ TxOK /\ UnderWay
  BY <1>1, Zenon DEF InOrder, Between, Interrupted
<1>3. rx' = [at |-> "header", buffer |-> <<>>, total |-> 0, header |-> 0, record |-> <<>>]
  BY <1>1, Zenon DEF RxIdle
<1>4. /\ rx'.at = "header" /\ rx'.buffer = <<>> /\ rx'.total = 0 /\ rx'.record = <<>>
      /\ rx' \in [at : {"idle", "header", "data", "ended"}, buffer : Seq(Byte), total : Nat, header : Nat,
                  record : Seq(Byte)]
  BY <1>3
<1>5. rx.buffer = <<>> /\ rx.record = <<>> /\ rx.total = 0
  BY <1>1, <1>2 DEF UnderWay, RxIdle
<1>6. Unsent' = Unsent /\ Record' = Record
  BY <1>1, SameUnsent, Zenon
<1>7. Expected' = Expected
  BY <1>1, <1>4, <1>5, <1>6, Zenon DEF Expected
<1>8. TcpType' /\ TxOK'
  <2>1. Source' = Source
    BY <1>1, <1>6, Zenon DEF Source
  <2> QED
    BY <1>1, <1>2, <1>4, <1>6, <2>1, Zenon DEF TcpType, TxOK
<1>9. UnderWay'
  <2>1. AllButLast'
    BY <1>1, <1>2, Zenon DEF UnderWay, AllButLast
  <2>2. Wanted' = HeaderSize /\ 0 <= HeaderSize
    BY <1>4, RecordMarkingAssumption DEF Wanted
  <2>3. /\ Len(rx.record) \in 0..(Len(Record) - 1) /\ rx.record = SubSeq(Record, 1, Len(rx.record))
        /\ rx.total = Len(rx.buffer)
        /\ \E lost \in Seq(Byte) : (rx.buffer \o wire) \o lost = Expected /\ (~closed => lost = Unsent)
    BY <1>2, Zenon DEF UnderWay
  <2> QED
    BY <1>1, <1>4, <1>5, <1>6, <1>7, <2>1, <2>2, <2>3, Zenon DEF UnderWay
<1> QED
  BY <1>8, <1>9, Zenon DEF InOrder

\* recv puts the next bytes behind those in the buffer.
LEMMA ReceiveBytesStep ==
    ASSUME InOrder, NEW n \in Nat \ {0}, ReceiveBytes(n)
    PROVE  InOrder'
<1> DEFINE x == SubSeq(wire, 1, n)
           y == SubSeq(wire, n + 1, Len(wire))
           w == Wanted
<1>1. /\ rx.at \in {"header", "data"} /\ rx.total < w /\ n <= Smaller(Len(wire), w - rx.total)
      /\ rx' = [rx EXCEPT !.buffer = Put(@, rx.total, x), !.total = @ + n]
      /\ wire' = y /\ UNCHANGED <<input, output, closed, tx>>
  BY Zenon DEF ReceiveBytes, Receiving
<1>2. /\ TcpType /\ TxOK /\ UnderWay /\ rx.buffer \in Seq(Byte) /\ wire \in Seq(Byte) /\ Len(rx.buffer) = rx.total
      /\ w \in Nat /\ Len(wire) \in Nat /\ rx.total \in Nat
  <2>1. /\ TcpType /\ TxOK /\ UnderWay /\ rx.buffer \in Seq(Byte) /\ wire \in Seq(Byte)
        /\ Len(rx.buffer) = rx.total /\ w \in Nat
    BY <1>1, ReceiverIs, Zenon
  <2>2. Len(wire) \in Nat /\ Len(rx.buffer) \in Nat
    BY <2>1, Joined, Zenon
  <2> QED
    BY <2>1, <2>2, Zenon
<1>3. n \in 0..Len(wire) /\ rx.total + n <= w /\ rx.total + n \in Nat
  <2> HIDE DEF x, y, w
  <2> QED
    BY <1>1, <1>2 DEF Smaller
<1>4. x \in Seq(Byte) /\ Len(x) = n /\ y \in Seq(Byte) /\ x \o y = wire
  BY <1>2, <1>3, Cut, Zenon
<1> HIDE DEF x, y
<1>5. Put(rx.buffer, rx.total, x) = rx.buffer \o x
  <2>1. SubSeq(rx.buffer, 1, rx.total) = rx.buffer
    BY <1>2, WholePart, Zenon
  <2> QED
    BY <2>1, Zenon DEF Put
<1>6. rx.buffer \o x \in Seq(Byte) /\ Len(rx.buffer \o x) = rx.total + n
  <2>1. rx.buffer \o x \in Seq(Byte) /\ Len(rx.buffer \o x) = Len(rx.buffer) + Len(x)
    BY <1>2, <1>4, Joined, Zenon
  <2> QED
    BY <1>2, <1>4, <2>1, Zenon
<1>7. /\ rx'.at = rx.at /\ rx'.buffer = rx.buffer \o x /\ rx'.total = rx.total + n /\ rx'.header = rx.header
      /\ rx'.record = rx.record
      /\ rx' \in [at : {"idle", "header", "data", "ended"}, buffer : Seq(Byte), total : Nat, header : Nat,
                  record : Seq(Byte)]
  <2>1. rx \in [at : {"idle", "header", "data", "ended"}, buffer : Seq(Byte), total : Nat, header : Nat,
                record : Seq(Byte)]
    BY <1>2, Zenon DEF TcpType
  <2> DEFINE z == Put(rx.buffer, rx.total, x)
             t == rx.total + n
  <2>2. rx' = [rx EXCEPT !.buffer = z, !.total = t]
    BY <1>1, Zenon
  <2>3. z \in Seq(Byte) /\ t \in Nat
    BY <1>3, <1>5, <1>6, Zenon
  <2> HIDE DEF z, t
  <2>4. /\ rx'.at = rx.at /\ rx'.buffer = z /\ rx'.total = t /\ rx'.header = rx.header /\ rx'.record = rx.record
        /\ rx' \in [at : {"idle", "header", "data", "ended"}, buffer : Seq(Byte), total : Nat, header : Nat,
                    record : Seq(Byte)]
    BY <2>1, <2>2, <2>3, Zenon
  <2> QED
    BY <1>5, <2>4, Zenon DEF z, t
<1>8. Unsent' = Unsent /\ Record' = Record
  BY <1>1, SameUnsent, Zenon
<1>9. Expected' = Expected /\ Wanted' = w
  BY <1>7, <1>8, Zenon DEF Expected, NextOffset, Wanted
<1>10. TcpType' /\ TxOK'
  <2>1. Source' = Source
    BY <1>1, <1>8, Zenon DEF Source
  <2> QED
    BY <1>1, <1>2, <1>4, <1>7, <1>8, <2>1, Zenon DEF TcpType, TxOK
<1>11. rx'.buffer \o wire' = rx.buffer \o wire
  <2>1. (rx.buffer \o x) \o y = rx.buffer \o (x \o y)
    <3>1. rx.buffer \in Seq(Byte) /\ x \in Seq(Byte) /\ y \in Seq(Byte)
      BY <1>2, <1>4, Zenon
    <3> QED
      BY <3>1, Regroup, Zenon
  <2> QED
    BY <1>1, <1>4, <1>7, <2>1, Zenon
<1>12. UnderWay'
  <2>1. AllButLast'
    BY <1>1, <1>2, Zenon DEF UnderWay, AllButLast
  <2>2. rx'.at # "idle" /\ rx'.at # "ended"
    BY <1>1, <1>7, Zenon
  <2>3. rx'.total = Len(rx'.buffer) /\ rx'.total <= Wanted'
    BY <1>3, <1>6, <1>7, <1>9, Zenon
  <2>4. /\ Len(rx'.record) \in 0..(Len(Record') - 1) /\ rx'.record = SubSeq(Record', 1, Len(rx'.record))
        /\ rx'.at = "data" => rx'.header = FragmentHeader(Record', Len(rx'.record))
    BY <1>2, <1>7, <1>8, Zenon DEF UnderWay
  <2>5. \E lost \in Seq(Byte) : (rx'.buffer \o wire') \o lost = Expected' /\ (~closed' => lost = Unsent')
    BY <1>1, <1>2, <1>8, <1>9, <1>11, Zenon DEF UnderWay
  <2> QED
    BY <2>1, <2>2, <2>3, <2>4, <2>5, Zenon DEF UnderWay
<1> QED
  BY <1>10, <1>12, Zenon DEF InOrder

\* recv returns 0: the sender ended, between two records or not.
LEMMA ReceiveEndsStep ==
    ASSUME InOrder, ReceiveEnds
    PROVE  InOrder'
<1>1. /\ closed /\ wire = <<>> /\ rx' = [RxIdle EXCEPT !.at = "ended"]
      /\ UNCHANGED <<input, output, wire, closed, tx>>
  BY Zenon DEF ReceiveEnds
<1>2. rx' = [at |-> "ended", buffer |-> <<>>, total |-> 0, header |-> 0, record |-> <<>>]
  BY <1>1, Zenon DEF RxIdle
<1>3. /\ rx'.at = "ended"
      /\ rx' \in [at : {"idle", "header", "data", "ended"}, buffer : Seq(Byte), total : Nat, header : Nat,
                  record : Seq(Byte)]
  BY <1>2
<1>4. Unsent' = Unsent /\ Record' = Record
  BY <1>1, SameUnsent, Zenon
<1>5. TcpType' /\ TxOK'
  <2>1. Source' = Source
    BY <1>1, <1>4, Zenon DEF Source
  <2> QED
    BY <1>1, <1>3, <1>4, <2>1, Zenon DEF InOrder, TcpType, TxOK
<1>6. Between => Between'
  BY <1>1, <1>3, <1>4, Zenon DEF Between
<1>7. AllButLast => Interrupted'
  BY <1>1, <1>3, Zenon DEF AllButLast, Interrupted
<1> QED
  BY <1>5, <1>6, <1>7, Zenon DEF InOrder, Interrupted, UnderWay

\* The header of the fragment is the one that was sent.
LEMMA HeaderReceivedStep ==
    ASSUME InOrder, HeaderReceived
    PROVE  InOrder'
<1> DEFINE o == Len(rx.record)
           h == HeaderBytes(FragmentHeader(Record, o))
           f == FragmentData(Record, o) \o Framed(Record, NextOffset(o))
<1>1. rx.at = "header" /\ rx.at \in {"header", "data"} /\ ~Receiving /\ UNCHANGED <<input, output, wire, closed, tx>>
  BY Zenon DEF HeaderReceived
<1>2. PICK b \in Contents :
          rx' = [rx EXCEPT !.at = "data", !.buffer = <<>>, !.total = 0, !.header = HeaderOf(b)]
  BY Zenon DEF HeaderReceived
<1>3. b = rx.buffer /\ Len(rx.buffer) = HeaderSize
  <2>1. Wanted = HeaderSize
    BY <1>1, Zenon DEF Wanted
  <2> QED
    BY <1>1, <2>1, BufferWritten, Zenon
<1>4. /\ TcpType /\ TxOK /\ UnderWay /\ Record \in Seq(Byte) /\ Len(Record) \in Nat /\ o \in 0..(Len(Record) - 1)
      /\ h \in Seq(Byte) /\ FragmentData(Record, o) \in Seq(Byte) /\ Framed(Record, NextOffset(o)) \in Seq(Byte)
      /\ Framed(Record, o) = h \o f /\ rx.buffer \in Seq(Byte) /\ wire \in Seq(Byte)
  BY <1>1, ReceiverIs, Zenon
<1>5. f \in Seq(Byte)
  BY <1>4, Joined, Zenon
<1>6. PICK lost \in Seq(Byte) : (rx.buffer \o wire) \o lost = Expected /\ (~closed => lost = Unsent)
  BY <1>4, Zenon DEF UnderWay
<1>7. Len(h) = HeaderSize /\ HeaderOf(h) = FragmentHeader(Record, o) /\ FragmentHeader(Record, o) \in Nat
      /\ SizeInHeader(FragmentHeader(Record, o)) = FragmentSize(Record, o)
      /\ FragmentSize(Record, o) \in 1..MaxFragment
  BY <1>4, FragmentBytes, FragmentIs, Zenon
<1>8. Expected = h \o f
  BY <1>1, <1>4, Zenon DEF Expected
<1> HIDE DEF h, f, o
<1>9. rx.buffer = h /\ wire \o lost = f
  <2>1. (rx.buffer \o wire) \o lost = rx.buffer \o (wire \o lost)
    <3>1. rx.buffer \in Seq(Byte) /\ wire \in Seq(Byte)
      BY <1>4, Zenon
    <3> QED
      BY <3>1, Regroup, Zenon
  <2>2. wire \o lost \in Seq(Byte)
    BY <1>4, Joined, Zenon
  <2>3. rx.buffer \o (wire \o lost) = h \o f
    BY <1>6, <1>8, <2>1, Zenon
  <2>4. Len(rx.buffer) = Len(h)
    BY <1>3, <1>7, Zenon
  <2> QED
    BY <1>4, <1>5, <2>2, <2>3, <2>4, SamePrefix, Zenon
<1>10. /\ rx'.at = "data" /\ rx'.buffer = <<>> /\ rx'.total = 0 /\ rx'.header = FragmentHeader(Record, o)
       /\ rx'.record = rx.record
       /\ rx' \in [at : {"idle", "header", "data", "ended"}, buffer : Seq(Byte), total : Nat, header : Nat,
                   record : Seq(Byte)]
  <2>1. rx \in [at : {"idle", "header", "data", "ended"}, buffer : Seq(Byte), total : Nat, header : Nat,
                record : Seq(Byte)]
    BY <1>4, Zenon DEF TcpType
  <2>2. HeaderOf(b) = FragmentHeader(Record, o)
    BY <1>3, <1>7, <1>9, Zenon
  <2> DEFINE g == FragmentHeader(Record, o)
  <2>3. rx' = [rx EXCEPT !.at = "data", !.buffer = <<>>, !.total = 0, !.header = g] /\ g \in Nat
    BY <1>2, <1>7, <2>2, Zenon
  <2> HIDE DEF g
  <2>4. /\ rx'.at = "data" /\ rx'.buffer = <<>> /\ rx'.total = 0 /\ rx'.header = g /\ rx'.record = rx.record
        /\ rx' \in [at : {"idle", "header", "data", "ended"}, buffer : Seq(Byte), total : Nat, header : Nat,
                    record : Seq(Byte)]
    <3>1. rx' = [at |-> "data", buffer |-> <<>>, total |-> 0, header |-> g, record |-> rx.record]
      BY <2>1, <2>3, Zenon
    <3>2. rx.record \in Seq(Byte) /\ <<>> \in Seq(Byte)
      BY <2>1
    <3> QED
      <4> DEFINE r == rx.record
      <4>1. rx' = [at |-> "data", buffer |-> <<>>, total |-> 0, header |-> g, record |-> r]
            /\ r \in Seq(Byte) /\ g \in Nat
        BY <2>3, <3>1, <3>2, Zenon
      <4> HIDE DEF r
      <4>2. rx'.at = "data" /\ rx'.buffer = <<>> /\ rx'.total = 0 /\ rx'.header = g /\ rx'.record = r
        BY <4>1, Zenon
      <4>3. rx' \in [at : {"idle", "header", "data", "ended"}, buffer : Seq(Byte), total : Nat, header : Nat,
                     record : Seq(Byte)]
        BY <4>1
      <4> QED
        BY <4>2, <4>3, Zenon DEF r
  <2> QED
    BY <2>4, Zenon DEF g
<1>11. Unsent' = Unsent /\ Record' = Record
  BY <1>1, SameUnsent, Zenon
<1>12. TcpType' /\ TxOK'
  <2>1. Source' = Source
    BY <1>1, <1>11, Zenon DEF Source
  <2> QED
    BY <1>1, <1>4, <1>10, <1>11, <2>1, Zenon DEF TcpType, TxOK
<1>13. Expected' = f
  <2>1. Expected' = FragmentData(Record', Len(rx'.record)) \o Framed(Record', Len(rx'.record) + FragmentSize(Record', Len(rx'.record)))
    BY <1>10, Zenon DEF Expected, NextOffset
  <2> QED
    BY <1>10, <1>11, <2>1, Zenon DEF f, o, NextOffset
<1>14. UnderWay'
  <2>1. AllButLast'
    BY <1>1, <1>4, Zenon DEF UnderWay, AllButLast
  <2>2. Wanted' = FragmentSize(Record, o) /\ 0 <= FragmentSize(Record, o)
    <3>1. Wanted' = SizeInHeader(rx'.header)
      BY <1>10, Zenon DEF Wanted
    <3>2. Wanted' = FragmentSize(Record, o)
      BY <1>7, <1>10, <3>1, Zenon
    <3>3. 0 <= FragmentSize(Record, o)
      BY <1>7, RecordMarkingAssumption
    <3> QED
      BY <3>2, <3>3, Zenon
  <2>3. (<<>> \o wire) \o lost = f
    BY <1>4, <1>9, Joined, Zenon
  <2>4. \E l \in Seq(Byte) : (rx'.buffer \o wire') \o l = Expected' /\ (~closed' => l = Unsent')
    BY <1>1, <1>6, <1>10, <1>11, <1>13, <2>3, Zenon
  <2>5. Len(<<>>) = 0
    BY Zenon
  <2>6. rx.record = SubSeq(Record, 1, Len(rx.record))
    BY <1>4, Zenon DEF UnderWay
  <2>7. rx'.at # "ended" /\ rx'.at # "idle"
    BY <1>10, Zenon
  <2>8. rx'.header = FragmentHeader(Record', Len(rx'.record)) /\ Len(rx'.record) \in 0..(Len(Record') - 1)
    BY <1>4, <1>10, <1>11, Zenon DEF o
  <2>9. rx'.record = SubSeq(Record', 1, Len(rx'.record))
    BY <1>10, <1>11, <2>6, Zenon
  <2>10. rx'.total = Len(rx'.buffer) /\ rx'.total <= Wanted'
    BY <1>10, <2>2, <2>5, Zenon
  <2> QED
    BY <2>1, <2>4, <2>7, <2>8, <2>9, <2>10, Zenon DEF UnderWay
<1> QED
  BY <1>12, <1>14, Zenon DEF InOrder

\* The data of the fragment is what was sent, and it continues the record.
LEMMA FragmentDone ==
    ASSUME InOrder, rx.at = "data", ~Receiving, NEW b \in Contents
    PROVE  /\ rx.record \o b = SubSeq(Record, 1, NextOffset(Len(rx.record)))
           /\ IsLastFragment(rx.header) <=> NextOffset(Len(rx.record)) = Len(Record)
           /\ \E lost \in Seq(Byte) :
                wire \o lost = Framed(Record, NextOffset(Len(rx.record))) /\ (~closed => lost = Unsent)
<1> DEFINE o == Len(rx.record)
           d == FragmentData(Record, o)
           f == Framed(Record, NextOffset(o))
<1>1. rx.at \in {"header", "data"} /\ rx.at # "header"
  BY Zenon
<1>2. /\ UnderWay /\ Record \in Seq(Byte) /\ Len(Record) \in Nat /\ o \in 0..(Len(Record) - 1)
      /\ d \in Seq(Byte) /\ f \in Seq(Byte) /\ rx.buffer \in Seq(Byte) /\ wire \in Seq(Byte)
  BY <1>1, ReceiverIs, Zenon
<1>3. rx.header = FragmentHeader(Record, o) /\ rx.record = SubSeq(Record, 1, o)
  BY <1>2, Zenon DEF UnderWay
<1>4. /\ Len(d) = FragmentSize(Record, o) /\ SubSeq(Record, 1, o) \o d = SubSeq(Record, 1, NextOffset(o))
      /\ SizeInHeader(FragmentHeader(Record, o)) = FragmentSize(Record, o)
      /\ IsLastFragment(FragmentHeader(Record, o)) <=> NextOffset(o) = Len(Record)
  BY <1>2, FragmentBytes, FragmentIs, Zenon DEF NextOffset
<1>5. b = rx.buffer /\ Len(rx.buffer) = Len(d)
  <2>1. Wanted = Len(d)
    BY <1>1, <1>3, <1>4, Zenon DEF Wanted
  <2> QED
    BY <1>1, <2>1, BufferWritten, Zenon
<1>6. PICK lost \in Seq(Byte) : (rx.buffer \o wire) \o lost = Expected /\ (~closed => lost = Unsent)
  BY <1>2, Zenon DEF UnderWay
<1>7. Expected = d \o f
  BY Zenon DEF Expected
<1> HIDE DEF d, f, o
<1>8. rx.buffer = d /\ wire \o lost = f
  <2> DEFINE z == wire \o lost
  <2>1. (rx.buffer \o wire) \o lost = rx.buffer \o (wire \o lost)
    <3>1. rx.buffer \in Seq(Byte) /\ wire \in Seq(Byte)
      BY <1>2, Zenon
    <3> QED
      BY <3>1, Regroup, Zenon
  <2>2. z \in Seq(Byte)
    BY <1>2, Joined, Zenon
  <2>3. rx.buffer \o z = d \o f
    BY <1>6, <1>7, <2>1, Zenon
  <2> HIDE DEF z
  <2>4. rx.buffer \in Seq(Byte) /\ d \in Seq(Byte) /\ f \in Seq(Byte) /\ Len(rx.buffer) = Len(d)
    BY <1>2, <1>5, Zenon
  <2>5. rx.buffer = d /\ z = f
    BY <2>2, <2>3, <2>4, SamePrefix, Zenon
  <2> QED
    BY <2>5, Zenon DEF z
<1>9. rx.record \o b = SubSeq(Record, 1, NextOffset(o))
  BY <1>3, <1>4, <1>5, <1>8, Zenon
<1>10. \E l \in Seq(Byte) : wire \o l = f /\ (~closed => l = Unsent)
  BY <1>6, <1>8, Zenon
<1> QED
  BY <1>3, <1>4, <1>9, <1>10, Zenon DEF o, f

\* The fragment is added to the record, and the next is to be received.
LEMMA FragmentReceivedStep ==
    ASSUME InOrder, FragmentReceived
    PROVE  InOrder'
<1> DEFINE n == NextOffset(Len(rx.record))
<1>1. /\ rx.at = "data" /\ rx.at \in {"header", "data"} /\ ~Receiving /\ ~IsLastFragment(rx.header)
      /\ UNCHANGED <<input, output, wire, closed, tx>>
  BY Zenon DEF FragmentReceived
<1>2. PICK b \in Contents : rx' = [RxIdle EXCEPT !.at = "header", !.record = rx.record \o b]
  BY Zenon DEF FragmentReceived
<1>3. /\ TcpType /\ TxOK /\ UnderWay /\ Record \in Seq(Byte) /\ Len(Record) \in Nat
      /\ n \in 0..Len(Record) /\ Framed(Record, n) \in Seq(Byte) /\ wire \in Seq(Byte)
  BY <1>1, ReceiverIs, Zenon
<1>4. /\ rx.record \o b = SubSeq(Record, 1, n) /\ n # Len(Record)
      /\ \E lost \in Seq(Byte) : wire \o lost = Framed(Record, n) /\ (~closed => lost = Unsent)
  BY <1>1, FragmentDone, Zenon
<1> HIDE DEF n
<1> DEFINE r == SubSeq(Record, 1, n)
<1>5. r \in Seq(Byte) /\ Len(r) = n /\ n \in 0..(Len(Record) - 1)
  <2>1. n \in 0..(Len(Record) - 1)
    BY <1>3, <1>4
  <2> QED
    BY <1>3, <2>1, Cut, Zenon
<1>6. rx' = [RxIdle EXCEPT !.at = "header", !.record = r]
  BY <1>2, <1>4, Zenon
<1> HIDE DEF r
<1>7. rx' = [at |-> "header", buffer |-> <<>>, total |-> 0, header |-> 0, record |-> r]
  BY <1>6, Zenon DEF RxIdle
<1>8. rx'.at = "header" /\ rx'.buffer = <<>> /\ rx'.total = 0 /\ rx'.record = r
  BY <1>7, Zenon
<1>9. rx' \in [at : {"idle", "header", "data", "ended"}, buffer : Seq(Byte), total : Nat, header : Nat,
               record : Seq(Byte)]
  BY <1>5, <1>7
<1>10. Unsent' = Unsent /\ Record' = Record
  BY <1>1, SameUnsent, Zenon
<1>11. TcpType' /\ TxOK'
  <2>1. Source' = Source
    BY <1>1, <1>10, Zenon DEF Source
  <2> QED
    BY <1>1, <1>3, <1>9, <1>10, <2>1, Zenon DEF TcpType, TxOK
<1>12. Expected' = Framed(Record, n)
  BY <1>5, <1>8, <1>10, Zenon DEF Expected
<1>13. UnderWay'
  <2>1. AllButLast'
    BY <1>1, <1>3, Zenon DEF UnderWay, AllButLast
  <2>2. Wanted' = HeaderSize /\ 0 <= HeaderSize /\ Len(<<>>) = 0
    BY <1>8, RecordMarkingAssumption DEF Wanted
  <2>3. \E lost \in Seq(Byte) : (rx'.buffer \o wire') \o lost = Expected' /\ (~closed' => lost = Unsent')
    <3>1. <<>> \o wire = wire
      BY <1>3, Joined, Zenon
    <3> QED
      BY <1>1, <1>4, <1>8, <1>10, <1>12, <3>1, Zenon
  <2>4. Len(rx'.record) \in 0..(Len(Record') - 1) /\ rx'.record = SubSeq(Record', 1, Len(rx'.record))
    BY <1>5, <1>8, <1>10, Zenon DEF r
  <2>5. rx'.at # "ended" /\ rx'.at # "idle" /\ rx'.at # "data"
    BY <1>8, Zenon
  <2>6. rx'.total = Len(rx'.buffer) /\ rx'.total <= Wanted'
    BY <1>8, <2>2, Zenon
  <2> QED
    BY <2>1, <2>3, <2>4, <2>5, <2>6, Zenon DEF UnderWay
<1> QED
  BY <1>11, <1>13, Zenon DEF InOrder

\* The record that is returned is the last one that was sent, and nothing else is in
\* transit.
LEMMA RecordReceivedStep ==
    ASSUME InOrder, RecordReceived, ~reset
    PROVE  InOrder' /\ output' = input
<1> DEFINE n == NextOffset(Len(rx.record))
<1>1. /\ rx.at = "data" /\ rx.at \in {"header", "data"} /\ ~Receiving /\ IsLastFragment(rx.header)
      /\ rx' = RxIdle /\ UNCHANGED <<input, wire, closed, tx>>
  BY Zenon DEF RecordReceived
<1>2. PICK b \in Contents : output' = Append(output, rx.record \o b)
  BY Zenon DEF RecordReceived
<1>3. /\ TcpType /\ TxOK /\ UnderWay /\ Record \in Seq(Byte) /\ Len(Record) \in Nat /\ wire \in Seq(Byte)
  BY <1>1, ReceiverIs, Zenon
<1>4. /\ rx.record \o b = SubSeq(Record, 1, n) /\ n = Len(Record)
      /\ \E lost \in Seq(Byte) : wire \o lost = Framed(Record, n) /\ (~closed => lost = Unsent)
  BY <1>1, FragmentDone, Zenon
<1> HIDE DEF n
<1>5. rx.record \o b = Record
  BY <1>3, <1>4, WholePart, Zenon
<1>6. output' = input
  <2>1. input \in Seq(Seq(Byte)) /\ input # <<>> /\ output = SubSeq(input, 1, Len(input) - 1)
    BY <1>3, Zenon DEF TcpType, UnderWay, AllButLast
  <2>2. Append(SubSeq(input, 1, Len(input) - 1), input[Len(input)]) = input
    BY <2>1, WithoutLast, Zenon
  <2> QED
    BY <1>2, <1>5, <2>1, <2>2, Zenon DEF Record
<1>7. PICK lost \in Seq(Byte) : wire \o lost = <<>> /\ (~closed => lost = Unsent)
  <2>1. Framed(Record, Len(Record)) = <<>>
    BY <1>3, FramedUnfolds, Zenon
  <2> QED
    BY <1>4, <2>1, Zenon
<1>8. wire = <<>> /\ lost = <<>>
  BY <1>3, <1>7, JoinNothing
<1>9. Unsent = <<>>
  BY <1>3, <1>7, <1>8, Zenon DEF TxOK, Unsent
<1>10. Unsent' = Unsent /\ Record' = Record
  BY <1>1, SameUnsent, Zenon
<1>11. TcpType' /\ TxOK'
  <2>1. Source' = Source
    BY <1>1, <1>10, Zenon DEF Source
  <2>2. RxIdle \in [at : {"idle", "header", "data", "ended"}, buffer : Seq(Byte), total : Nat, header : Nat,
                    record : Seq(Byte)]
    BY DEF RxIdle
  <2> QED
    BY <1>1, <1>3, <1>6, <1>10, <2>1, <2>2, Zenon DEF TcpType, TxOK
<1>12. Between'
  BY <1>1, <1>6, <1>8, <1>9, <1>10, Zenon DEF Between
<1> QED
  BY <1>6, <1>11, <1>12, Zenon DEF InOrder

\* A step that does not reset the connection keeps everything in order.
LEMMA TcpStep == TcpInv /\ [Next]_vars => TcpInv'
<1> SUFFICES ASSUME TcpInv, [Next]_vars, ~reset' PROVE InOrder'
  BY Zenon DEF TcpInv
<1>1. ~reset
  BY Zenon DEF Next, Sender, Receiver, Close, Reset, Send, SendFails, SendReturns, SendBytes, Peek, ReceiveFails,
               ReceiveEnds, HeaderReceived, FragmentReceived, RecordReceived, ReceiveBytes, vars
<1>2. InOrder
  BY <1>1, Zenon DEF TcpInv
<1>3. 1..(MaxFragment + HeaderSize) \subseteq Nat \ {0}
  BY RecordMarkingAssumption
<1>4. CASE UNCHANGED vars
  BY <1>2, <1>4, Zenon
     DEF vars, InOrder, TcpType, TxOK, Between, Interrupted, UnderWay, AllButLast, Unsent, AfterSource, Source,
         Record, NextOffset, Expected, Wanted
<1>5. ~Reset /\ ~SendFails /\ ~ReceiveFails
  BY <1>1, Zenon DEF Reset, SendFails, ReceiveFails
<1>6. CASE Close
  BY <1>2, <1>6, CloseStep, Zenon
<1>7. CASE Sender
  <2>1. CASE SendReturns
    BY <1>2, <2>1, SendReturnsStep, Zenon
  <2>2. ASSUME NEW n \in 1..(MaxFragment + HeaderSize), SendBytes(n) PROVE InOrder'
    BY <1>2, <1>3, <2>2, SendBytesStep, Zenon
  <2> QED
    BY <1>5, <1>7, <2>1, <2>2, Zenon DEF Sender
<1>8. CASE Receiver
  <2>1. CASE Peek
    BY <1>2, <2>1, PeekStep, Zenon
  <2>2. CASE ReceiveEnds
    BY <1>2, <2>2, ReceiveEndsStep, Zenon
  <2>3. CASE HeaderReceived
    BY <1>2, <2>3, HeaderReceivedStep, Zenon
  <2>4. CASE FragmentReceived
    BY <1>2, <2>4, FragmentReceivedStep, Zenon
  <2>5. CASE RecordReceived
    BY <1>1, <1>2, <2>5, RecordReceivedStep, Zenon
  <2>6. ASSUME NEW n \in 1..(MaxFragment + HeaderSize), ReceiveBytes(n) PROVE InOrder'
    BY <1>2, <1>3, <2>6, ReceiveBytesStep, Zenon
  <2> QED
    BY <1>5, <1>8, <2>1, <2>2, <2>3, <2>4, <2>5, <2>6, Zenon DEF Receiver
<1>9. ASSUME NEW size \in 1..MaxRecord, Send(size) PROVE InOrder'
  BY <1>2, <1>9, SendStep, Zenon
<1> QED
  BY <1>4, <1>5, <1>6, <1>7, <1>8, <1>9, Zenon DEF Next

\* What was received is a beginning of what was sent.
LEMMA TcpIntact == TcpInv => IntactUnlessReset
<1> SUFFICES ASSUME InOrder PROVE Len(output) <= Len(input) /\ output = SubSeq(input, 1, Len(output))
  BY Zenon DEF TcpInv, IntactUnlessReset
<1>1. input \in Seq(Seq(Byte)) /\ Len(input) \in Nat
  BY DEF InOrder, TcpType
<1>2. CASE input = output
  <2>1. Len(input) <= Len(input)
    BY <1>1
  <2> QED
    BY <1>1, <1>2, <2>1, WholePart, Zenon
<1>3. CASE AllButLast
  <2>1. Len(output) = Len(input) - 1 /\ output = SubSeq(input, 1, Len(input) - 1)
    BY <1>1, <1>3, WithoutLast, Zenon DEF AllButLast
  <2>2. Len(output) <= Len(input)
    BY <1>1, <2>1
  <2> QED
    BY <2>1, <2>2, Zenon
<1> QED
  BY <1>2, <1>3, Zenon DEF InOrder, Between, Interrupted, UnderWay

\* Whatever pieces send and recv transfer, receive_rm_record_tcp returns the records
\* passed to send_rm_record_tcp, in that order, unless the connection is reset.
THEOREM TcpSafety == Spec => []IntactUnlessReset
<1>1. Spec => []TcpInv
  BY TcpInit, TcpStep, PTL DEF Spec
<1> QED
  BY <1>1, TcpIntact, PTL

\* A step after which the connection is whole passes a record on the channel, or none.
LEMMA TcpChannelStep ==
    ASSUME InOrder, Next, ~closed', ~reset'
    PROVE  [Channel!Next]_(Channel!vars)
<1> DEFINE in == [c \in {1} |-> input]
           out == [c \in {1} |-> output]
<1>1. ~closed /\ ~reset
  <2>1. ~closed
    BY Zenon DEF Next, Sender, Receiver, Close, Reset, Send, SendFails, SendReturns, SendBytes, Peek, ReceiveFails,
                 ReceiveEnds, HeaderReceived, FragmentReceived, RecordReceived, ReceiveBytes
  <2>2. ~reset
    BY Zenon DEF Next, Sender, Receiver, Close, Reset, Send, SendFails, SendReturns, SendBytes, Peek, ReceiveFails,
                 ReceiveEnds, HeaderReceived, FragmentReceived, RecordReceived, ReceiveBytes
  <2> QED
    BY <2>1, <2>2, Zenon
<1>2. (closed \/ reset) = FALSE /\ (closed' \/ reset') = FALSE
  BY <1>1, Zenon
<1>3. [c \in {1} |-> closed' \/ reset'] = [c \in {1} |-> closed \/ reset] /\ [c \in {1} |-> closed \/ reset][1] = FALSE
  BY <1>2, Zenon
<1>4. input \in Seq(Seq(Byte)) /\ Len(input) \in Nat
  BY DEF InOrder, TcpType
<1>5. ASSUME NEW size \in 1..MaxRecord, Send(size) PROVE Channel!Send(1)
  <2> DEFINE r == Data(Len(input), size)
  <2>1. input = output /\ Len(input) < MaxRecords /\ input' = Append(input, r) /\ UNCHANGED output
    BY <1>5, Zenon DEF Send
  <2>2. Len(input) \in 0..MaxRecords
    BY <1>4, <2>1, RecordMarkingAssumption
  <2>3. r \in Records
    BY <2>2 DEF Records
  <2> HIDE DEF r
  <2>4. [c \in {1} |-> input'] = [in EXCEPT ![1] = Append(@, r)]
    BY <2>1, Zenon
  <2>5. in[1] = out[1] /\ [c \in {1} |-> output'] = out
    BY <2>1, Zenon
  <2> QED
    BY <1>3, <2>3, <2>4, <2>5, Zenon DEF Channel!Send
<1>6. CASE RecordReceived
  <2>1. output' = input /\ input' = input
    BY <1>1, <1>6, RecordReceivedStep, Zenon DEF RecordReceived
  <2>2. AllButLast
    <3>1. rx.at = "data" /\ rx.at \in {"header", "data"}
      BY <1>6, Zenon DEF RecordReceived
    <3> QED
      BY <3>1, ReceiverIs, Zenon DEF UnderWay
  <2>3. /\ Len(output) = Len(input) - 1 /\ Append(output, input[Len(input)]) = input
    BY <1>4, <2>2, WithoutLast, Zenon DEF AllButLast
  <2>4. Len(output) < Len(input) /\ Len(output) + 1 = Len(input)
    BY <1>4, <2>3
  <2>5. output' = Append(output, input[Len(output) + 1])
    BY <2>1, <2>3, <2>4, Zenon
  <2>6. in[1] = input /\ out[1] = output
    BY Zenon
  <2> DEFINE e == input[Len(output) + 1]
  <2>7. in[1][Len(out[1]) + 1] = e /\ output' = Append(output, e)
    BY <2>5, <2>6, Zenon
  <2> HIDE DEF e
  <2>8. [c \in {1} |-> output'] = [out EXCEPT ![1] = Append(@, e)]
    BY <2>7, Zenon
  <2>9. [c \in {1} |-> input'] = in
    BY <2>1, Zenon
  <2>10. Channel!Deliver(1)
    BY <1>3, <2>4, <2>6, <2>7, <2>8, <2>9, Zenon DEF Channel!Deliver
  <2> QED
    BY <2>10, Zenon DEF Channel!Next
<1>7. CASE UNCHANGED <<input, output>>
  BY <1>3, <1>7, Zenon DEF Channel!vars
<1>8. UNCHANGED <<input, output>> \/ RecordReceived \/ \E size \in 1..MaxRecord : Send(size)
  BY Zenon DEF Next, Sender, Receiver, Close, Reset, SendFails, SendReturns, SendBytes, Peek, ReceiveFails,
               ReceiveEnds, HeaderReceived, FragmentReceived, ReceiveBytes
<1> QED
  BY <1>5, <1>6, <1>7, <1>8, Zenon DEF Channel!Next

\* The safety part of ImplementsChannel over TCP: what the two ends do is a step of the
\* channel or leaves it alone, until the sender ends or the connection is reset.
THEOREM TcpChannel == Spec => Channel!Init /\ [][Channel!Next]_(Channel!vars)
<1>1. Init => Channel!Init
  BY Zenon DEF Init, Channel!Init
<1>2. TcpInv /\ [Next]_vars => [Channel!Next]_(Channel!vars)
  <2> SUFFICES ASSUME TcpInv, [Next]_vars PROVE [Channel!Next]_(Channel!vars)
    BY Zenon
  <2>1. CASE UNCHANGED vars
    BY <2>1, Zenon DEF vars, Channel!vars
  <2>2. CASE Next /\ (closed' \/ reset')
    <3> DEFINE b == [c \in {1} |-> closed \/ reset]
    <3>1. [c \in {1} |-> closed' \/ reset'] = [c \in {1} |-> TRUE]
      BY <2>2, Zenon
    <3>2. [c \in {1} |-> TRUE] \in [{1} -> BOOLEAN] /\ \A c \in {1} : [k \in {1} |-> TRUE][c] = TRUE
      BY Zenon
    <3>3. Channel!Break
      BY <3>1, <3>2, Zenon DEF Channel!Break
    <3> QED
      BY <3>3, Zenon DEF Channel!Next
  <2>3. CASE Next /\ ~closed' /\ ~reset'
    <3>1. ~reset
      BY <2>3, Zenon DEF Next, Sender, Receiver, Close, Reset, Send, SendFails, SendReturns, SendBytes, Peek,
                         ReceiveFails, ReceiveEnds, HeaderReceived, FragmentReceived, RecordReceived, ReceiveBytes
    <3> QED
      BY <2>3, <3>1, TcpChannelStep, Zenon DEF TcpInv
  <2> QED
    BY <2>1, <2>2, <2>3, Zenon
<1>3. Spec => []TcpInv
  BY TcpInit, TcpStep, PTL DEF Spec
<1> QED
  BY <1>1, <1>2, <1>3, PTL DEF Spec
=============================================================================
