-------------------------- MODULE QuicRecordProofs --------------------------
(***************************************************************************)
(* For any streams, connections and sizes: a stream has a receiving context*)
(* exactly while a record on it has been received in part, and the promises*)
(* of RecordChannel are kept.                                              *)
(***************************************************************************)
EXTENDS QuicRecord, RecordMarkingProofs

\* For each of 1..n a function on S.
Maps(S, n) == [1..n -> [S -> S]]

\* f starts with 'first', and 'next' takes every value to the one that follows.
Iterates(f, S, first, n, next) ==
    f \in [0..n -> S] /\ f[0] = first /\ \A k \in 1..n : f[k] = next[k][f[k - 1]]

\* A value for every number up to n can be defined from the value before it.
LEMMA Recursion ==
    ASSUME NEW S, NEW first \in S, NEW n \in Nat, NEW next \in Maps(S, n)
    PROVE  \E f : Iterates(f, S, first, n, next)
<1> DEFINE Is(f, m) == f = [k \in 0..m |-> IF k = 0 THEN first ELSE next[k][f[k - 1]]]
           without == {m \in 0..n : \A f \in [0..m -> S] : ~Is(f, m)}
<1>1. SUFFICES ASSUME without # {} PROVE FALSE
  <2>1. n \in 0..n /\ 0 \in 0..n /\ \A k \in 1..n : k \in 0..n /\ k # 0
    OBVIOUS
  <2>2. SUFFICES without = {} => \E f : Iterates(f, S, first, n, next)
    BY Zenon
  <2>3. HAVE without = {}
  <2>4. PICK f \in [0..n -> S] : Is(f, n)
    BY <2>1, <2>3, Zenon
  <2> QED
    BY <2>1, <2>4, Zenon DEF Iterates
<1>2. PICK m \in without : \A k \in without : m <= k
  <2>1. 0..n \subseteq Nat
    OBVIOUS
  <2>2. without \in SUBSET Nat
    BY <2>1, Zenon DEF without
  <2> HIDE DEF without
  <2> QED
    BY <1>1, <2>2, LeastElement, Zenon
<1>3. m # 0
  <2> SUFFICES ASSUME m = 0 PROVE FALSE
    BY Zenon
  <2> DEFINE f == [k \in 0..0 |-> first]
  <2>1. f \in [0..0 -> S] /\ Is(f, 0)
    OBVIOUS
  <2> QED
    BY <2>1, Zenon
<1>4. m \in 0..n /\ m - 1 \in 0..n /\ ~(m <= m - 1)
  BY <1>3
<1>5. PICK g \in [0..(m - 1) -> S] : Is(g, m - 1)
  <2>1. m - 1 \notin without
    BY <1>2, <1>4, Zenon
  <2> HIDE DEF Is
  <2> QED
    BY <1>4, <2>1, Zenon
<1> DEFINE f == [k \in 0..m |-> IF k = 0 THEN first ELSE next[k][g[k - 1]]]
<1>6. \A k \in 0..m : k # 0 => k - 1 \in 0..(m - 1) /\ k - 1 \in 0..m /\ k \in 1..n
  BY <1>4
<1>7. \A k \in 0..m : k # 0 => f[k - 1] = g[k - 1]
  BY <1>5, <1>6, Zenon
<1>8. Is(f, m)
  <2>1. \A k \in 0..m : f[k] = IF k = 0 THEN first ELSE next[k][f[k - 1]]
    BY <1>7, Zenon
  <2>2. f = [k \in 0..m |-> f[k]]
    BY Zenon
  <2> HIDE DEF f
  <2> QED
    BY <2>1, <2>2, Zenon
<1>9. f \in [0..m -> S]
  <2>1. \A k \in 0..m : (IF k = 0 THEN first ELSE next[k][g[k - 1]]) \in S
    <3> SUFFICES ASSUME NEW k \in 0..m, k # 0 PROVE next[k][g[k - 1]] \in S
      BY Zenon
    <3>1. g[k - 1] \in S /\ k \in 1..n
      BY <1>6, Zenon
    <3>2. next[k] \in [S -> S]
      BY <3>1, Zenon DEF Maps
    <3> QED
      BY <3>1, <3>2, Zenon
  <2> QED
    BY <2>1, Zenon
<1> QED
  BY <1>2, <1>8, <1>9, Zenon

-----------------------------------------------------------------------------
Context == [stream : Stream, header : Seq(Byte), payload : Seq(Byte), payloads : Seq(Byte), full : BOOLEAN,
            surplus : BOOLEAN]

\* A context that has received a part of the record, 'rest' being what it has not received.
Partial(c, record, rest) ==
    LET r == Len(c.payloads)
    IN  /\ ~c.full /\ ~c.surplus
        /\ r \in 0..(Len(record) - 1) /\ c.payloads = SubSeq(record, 1, r)
        /\ \/ Len(c.header) < HeaderSize /\ c.payload = <<>> /\ c.header \o rest = Framed(record, r)
           \/ /\ c.header = HeaderBytes(FragmentHeader(record, r)) /\ Len(c.payload) < FragmentSize(record, r)
              /\ c.payload \o rest = FragmentData(record, r) \o Framed(record, r + FragmentSize(record, r))

\* A context that has received the record.
Complete(c, record) == c.full /\ ~c.surplus /\ c.payloads = record

\* A byte leaves a context a context of the stream.
LEMMA TakeByteType ==
    ASSUME NEW c \in Context, NEW b \in Byte
    PROVE  TakeByte(c, b) \in Context /\ TakeByte(c, b).stream = c.stream
<1> DEFINE p == Append(c.payload, b)
           g == Append(c.header, b)
           h == HeaderOf(c.header)
           l == IsLastFragment(h)
           q == c.payloads \o p
<1>1. p \in Seq(Byte) /\ g \in Seq(Byte) /\ q \in Seq(Byte) /\ <<b>> \in Seq(Byte) /\ <<>> \in Seq(Byte)
  <2>1. c.payload \in Seq(Byte) /\ c.header \in Seq(Byte) /\ c.payloads \in Seq(Byte)
    BY Zenon DEF Context
  <2>2. p \in Seq(Byte) /\ g \in Seq(Byte) /\ <<b>> \in Seq(Byte) /\ <<>> \in Seq(Byte)
    BY <2>1
  <2> HIDE DEF p, g
  <2> QED
    BY <2>1, <2>2, Joined, Zenon
<1>2. l \in BOOLEAN
  BY DEF IsLastFragment
<1> HIDE DEF p, g, l, q
<1>3. [c EXCEPT !.header = g] \in Context /\ [c EXCEPT !.header = g].stream = c.stream
  BY <1>1, Zenon DEF Context
<1>4. [c EXCEPT !.full = TRUE, !.surplus = TRUE] \in Context
      /\ [c EXCEPT !.full = TRUE, !.surplus = TRUE].stream = c.stream
  BY Zenon DEF Context
<1>5. [c EXCEPT !.header = <<b>>] \in Context /\ [c EXCEPT !.header = <<b>>].stream = c.stream
  BY <1>1, Zenon DEF Context
<1>6. [c EXCEPT !.payload = p] \in Context /\ [c EXCEPT !.payload = p].stream = c.stream
  BY <1>1, Zenon DEF Context
<1>7. [c EXCEPT !.payloads = q, !.full = l, !.payload = <<>>, !.header = <<>>] \in Context
      /\ [c EXCEPT !.payloads = q, !.full = l, !.payload = <<>>, !.header = <<>>].stream = c.stream
  BY <1>1, <1>2, Zenon DEF Context
<1>8. \/ TakeByte(c, b) = [c EXCEPT !.header = g]
      \/ TakeByte(c, b) = [c EXCEPT !.full = TRUE, !.surplus = TRUE]
      \/ TakeByte(c, b) = [c EXCEPT !.header = <<b>>]
      \/ TakeByte(c, b) = [c EXCEPT !.payload = p]
      \/ TakeByte(c, b) = [c EXCEPT !.payloads = q, !.full = l, !.payload = <<>>, !.header = <<>>]
  <2>1. CASE Len(c.header) < HeaderSize
    <3>1. ~(Len(c.header) = HeaderSize /\ SizeInHeader(HeaderOf(c.header)) = 0)
      BY <2>1, RecordMarkingAssumption
    <3> QED
      BY <2>1, <3>1, Zenon DEF TakeByte, g
  <2>2. CASE ~(Len(c.header) < HeaderSize) /\ Len(c.header) = HeaderSize /\ SizeInHeader(h) = 0
    BY <2>2, Zenon DEF TakeByte
  <2>3. CASE ~(Len(c.header) < HeaderSize) /\ ~(Len(c.header) = HeaderSize /\ SizeInHeader(h) = 0)
    BY <2>3, Zenon DEF TakeByte, p, l, q
  <2> QED
    BY <2>1, <2>2, <2>3, Zenon
<1> QED
  BY <1>3, <1>4, <1>5, <1>6, <1>7, <1>8, Zenon

\* The byte belongs to the header, or to the payload of the fragment.
LEMMA TakeByteIs ==
    ASSUME NEW c \in Context, NEW b \in Byte, Len(c.header) <= HeaderSize
    PROVE  /\ Len(c.header) < HeaderSize => TakeByte(c, b) = [c EXCEPT !.header = Append(c.header, b)]
           /\ Len(c.header) = HeaderSize /\ SizeInHeader(HeaderOf(c.header)) # 0 =>
                TakeByte(c, b)
                  = IF Len(Append(c.payload, b)) < SizeInHeader(HeaderOf(c.header))
                    THEN [c EXCEPT !.payload = Append(c.payload, b)]
                    ELSE [c EXCEPT !.payloads = c.payloads \o Append(c.payload, b),
                                   !.full = IsLastFragment(HeaderOf(c.header)), !.payload = <<>>, !.header = <<>>]
<1>1. ASSUME Len(c.header) < HeaderSize
      PROVE  TakeByte(c, b) = [c EXCEPT !.header = Append(c.header, b)]
  <2>1. ~(Len(c.header) = HeaderSize /\ SizeInHeader(HeaderOf(c.header)) = 0)
    BY <1>1, RecordMarkingAssumption
  <2> QED
    BY <1>1, <2>1, Zenon DEF TakeByte
<1>2. ASSUME Len(c.header) = HeaderSize, SizeInHeader(HeaderOf(c.header)) # 0
      PROVE  TakeByte(c, b)
               = IF Len(Append(c.payload, b)) < SizeInHeader(HeaderOf(c.header))
                 THEN [c EXCEPT !.payload = Append(c.payload, b)]
                 ELSE [c EXCEPT !.payloads = c.payloads \o Append(c.payload, b),
                                !.full = IsLastFragment(HeaderOf(c.header)), !.payload = <<>>, !.header = <<>>]
  <2>1. ~(Len(c.header) < HeaderSize)
    BY <1>2, RecordMarkingAssumption
  <2> QED
    BY <1>2, <2>1, Zenon DEF TakeByte
<1> QED
  BY <1>1, <1>2, Zenon

\* The next byte of a record.
LEMMA NextByte ==
    ASSUME NEW s \in Seq(Byte), s # <<>>
    PROVE  /\ s[1] \in Byte /\ SubSeq(s, 2, Len(s)) \in Seq(Byte) /\ Len(s) \in Nat /\ Len(s) >= 1
           /\ Len(SubSeq(s, 2, Len(s))) = Len(s) - 1
           /\ \A t \in Seq(Byte) : /\ t \o s = Append(t, s[1]) \o SubSeq(s, 2, Len(s))
                                   /\ Append(t, s[1]) \in Seq(Byte) /\ Len(Append(t, s[1])) = Len(t) + 1
<1> DEFINE x == <<s[1]>>
           y == SubSeq(s, 2, Len(s))
<1>1. Len(s) \in Nat /\ Len(s) >= 1 /\ s[1] \in Byte /\ x \in Seq(Byte) /\ 1 \in 0..Len(s)
  BY EmptySequence, ElementOf
<1>2. SubSeq(s, 1, 1) = x
  <2>1. SubSeq(s, 1, 1) \in Seq(Byte) /\ Len(SubSeq(s, 1, 1)) = 1
    BY <1>1, Cut, Zenon
  <2>2. SubSeq(s, 1, 1)[1] = s[1] /\ Len(x) = 1 /\ x[1] = s[1]
    BY <1>1
  <2>3. \A i \in 1..1 : i = 1
    OBVIOUS
  <2> HIDE DEF x
  <2>4. \A i \in 1..Len(x) : SubSeq(s, 1, 1)[i] = x[i]
    BY <2>2, <2>3, Zenon
  <2> QED
    BY <1>1, <2>1, <2>2, <2>4, SameElements, Zenon
<1>3. y \in Seq(Byte) /\ Len(y) = Len(s) - 1 /\ x \o y = s
  <2>1. 1 + 1 = 2
    OBVIOUS
  <2> QED
    BY <1>1, <1>2, <2>1, Cut, Zenon
<1> HIDE DEF y
<1>4. ASSUME NEW t \in Seq(Byte)
      PROVE  t \o s = Append(t, s[1]) \o y /\ Append(t, s[1]) \in Seq(Byte) /\ Len(Append(t, s[1])) = Len(t) + 1
  <2>1. Append(t, s[1]) = t \o x
    BY <1>1, AppendJoins, Zenon
  <2>2. Append(t, s[1]) \in Seq(Byte) /\ Len(Append(t, s[1])) = Len(t) + 1
    BY <1>1, AppendIs, Zenon
  <2> HIDE DEF x
  <2>3. (t \o x) \o y = t \o (x \o y)
    BY <1>1, <1>3, Regroup, Zenon
  <2> QED
    BY <1>3, <2>1, <2>2, <2>3, Zenon
<1> QED
  BY <1>1, <1>3, <1>4, Zenon DEF y

\* A byte takes a context that has a part of the record to one that has more of it, and
\* the last byte to one that has the record.
LEMMA TakeByteStep ==
    ASSUME NEW record \in Seq(Byte), NEW c \in Context, NEW rest \in Seq(Byte), Partial(c, record, rest)
    PROVE  /\ rest # <<>>
           /\ IF Len(rest) = 1 THEN Complete(TakeByte(c, rest[1]), record)
              ELSE Partial(TakeByte(c, rest[1]), record, SubSeq(rest, 2, Len(rest)))
<1> DEFINE r == Len(c.payloads)
           g == FragmentHeader(record, r)
           h == HeaderBytes(g)
           d == FragmentData(record, r)
           size == FragmentSize(record, r)
           n == r + size
           f == Framed(record, n)
           b == rest[1]
           tail == SubSeq(rest, 2, Len(rest))
           new == TakeByte(c, b)
<1>1. ~c.full /\ ~c.surplus /\ r \in 0..(Len(record) - 1) /\ c.payloads = SubSeq(record, 1, r)
  BY Zenon DEF Partial
<1>2. /\ c.header \in Seq(Byte) /\ c.payload \in Seq(Byte) /\ c.payloads \in Seq(Byte)
      /\ Len(c.header) \in Nat /\ Len(c.payload) \in Nat /\ Len(record) \in Nat /\ r \in Nat
  BY DEF Context
<1>3. /\ size \in 1..MaxFragment /\ n \in (r + 1)..Len(record)
      /\ IsLastFragment(g) <=> n = Len(record)
      /\ SizeInHeader(g) = size
  BY <1>1, FragmentIs, Zenon
<1>4. size \in Nat /\ size > 0 /\ n \in 0..Len(record) /\ HeaderSize \in Nat /\ HeaderSize > 0
  BY <1>1, <1>2, <1>3, RecordMarkingAssumption
<1>5. /\ h \in Seq(Byte) /\ Len(h) = HeaderSize /\ HeaderOf(h) = g /\ d \in Seq(Byte) /\ Len(d) = size
      /\ SubSeq(record, 1, r) \o d = SubSeq(record, 1, n)
  BY <1>1, FragmentBytes, Zenon
<1>6. /\ f \in Seq(Byte) /\ Framed(record, Len(record)) = <<>>
      /\ Framed(record, r) = (h \o d) \o f
  BY <1>1, <1>4, FramedUnfolds, Zenon
<1>7. Framed(record, r) = h \o (d \o f) /\ d \o f \in Seq(Byte) /\ Len(d \o f) = size + Len(f) /\ Len(f) \in Nat
      /\ Len(h \o (d \o f)) = HeaderSize + (size + Len(f))
  <2> HIDE DEF h, d, f
  <2>1. (h \o d) \o f = h \o (d \o f)
    BY <1>5, <1>6, Regroup, Zenon
  <2>2. d \o f \in Seq(Byte) /\ Len(d \o f) = size + Len(f) /\ Len(f) \in Nat
    <3>1. d \o f \in Seq(Byte) /\ Len(d \o f) = Len(d) + Len(f)
      BY <1>5, <1>6, Joined, Zenon
    <3>2. Len(f) \in Nat
      BY <1>6, Joined, Zenon
    <3> QED
      BY <1>5, <3>1, <3>2, Zenon
  <2>3. Len(h \o (d \o f)) = HeaderSize + (size + Len(f))
    <3>1. Len(h \o (d \o f)) = Len(h) + Len(d \o f)
      BY <1>5, <2>2, Joined, Zenon
    <3> QED
      BY <1>5, <2>2, <3>1, Zenon
  <2> QED
    BY <1>6, <2>1, <2>2, <2>3, Zenon
<1>8. \/ Len(c.header) < HeaderSize /\ c.payload = <<>> /\ c.header \o rest = h \o (d \o f)
      \/ c.header = h /\ Len(c.payload) < size /\ c.payload \o rest = d \o f
  BY <1>7, Zenon DEF Partial
<1> HIDE DEF r, g, h, d, size, n, f
<1>9. rest # <<>>
  <2>1. Len(c.header \o rest) = Len(c.header) + Len(rest) /\ Len(c.payload \o rest) = Len(c.payload) + Len(rest)
        /\ Len(rest) \in Nat /\ Len(<<>>) = 0
    BY <1>2, Joined, Zenon
  <2>2. CASE Len(c.header) < HeaderSize /\ c.header \o rest = h \o (d \o f)
    <3>1. Len(c.header) + Len(rest) = HeaderSize + (size + Len(f)) /\ Len(f) \in Nat
      BY <1>7, <2>1, <2>2, Zenon
    <3>2. Len(c.header) \in Nat /\ size \in Nat
      BY <1>2, <1>4, Joined, Zenon
    <3>3. Len(rest) # 0
      BY <1>4, <2>1, <2>2, <3>1, <3>2
    <3> QED
      BY <2>1, <3>3, Zenon
  <2>3. CASE Len(c.payload) < size /\ c.payload \o rest = d \o f
    <3>1. Len(c.payload) + Len(rest) = size + Len(f) /\ Len(f) \in Nat
      BY <1>7, <2>1, <2>3, Zenon
    <3>2. Len(c.payload) \in Nat /\ size \in Nat
      BY <1>2, <1>4, Joined, Zenon
    <3>3. Len(rest) # 0
      BY <2>1, <2>3, <3>1, <3>2
    <3> QED
      BY <2>1, <3>3, Zenon
  <2> QED
    BY <1>8, <2>2, <2>3, Zenon
<1>10. /\ b \in Byte /\ tail \in Seq(Byte) /\ Len(rest) \in Nat /\ Len(rest) >= 1 /\ Len(tail) = Len(rest) - 1
       /\ \A t \in Seq(Byte) : t \o rest = Append(t, b) \o tail /\ Append(t, b) \in Seq(Byte)
                               /\ Len(Append(t, b)) = Len(t) + 1
  BY <1>9, NextByte, Zenon
<1> HIDE DEF b, tail
<1>11. CASE Len(c.header) < HeaderSize /\ c.payload = <<>> /\ c.header \o rest = h \o (d \o f)
  <2> DEFINE e == Append(c.header, b)
  <2>1. e \in Seq(Byte) /\ Len(e) = Len(c.header) + 1 /\ e \o tail = h \o (d \o f)
    BY <1>2, <1>10, <1>11, Zenon
  <2>2. new = [c EXCEPT !.header = e]
    <3>1. Len(c.header) <= HeaderSize
      BY <1>2, <1>4, <1>11
    <3> QED
      BY <1>10, <1>11, <3>1, TakeByteIs, Zenon
  <2> HIDE DEF e, new
  <2>3. new.full = c.full /\ new.surplus = c.surplus /\ new.payloads = c.payloads /\ new.payload = <<>> /\ new.header = e
    <3>1. new.full = c.full /\ new.surplus = c.surplus /\ new.payloads = c.payloads /\ new.payload = c.payload
          /\ new.header = e
      BY <2>2, Zenon DEF Context
    <3> QED
      BY <1>11, <3>1, Zenon
  <2>4. Len(rest) # 1
    <3>1. Len(e \o tail) = Len(e) + Len(tail)
      BY <1>10, <2>1, Joined, Zenon
    <3>2. Len(e) + Len(tail) = HeaderSize + (size + Len(f))
      BY <1>7, <2>1, <3>1, Zenon
    <3>3. Len(c.header) < HeaderSize /\ Len(e) = Len(c.header) + 1 /\ Len(tail) = Len(rest) - 1 /\ Len(rest) \in Nat
          /\ Len(f) \in Nat
      BY <1>7, <1>10, <1>11, <2>1, Zenon
    <3>4. \A x, y, z, v, w \in Nat : v < x /\ y > 0 /\ (v + 1) + (w - 1) = x + (y + z) => w # 1
      OBVIOUS
    <3> QED
      BY <1>2, <1>4, <3>2, <3>3, <3>4, Zenon
  <2>5. ASSUME Len(e) < HeaderSize PROVE Partial(new, record, tail)
    BY <1>1, <1>7, <2>1, <2>3, <2>5, Zenon DEF Partial, r
  <2>6. ASSUME ~(Len(e) < HeaderSize) PROVE Partial(new, record, tail)
    <3>1. Len(e) = Len(h)
      BY <1>2, <1>4, <1>5, <1>11, <2>1, <2>6
    <3>2. e = h /\ tail = d \o f
      <4>1. e \in Seq(Byte) /\ tail \in Seq(Byte) /\ h \in Seq(Byte) /\ d \o f \in Seq(Byte)
            /\ e \o tail = h \o (d \o f)
        BY <1>5, <1>7, <1>10, <2>1, Zenon
      <4> DEFINE z == d \o f
      <4>2. z \in Seq(Byte) /\ e \o tail = h \o z
        BY <4>1, Zenon
      <4> HIDE DEF z
      <4>3. e = h /\ tail = z
        BY <3>1, <4>1, <4>2, SamePrefix, Zenon
      <4> QED
        BY <4>3, Zenon DEF z
    <3>3. Len(<<>>) < size /\ <<>> \o tail = tail
      <4>1. Len(<<>>) < size
        BY <1>4, Zenon
      <4> QED
        BY <1>10, <4>1, Joined, Zenon
    <3> QED
      BY <1>1, <2>3, <3>2, <3>3, Zenon DEF Partial, r, h, g, d, f, n, size
  <2>7. Partial(new, record, tail)
    BY <2>5, <2>6, Zenon
  <2> QED
    BY <1>9, <2>4, <2>7, Zenon DEF new, tail, b
<1>12. CASE c.header = h /\ Len(c.payload) < size /\ c.payload \o rest = d \o f
  <2> DEFINE p == Append(c.payload, b)
             last == IsLastFragment(g)
             q == c.payloads \o p
  <2>1. p \in Seq(Byte) /\ Len(p) = Len(c.payload) + 1 /\ p \o tail = d \o f
    BY <1>2, <1>10, <1>12, Zenon
  <2>2. new = IF Len(p) < size THEN [c EXCEPT !.payload = p]
              ELSE [c EXCEPT !.payloads = q, !.full = last, !.payload = <<>>, !.header = <<>>]
    <3>1. Len(c.header) = HeaderSize /\ Len(c.header) <= HeaderSize /\ size # 0
      BY <1>4, <1>5, <1>12
    <3>2. HeaderOf(c.header) = g /\ SizeInHeader(g) = size
      BY <1>3, <1>5, <1>12, Zenon
    <3> QED
      BY <1>10, <3>1, <3>2, TakeByteIs, Zenon
  <2>3. CASE Len(p) < size
    <3>1. new = [c EXCEPT !.payload = p]
      BY <2>2, <2>3, Zenon
    <3> HIDE DEF new, p
    <3>2. new.full = c.full /\ new.surplus = c.surplus /\ new.payloads = c.payloads /\ new.payload = p
          /\ new.header = c.header
      BY <3>1, Zenon DEF Context
    <3>3. Len(rest) # 1
      <4>1. Len(p \o tail) = Len(p) + Len(tail)
        BY <1>10, <2>1, Joined, Zenon
      <4>2. Len(p) + Len(tail) = size + Len(f) /\ Len(tail) = Len(rest) - 1 /\ Len(p) = Len(c.payload) + 1
            /\ Len(f) \in Nat /\ Len(rest) \in Nat
        BY <1>7, <1>10, <2>1, <4>1, Zenon
      <4>3. \A y, z, v, w \in Nat : v + 1 < y /\ (v + 1) + (w - 1) = y + z => w # 1
        OBVIOUS
      <4>4. Len(c.payload) + 1 < size
        BY <2>3, <4>2, Zenon
      <4> QED
        BY <1>2, <1>4, <4>2, <4>3, <4>4, Zenon
    <3>4. Partial(new, record, tail)
      BY <1>1, <1>12, <2>1, <2>3, <3>2, Zenon DEF Partial, r, h, g, d, f, n, size
    <3> QED
      BY <1>9, <3>3, <3>4, Zenon DEF new, tail, b
  <2>4. CASE ~(Len(p) < size)
    <3>1. new = [c EXCEPT !.payloads = q, !.full = last, !.payload = <<>>, !.header = <<>>]
      BY <2>2, <2>4, Zenon
    <3>2. Len(p) = Len(d)
      <4>1. Len(p) = Len(c.payload) + 1 /\ Len(c.payload) < size /\ Len(d) = size
        BY <1>5, <1>12, <2>1, Zenon
      <4> HIDE DEF p
      <4> QED
        BY <1>2, <1>4, <2>4, <4>1
    <3>3. p = d /\ tail = f
      <4>1. p \in Seq(Byte) /\ tail \in Seq(Byte) /\ d \in Seq(Byte) /\ f \in Seq(Byte) /\ p \o tail = d \o f
        BY <1>5, <1>6, <1>10, <2>1, Zenon
      <4> HIDE DEF p
      <4> QED
        BY <3>2, <4>1, SamePrefix, Zenon
    <3>4. q = SubSeq(record, 1, n)
      BY <1>1, <1>5, <3>3, Zenon
    <3>5. Len(q) = n
      BY <1>4, <3>4, Cut, Zenon
    <3>6. last <=> n = Len(record)
      BY <1>3, Zenon
    <3> HIDE DEF new, q, last
    <3>7. new.full = last /\ new.surplus = c.surplus /\ new.payloads = q /\ new.payload = <<>> /\ new.header = <<>>
      BY <3>1, Zenon DEF Context
    <3>8. CASE n = Len(record)
      <4>1. q = record
        BY <3>4, <3>8, WholePart, Zenon
      <4>2. tail = <<>>
        BY <1>6, <3>3, <3>8, Zenon DEF f
      <4>3. Len(rest) = 1
        BY <1>10, <4>2
      <4>4. Complete(new, record)
        BY <1>1, <3>6, <3>7, <3>8, <4>1, Zenon DEF Complete
      <4> QED
        BY <1>9, <4>3, <4>4, Zenon DEF new, b
    <3>9. CASE n # Len(record)
      <4>1. n \in 0..(Len(record) - 1)
        BY <1>2, <1>4, <3>9
      <4>2. Len(<<>>) < HeaderSize
        BY <1>4, Zenon
      <4>3. <<>> \o tail = tail
        BY <1>10, Joined, Zenon
      <4>4. Partial(new, record, tail)
        <5>1. Len(new.payloads) = n /\ new.payloads = SubSeq(record, 1, Len(new.payloads))
          BY <3>4, <3>5, <3>7, Zenon
        <5>2. ~new.full /\ ~new.surplus
          BY <1>1, <3>6, <3>7, <3>9, Zenon
        <5>3. new.header \o tail = Framed(record, Len(new.payloads))
          BY <3>3, <3>7, <4>3, <5>1, Zenon DEF f
        <5> QED
          BY <3>7, <4>1, <4>2, <5>1, <5>2, <5>3, Zenon DEF Partial
      <4>5. Len(rest) # 1
        <5> SUFFICES ASSUME Len(rest) = 1 PROVE FALSE
          BY Zenon
        <5>1. Len(tail) = 0
          BY <1>10
        <5>2. Len(HeaderBytes(FragmentHeader(record, n))) = HeaderSize /\ FragmentData(record, n) \in Seq(Byte)
              /\ HeaderBytes(FragmentHeader(record, n)) \in Seq(Byte)
          BY <4>1, FragmentBytes, Zenon
        <5> DEFINE m == n + FragmentSize(record, n)
                   h2 == HeaderBytes(FragmentHeader(record, n))
                   d2 == FragmentData(record, n)
        <5>3. m \in 0..Len(record)
          <6>1. m \in (n + 1)..Len(record)
            BY <4>1, FragmentIs, Zenon
          <6> QED
            BY <1>2, <4>1, <6>1
        <5>4. f = (h2 \o d2) \o Framed(record, m) /\ Framed(record, m) \in Seq(Byte)
          BY <4>1, <5>3, FramedUnfolds, Zenon DEF f
        <5> HIDE DEF h2, d2, m
        <5>5. h2 \o d2 \in Seq(Byte) /\ Len(h2 \o d2) = HeaderSize + Len(d2) /\ Len(d2) \in Nat
          BY <5>2, Joined, Zenon DEF h2, d2
        <5>6. Len(f) = Len(h2 \o d2) + Len(Framed(record, m)) /\ Len(Framed(record, m)) \in Nat
          BY <5>4, <5>5, Joined, Zenon
        <5>7. Len(f) # 0
          BY <1>4, <5>5, <5>6
        <5> QED
          BY <3>3, <5>1, <5>7, Zenon
      <4> QED
        BY <1>9, <4>4, <4>5, Zenon DEF new, tail, b
    <3> QED
      BY <3>8, <3>9, Zenon
  <2> QED
    BY <2>3, <2>4, Zenon
<1> QED
  BY <1>8, <1>11, <1>12, Zenon

\* The contexts that the bytes lead to, one after the other.
Trace(f, c, bytes) ==
    /\ f \in [0..Len(bytes) -> {x \in Context : x.stream = c.stream}]
    /\ f[0] = c
    /\ \A k \in 1..Len(bytes) : f[k] = IF f[k - 1].full THEN [f[k - 1] EXCEPT !.surplus = TRUE]
                                       ELSE TakeByte(f[k - 1], bytes[k])
    /\ TakeBytes(c, bytes) = f[Len(bytes)]

\* The contexts between the bytes of one read.
LEMMA TakeBytesIs ==
    ASSUME NEW c \in Context, NEW bytes \in Seq(Byte)
    PROVE  \E f : Trace(f, c, bytes)
<1> DEFINE n == Len(bytes)
           S == {x \in Context : x.stream = c.stream}
           E(x, k) == IF x.full THEN [x EXCEPT !.surplus = TRUE] ELSE TakeByte(x, bytes[k])
           next == [k \in 1..n |-> [x \in S |-> E(x, k)]]
           Is(f) == f = [k \in 0..n |-> IF k = 0 THEN c ELSE E(f[k - 1], k)]
           after == CHOOSE f : Is(f)
<1>1. n \in Nat /\ c \in S
  OBVIOUS
<1>2. \A x \in S, k \in 1..n : E(x, k) \in S
  <2> SUFFICES ASSUME NEW x \in S, NEW k \in 1..n PROVE E(x, k) \in S
    BY Zenon
  <2>1. bytes[k] \in Byte
    BY ElementOf, Zenon
  <2>2. TakeByte(x, bytes[k]) \in S
    BY <2>1, TakeByteType, Zenon
  <2>3. [x EXCEPT !.surplus = TRUE] \in S
    <3>1. x \in Context /\ x.stream = c.stream
      BY Zenon
    <3>2. [x EXCEPT !.surplus = TRUE] \in Context /\ [x EXCEPT !.surplus = TRUE].stream = x.stream
      BY <3>1, Zenon DEF Context
    <3> QED
      BY <3>1, <3>2, Zenon
  <2> QED
    BY <2>2, <2>3, Zenon
<1> HIDE DEF E, S, n
<1>3. next \in Maps(S, n)
  BY <1>2, Zenon DEF Maps
<1> HIDE DEF next
<1>4. PICK f \in [0..n -> S] : f[0] = c /\ \A k \in 1..n : f[k] = next[k][f[k - 1]]
  <2>1. \E f : Iterates(f, S, c, n, next)
    BY <1>1, <1>3, Recursion, Zenon
  <2> QED
    BY <2>1, Zenon DEF Iterates
<1>5. \A k \in 0..n : k # 0 => k \in 1..n /\ k - 1 \in 0..n /\ ~(k <= k - 1)
  BY <1>1
<1>6. f[0] = c /\ \A k \in 1..n : f[k] = E(f[k - 1], k)
  <2>1. 0 \in 0..n /\ \A k \in 1..n : k # 0 /\ k \in 0..n
    BY <1>1
  <2>2. f[0] = c
    BY <1>4, <2>1, Zenon
  <2>3. ASSUME NEW k \in 1..n PROVE f[k] = E(f[k - 1], k)
    <3>1. f[k] = next[k][f[k - 1]]
      BY <1>4, <2>1, Zenon
    <3>2. f[k - 1] \in S
      BY <1>5, <2>1, Zenon
    <3>3. next[k] = [x \in S |-> E(x, k)]
      BY Zenon DEF next
    <3> QED
      BY <3>1, <3>2, <3>3, Zenon
  <2> QED
    BY <2>2, <2>3, Zenon
<1>7. Is(f)
  <2>1. \A k \in 0..n : f[k] = IF k = 0 THEN c ELSE E(f[k - 1], k)
    BY <1>5, <1>6, Zenon
  <2>2. f = [k \in 0..n |-> f[k]]
    BY Zenon
  <2> QED
    BY <2>1, <2>2, Zenon
<1>8. Is(after)
  <2>1. \E g : Is(g)
    BY <1>7, Zenon
  <2> QED
    BY <2>1, Zenon
<1>9. \A k \in 0..n : after[k] = IF k = 0 THEN c ELSE E(after[k - 1], k)
  BY <1>8, Zenon
<1>10. TakeBytes(c, bytes) = after[n]
  BY Zenon DEF TakeBytes, after, E, n
<1> HIDE DEF after, Is
<1>11. \A k \in 0..n : after[k] = f[k]
  <2> DEFINE bad == {k \in 0..n : after[k] # f[k]}
  <2> SUFFICES ASSUME bad # {} PROVE FALSE
    BY Zenon
  <2>1. PICK k \in bad : \A j \in bad : k <= j
    <3>1. 0..n \subseteq Nat
      BY <1>1
    <3>2. bad \in SUBSET Nat
      BY <3>1, Zenon DEF bad
    <3> HIDE DEF bad
    <3> QED
      BY <3>2, LeastElement, Zenon
  <2>2. k \in 0..n /\ after[k] # f[k]
    BY Zenon
  <2>3. k # 0
    BY <1>6, <1>9, <2>2, Zenon
  <2>4. k \in 1..n /\ k - 1 \in 0..n /\ ~(k <= k - 1)
    BY <1>5, <2>2, <2>3, Zenon
  <2>5. after[k - 1] = f[k - 1]
    BY <2>1, <2>4, Zenon
  <2> QED
    BY <1>6, <1>9, <2>2, <2>3, <2>4, <2>5, Zenon
<1>12. TakeBytes(c, bytes) = f[n]
  <2>1. n \in 0..n
    BY <1>1
  <2> QED
    BY <1>10, <1>11, <2>1, Zenon
<1> QED
  BY <1>6, <1>12, Zenon DEF Trace, S, n, E

\* What one read leaves of a context that had a part of the record.
LEMMA TakeBytesStep ==
    ASSUME NEW record \in Seq(Byte), NEW c \in Context, NEW rest \in Seq(Byte), Partial(c, record, rest),
           NEW n \in 1..Len(rest)
    PROVE  IF n = Len(rest) THEN Complete(TakeBytes(c, SubSeq(rest, 1, n)), record)
           ELSE Partial(TakeBytes(c, SubSeq(rest, 1, n)), record, SubSeq(rest, n + 1, Len(rest)))
<1> DEFINE bytes == SubSeq(rest, 1, n)
           P(x, k) == IF k = Len(rest) THEN Complete(x, record)
                      ELSE Partial(x, record, SubSeq(rest, k + 1, Len(rest)))
<1>0. Len(rest) \in Nat /\ n \in 0..Len(rest) /\ n \in Nat
  OBVIOUS
<1>1. bytes \in Seq(Byte) /\ Len(bytes) = n
  BY <1>0, Cut, Zenon
<1>2. \A k \in 1..n : bytes[k] = rest[k]
  BY <1>0
<1> HIDE DEF bytes
<1>3. PICK f \in [0..n -> {x \in Context : x.stream = c.stream}] :
            /\ f[0] = c
            /\ \A k \in 1..n : f[k] = IF f[k - 1].full THEN [f[k - 1] EXCEPT !.surplus = TRUE]
                                      ELSE TakeByte(f[k - 1], bytes[k])
            /\ TakeBytes(c, bytes) = f[n]
  <2>1. PICK f : Trace(f, c, bytes)
    BY <1>1, TakeBytesIs, Zenon
  <2> QED
    BY <1>1, <2>1, Zenon DEF Trace
<1>4. P(f[0], 0)
  <2>1. rest # <<>>
    BY TakeByteStep, Zenon
  <2>2. Len(rest) # 0
    BY <2>1, Joined, Zenon
  <2>3. SubSeq(rest, 0 + 1, Len(rest)) = rest
    <3>1. 0 + 1 = 1
      OBVIOUS
    <3> QED
      BY <3>1, WholePart, Zenon
  <2> QED
    BY <1>3, <2>2, <2>3, Zenon
<1>5. ASSUME NEW k \in 1..n, P(f[k - 1], k - 1) PROVE P(f[k], k)
  <2> DEFINE r == SubSeq(rest, k, Len(rest))
             j == k - 1
  <2>1. j \in 0..n /\ j \in 0..Len(rest) /\ j # Len(rest) /\ j + 1 = k /\ k \in 1..Len(rest)
    BY <1>0
  <2>2. f[j] \in Context
    BY <1>3, <2>1, Zenon
  <2>3. Partial(f[j], record, r)
    <3> HIDE DEF P
    <3>1. Partial(f[j], record, SubSeq(rest, j + 1, Len(rest)))
      <4> HIDE DEF j
      <4>1. P(f[j], j)
        BY <1>5, Zenon DEF j
      <4> QED
        BY <2>1, <4>1, Zenon DEF P
    <3> QED
      BY <2>1, <3>1, Zenon
  <2>4. r \in Seq(Byte) /\ Len(r) = Len(rest) - j
    <3> HIDE DEF j
    <3>1. SubSeq(rest, j + 1, Len(rest)) \in Seq(Byte) /\ Len(SubSeq(rest, j + 1, Len(rest))) = Len(rest) - j
      BY <2>1, Cut, Zenon
    <3> QED
      BY <2>1, <3>1, Zenon
  <2>5. r[1] = rest[k]
    BY <1>0, <2>1
  <2>6. SubSeq(r, 2, Len(r)) = SubSeq(rest, k + 1, Len(rest))
    <3> DEFINE u == SubSeq(rest, k, k)
               v == SubSeq(rest, k + 1, Len(rest))
    <3>1. r # <<>>
      BY <2>3, <2>2, <2>4, TakeByteStep, Zenon
    <3>2. SubSeq(r, 2, Len(r)) \in Seq(Byte) /\ <<>> \o r = Append(<<>>, r[1]) \o SubSeq(r, 2, Len(r))
          /\ Append(<<>>, r[1]) \in Seq(Byte) /\ Len(Append(<<>>, r[1])) = Len(<<>>) + 1
      <4> HIDE DEF r
      <4> QED
        BY <2>4, <3>1, NextByte, Joined, Zenon
    <3>3. u \in Seq(Byte) /\ Len(u) = 1 /\ v \in Seq(Byte) /\ r = u \o v
      <4>1. 1 \in 0..(Len(rest) - j) /\ j + 1 = k /\ k \in 0..Len(rest)
        BY <1>0, <2>1
      <4> HIDE DEF j
      <4>2. /\ SubSeq(rest, j + 1, j + 1) \in Seq(Byte) /\ Len(SubSeq(rest, j + 1, j + 1)) = 1
            /\ SubSeq(rest, j + 1, Len(rest)) = SubSeq(rest, j + 1, j + 1) \o SubSeq(rest, (j + 1) + 1, Len(rest))
        BY <2>1, <4>1, CutRest, Zenon
      <4>3. v \in Seq(Byte)
        BY <4>1, Cut, Zenon
      <4> QED
        BY <4>1, <4>2, <4>3, Zenon
    <3> DEFINE w == Append(<<>>, r[1])
               t == SubSeq(r, 2, Len(r))
    <3>4. w \in Seq(Byte) /\ t \in Seq(Byte) /\ Len(w) = 1
      <4>1. Len(<<>>) + 1 = 1
        OBVIOUS
      <4> QED
        BY <3>2, <4>1, Zenon
    <3>5. w \o t = u \o v
      <4>1. <<>> \o r = r
        BY <2>4, Joined, Zenon
      <4> QED
        BY <3>2, <3>3, <4>1, Zenon
    <3> HIDE DEF u, v, w, t
    <3>6. t = v
      <4>1. Len(w) = Len(u)
        BY <3>3, <3>4, Zenon
      <4> QED
        BY <3>3, <3>4, <3>5, <4>1, SamePrefix, Zenon
    <3> QED
      BY <3>6, Zenon DEF t, v
  <2>7. f[k] = TakeByte(f[j], r[1])
    <3>1. ~f[j].full
      BY <2>3, Zenon DEF Partial
    <3> QED
      BY <1>2, <1>3, <2>5, <3>1, Zenon
  <2>8. IF Len(r) = 1 THEN Complete(f[k], record) ELSE Partial(f[k], record, SubSeq(rest, k + 1, Len(rest)))
    <3> HIDE DEF r, j
    <3>1. IF Len(r) = 1 THEN Complete(TakeByte(f[j], r[1]), record)
          ELSE Partial(TakeByte(f[j], r[1]), record, SubSeq(r, 2, Len(r)))
      BY <2>2, <2>3, <2>4, TakeByteStep, Zenon
    <3> QED
      BY <2>6, <2>7, <3>1, Zenon
  <2>9. Len(r) = 1 <=> k = Len(rest)
    <3>1. Len(r) = Len(rest) - j /\ j = k - 1
      BY <2>4, Zenon
    <3> HIDE DEF r, j
    <3> QED
      BY <1>0, <3>1
  <2> HIDE DEF r
  <2> QED
    BY <2>8, <2>9, Zenon
<1>6. P(f[n], n)
  <2> HIDE DEF P
  <2> DEFINE bad == {k \in 0..n : ~P(f[k], k)}
  <2>1. bad = {}
    <3> SUFFICES ASSUME bad # {} PROVE FALSE
      BY Zenon
    <3>1. PICK k \in bad : \A j \in bad : k <= j
      <4>1. 0..n \subseteq Nat
        OBVIOUS
      <4>2. bad \in SUBSET Nat
        BY <4>1, Zenon DEF bad
      <4> HIDE DEF bad
      <4> QED
        BY <4>2, LeastElement, Zenon
    <3>2. k # 0 /\ k \in 0..n /\ ~P(f[k], k)
      BY <1>4, Zenon
    <3>3. k \in 1..n /\ k - 1 \in 0..n /\ ~(k <= k - 1)
      BY <1>0, <3>2
    <3>4. P(f[k - 1], k - 1)
      BY <3>1, <3>3, Zenon
    <3> QED
      BY <1>5, <3>2, <3>3, <3>4, Zenon
  <2>2. n \in 0..n
    OBVIOUS
  <2> QED
    BY <2>1, <2>2, Zenon
<1> QED
  BY <1>3, <1>6, Zenon DEF bytes

-----------------------------------------------------------------------------
\* The contexts of a stream in a list, and that no stream has two.
On(list, s) == {list[k] : k \in {j \in 1..Len(list) : list[j].stream = s}}

Unique(list) == \A j, k \in 1..Len(list) : list[j].stream = list[k].stream => j = k

\* The contexts of a stream are in the list.
LEMMA OnIs ==
    ASSUME NEW list, NEW s
    PROVE  \A k \in 1..Len(list) : list[k].stream = s => list[k] \in On(list, s)
BY Zenon DEF On

\* get_rm_receiving_context finds the context of the stream.
LEMMA ContextOfIs ==
    ASSUME NEW list \in Seq(Context), Unique(list), NEW s
    PROVE  /\ On(list, s) = {} => ContextOf(list, s) = 0
           /\ \A k \in 1..Len(list) : list[k].stream = s => ContextOf(list, s) = k /\ On(list, s) = {list[k]}
           /\ On(list, s) # {} => /\ ContextOf(list, s) \in 1..Len(list)
                                  /\ list[ContextOf(list, s)].stream = s
                                  /\ On(list, s) = {list[ContextOf(list, s)]}
                                  /\ ContextOf(list, s) # 0
<1>1. Len(list) \in Nat /\ DOMAIN list = 1..Len(list)
  OBVIOUS
<1>2. ASSUME On(list, s) = {} PROVE ContextOf(list, s) = 0
  <2>1. ~\E k \in DOMAIN list : list[k].stream = s
    BY <1>1, <1>2, Zenon DEF On
  <2> QED
    BY <2>1, Zenon DEF ContextOf
<1>3. ASSUME NEW k \in 1..Len(list), list[k].stream = s
      PROVE  ContextOf(list, s) = k /\ On(list, s) = {list[k]}
  <2>1. \A j \in 1..Len(list) : list[j].stream = s => j = k
    BY <1>3, Zenon DEF Unique
  <2>2. On(list, s) = {list[k]}
    BY <1>3, <2>1, Zenon DEF On
  <2>3. \A j \in 1..(k - 1) : j \in 1..Len(list) /\ j # k
    BY <1>1
  <2>4. \A j \in 1..(k - 1) : list[j].stream # s
    BY <2>1, <2>3, Zenon
  <2> DEFINE Q(i) == i \in DOMAIN list /\ list[i].stream = s /\ \A j \in 1..(i - 1) : list[j].stream # s
  <2>5. Q(k)
    BY <1>1, <1>3, <2>4, Zenon
  <2>6. \A i : Q(i) => i = k
    BY <1>1, <2>1, Zenon
  <2>7. ContextOf(list, s)
          = CHOOSE i \in DOMAIN list : list[i].stream = s /\ \A j \in 1..(i - 1) : list[j].stream # s
    BY <1>1, <1>3, Zenon DEF ContextOf
  <2>8. (CHOOSE i \in DOMAIN list : list[i].stream = s /\ \A j \in 1..(i - 1) : list[j].stream # s) = k
    BY <2>5, <2>6, Zenon
  <2> QED
    BY <2>2, <2>7, <2>8, Zenon
<1>4. ASSUME On(list, s) # {} PROVE \E k \in 1..Len(list) : list[k].stream = s
  BY <1>4, Zenon DEF On
<1>5. \A k \in 1..Len(list) : k # 0
  BY <1>1
<1> QED
  BY <1>2, <1>3, <1>4, <1>5, Zenon

\* create_rm_receiving_context, when the stream has no context.
LEMMA WithContextIs ==
    ASSUME contexts \in Seq(Context), Unique(contexts), NEW s \in Stream
    PROVE  /\ WithContext(s) \in Seq(Context) /\ Unique(WithContext(s))
           /\ \A t : t # s => On(WithContext(s), t) = On(contexts, t)
           /\ On(WithContext(s), s) = IF On(contexts, s) = {} THEN {NewContext(s)} ELSE On(contexts, s)
<1>1. CASE On(contexts, s) # {}
  <2>1. WithContext(s) = contexts
    BY <1>1, ContextOfIs, Zenon DEF WithContext
  <2> QED
    BY <1>1, <2>1, Zenon
<1>2. CASE On(contexts, s) = {}
  <2> DEFINE c == NewContext(s)
             list == <<c>> \o contexts
  <2>1. WithContext(s) = list
    BY <1>2, ContextOfIs, Zenon DEF WithContext
  <2>2. c \in Context /\ c.stream = s
    BY DEF NewContext, Context
  <2> HIDE DEF c
  <2>3. Len(contexts) \in Nat /\ list \in Seq(Context) /\ Len(list) = Len(contexts) + 1
    BY <2>2
  <2>4. list[1] = c /\ \A k \in 1..Len(contexts) : list[k + 1] = contexts[k] /\ k + 1 \in 1..Len(list)
    BY <2>2, <2>3
  <2> HIDE DEF list
  <2>5. \A k \in 1..Len(list) : k = 1 \/ (k - 1 \in 1..Len(contexts) /\ list[k] = contexts[k - 1])
    <3> SUFFICES ASSUME NEW k \in 1..Len(list), k # 1
                 PROVE  k - 1 \in 1..Len(contexts) /\ list[k] = contexts[k - 1]
      BY Zenon
    <3>1. k - 1 \in 1..Len(contexts) /\ (k - 1) + 1 = k
      BY <2>3
    <3> QED
      BY <2>4, <3>1, Zenon
  <2>6. 1 \in 1..Len(list)
    BY <2>3
  <2>7. \A k \in 1..Len(contexts) : contexts[k].stream # s
    BY <1>2, Zenon DEF On
  <2>8. Unique(list)
    <3> SUFFICES ASSUME NEW j \in 1..Len(list), NEW k \in 1..Len(list), list[j].stream = list[k].stream PROVE j = k
      BY Zenon DEF Unique
    <3>1. CASE j = 1 \/ k = 1
      <4>1. \A i \in 1..Len(list) : i # 1 => list[i].stream # s
        BY <2>5, <2>7, Zenon
      <4>2. list[1].stream = s
        BY <2>2, <2>4, Zenon
      <4> QED
        BY <3>1, <4>1, <4>2, Zenon
    <3>2. CASE j # 1 /\ k # 1
      <4>1. j - 1 = k - 1
        <5>1. j - 1 \in 1..Len(contexts) /\ list[j] = contexts[j - 1]
          BY <2>5, <3>2, Zenon
        <5>2. k - 1 \in 1..Len(contexts) /\ list[k] = contexts[k - 1]
          BY <2>5, <3>2, Zenon
        <5>3. contexts[j - 1].stream = contexts[k - 1].stream
          BY <5>1, <5>2, Zenon
        <5> QED
          BY <5>1, <5>2, <5>3, Zenon DEF Unique
      <4> QED
        BY <2>3, <4>1
    <3> QED
      BY <3>1, <3>2, Zenon
  <2>9. \A t : t # s => On(list, t) = On(contexts, t)
    <3> SUFFICES ASSUME NEW t, t # s PROVE On(list, t) = On(contexts, t)
      BY Zenon
    <3>1. ASSUME NEW x \in On(list, t) PROVE x \in On(contexts, t)
      <4>1. PICK k \in 1..Len(list) : list[k].stream = t /\ x = list[k]
        BY <3>1, Zenon DEF On
      <4>2. k # 1
        BY <2>2, <2>4, <4>1, Zenon
      <4>3. k - 1 \in 1..Len(contexts) /\ list[k] = contexts[k - 1]
        BY <2>5, <4>2, Zenon
      <4>4. contexts[k - 1].stream = t /\ x = contexts[k - 1]
        BY <4>1, <4>3, Zenon
      <4> QED
        BY <4>3, <4>4, OnIs, Zenon
    <3>2. \A x : x \in On(contexts, t) => x \in On(list, t)
      BY <2>4, Zenon DEF On
    <3> QED
      BY <3>1, <3>2, Zenon
  <2>10. On(list, s) = {c}
    BY <2>2, <2>3, <2>4, <2>6, <2>8, ContextOfIs, Zenon
  <2> QED
    BY <1>2, <2>1, <2>3, <2>8, <2>9, <2>10, Zenon DEF c
<1> QED
  BY <1>1, <1>2, Zenon

\* The context of a stream is changed.
LEMMA ChangedContext ==
    ASSUME NEW list \in Seq(Context), Unique(list), NEW k \in 1..Len(list), NEW c \in Context,
           c.stream = list[k].stream
    PROVE  /\ [list EXCEPT ![k] = c] \in Seq(Context) /\ Unique([list EXCEPT ![k] = c])
           /\ On([list EXCEPT ![k] = c], c.stream) = {c}
           /\ \A t : t # c.stream => On([list EXCEPT ![k] = c], t) = On(list, t)
<1> DEFINE new == [list EXCEPT ![k] = c]
<1>1. new \in Seq(Context) /\ Len(new) = Len(list)
  OBVIOUS
<1>2. new[k] = c /\ \A j \in 1..Len(list) : j # k => new[j] = list[j]
  OBVIOUS
<1> HIDE DEF new
<1>3. \A j \in 1..Len(list) : new[j].stream = list[j].stream
  BY <1>2, Zenon
<1>4. Unique(new)
  BY <1>1, <1>3, Zenon DEF Unique
<1>5. On(new, c.stream) = {c}
  BY <1>1, <1>2, <1>4, ContextOfIs, Zenon
<1>6. \A t : t # c.stream => On(new, t) = On(list, t)
  <2> SUFFICES ASSUME NEW t, t # c.stream PROVE On(new, t) = On(list, t)
    BY Zenon
  <2>1. \A x : x \in On(new, t) => x \in On(list, t)
    BY <1>1, <1>2, <1>3, Zenon DEF On
  <2>2. \A x : x \in On(list, t) => x \in On(new, t)
    BY <1>1, <1>2, <1>3, Zenon DEF On
  <2> QED
    BY <2>1, <2>2, Zenon
<1> QED
  BY <1>1, <1>4, <1>5, <1>6, Zenon DEF new

\* remove_rm_receiving_context removes the context of the stream and no other.
LEMMA WithoutIs ==
    ASSUME NEW list \in Seq(Context), Unique(list), NEW s, On(list, s) # {}
    PROVE  /\ Without(list, s) \in Seq(Context) /\ Unique(Without(list, s))
           /\ On(Without(list, s), s) = {}
           /\ \A t : t # s => On(Without(list, s), t) = On(list, t)
<1> DEFINE k == ContextOf(list, s)
           new == Without(list, s)
           old == [j \in 1..(Len(list) - 1) |-> IF j < k THEN j ELSE j + 1]
<1>1. k \in 1..Len(list) /\ list[k].stream = s /\ \A j \in 1..Len(list) : list[j].stream = s => j = k
  <2>1. k \in 1..Len(list) /\ list[k].stream = s
    BY ContextOfIs, Zenon
  <2> QED
    BY <2>1, Zenon DEF Unique
<1>2. new = [j \in 1..(Len(list) - 1) |-> IF j < k THEN list[j] ELSE list[j + 1]]
  BY Zenon DEF Without
<1> HIDE DEF k, new
<1>3. Len(list) \in Nat /\ Len(list) >= 1 /\ k \in Nat
  BY <1>1
<1>4. \A j \in 1..(Len(list) - 1) : old[j] \in 1..Len(list) /\ old[j] # k
  BY <1>1, <1>3
<1>5. \A j \in 1..(Len(list) - 1) : new[j] = list[old[j]]
  BY <1>2, Zenon
<1>6. \A i, j \in 1..(Len(list) - 1) : old[i] = old[j] => i = j
  BY <1>1, <1>3
<1>7. \A i \in 1..Len(list) : i # k => \E j \in 1..(Len(list) - 1) : old[j] = i
  <2> SUFFICES ASSUME NEW i \in 1..Len(list), i # k PROVE \E j \in 1..(Len(list) - 1) : old[j] = i
    BY Zenon
  <2>1. CASE i < k
    <3>1. i \in 1..(Len(list) - 1) /\ old[i] = i
      BY <1>1, <1>3, <2>1
    <3> QED
      BY <3>1, Zenon
  <2>2. CASE ~(i < k)
    <3>1. i - 1 \in 1..(Len(list) - 1) /\ old[i - 1] = i
      BY <1>1, <1>3, <2>2
    <3> QED
      BY <3>1, Zenon
  <2> QED
    BY <2>1, <2>2, Zenon
<1> HIDE DEF old
<1>8. new \in Seq(Context) /\ Len(new) = Len(list) - 1
  <2>1. \A j \in 1..(Len(list) - 1) : list[old[j]] \in Context
    BY <1>4, ElementOf, Zenon
  <2>2. new \in [1..(Len(list) - 1) -> Context]
    <3>1. \A j \in 1..(Len(list) - 1) : new[j] \in Context
      BY <1>5, <2>1, Zenon
    <3>2. new = [j \in 1..(Len(list) - 1) |-> new[j]]
      BY <1>2, Zenon
    <3> QED
      BY <3>1, <3>2, Zenon
  <2> QED
    BY <1>3, <2>2
<1>9. Unique(new)
  <2> SUFFICES ASSUME NEW i \in 1..(Len(list) - 1), NEW j \in 1..(Len(list) - 1), new[i].stream = new[j].stream
               PROVE  i = j
    BY <1>8, Zenon DEF Unique
  <2>1. list[old[i]].stream = list[old[j]].stream /\ old[i] \in 1..Len(list) /\ old[j] \in 1..Len(list)
    BY <1>4, <1>5, Zenon
  <2>2. old[i] = old[j]
    BY <2>1, Zenon DEF Unique
  <2> QED
    BY <1>6, <2>2, Zenon
<1>10. On(new, s) = {}
  <2> SUFFICES ASSUME NEW x \in On(new, s) PROVE FALSE
    BY Zenon
  <2>1. PICK j \in 1..(Len(list) - 1) : new[j].stream = s
    BY <1>8, Zenon DEF On
  <2>2. old[j] \in 1..Len(list) /\ old[j] # k /\ list[old[j]].stream = s
    BY <1>4, <1>5, <2>1, Zenon
  <2> QED
    BY <1>1, <2>2, Zenon
<1>11. \A t : t # s => On(new, t) = On(list, t)
  <2> SUFFICES ASSUME NEW t, t # s PROVE On(new, t) = On(list, t)
    BY Zenon
  <2>1. ASSUME NEW x \in On(new, t) PROVE x \in On(list, t)
    <3>1. PICK j \in 1..(Len(list) - 1) : new[j].stream = t /\ x = new[j]
      BY <1>8, <2>1, Zenon DEF On
    <3>2. old[j] \in 1..Len(list) /\ list[old[j]].stream = t /\ x = list[old[j]]
      BY <1>4, <1>5, <3>1, Zenon
    <3> QED
      BY <3>2, OnIs, Zenon
  <2>2. ASSUME NEW x \in On(list, t) PROVE x \in On(new, t)
    <3>1. PICK i \in 1..Len(list) : list[i].stream = t /\ x = list[i]
      BY <2>2, Zenon DEF On
    <3>2. PICK j \in 1..(Len(list) - 1) : old[j] = i
      BY <1>1, <1>7, <3>1, Zenon
    <3>3. new[j].stream = t /\ x = new[j] /\ j \in 1..Len(new)
      BY <1>5, <1>8, <3>1, <3>2, Zenon
    <3> QED
      BY <3>3, OnIs, Zenon
  <2> QED
    BY <2>1, <2>2, Zenon
<1> QED
  BY <1>8, <1>9, <1>10, <1>11, Zenon DEF new

-----------------------------------------------------------------------------
\* A stream on which 'in' was sent and 'out' received, that accepted 'acc' bytes of the
\* last record, with the bytes 'tr' in transit and the contexts 'on': every record has
\* been received, or the last is under way; then the bytes in transit and those that were
\* not accepted are what the context is to receive.
Idle(in, out, acc, tr, on) ==
    in = out /\ tr = <<>> /\ on = {} /\ (in # <<>> => acc = Len(Framed(in[Len(in)], 0)))

Busy(in, out, acc, tr, on) ==
    LET record == in[Len(in)]
        framed == Framed(record, 0)
        rest   == tr \o SubSeq(framed, acc + 1, Len(framed))
    IN  /\ in # <<>> /\ out = SubSeq(in, 1, Len(in) - 1) /\ acc \in 0..Len(framed)
        /\ \/ on = {} /\ Len(tr) = acc /\ rest = framed
           \/ \E c \in on : on = {c} /\ Len(tr) < acc /\ Partial(c, record, rest)

StreamOK(in, out, acc, tr, on) == Idle(in, out, acc, tr, on) \/ Busy(in, out, acc, tr, on)

\* A stream on which as many records were received as sent is idle.
LEMMA IdleIs ==
    ASSUME NEW in \in Seq(Seq(Byte)), NEW out, NEW acc, NEW tr, NEW on, StreamOK(in, out, acc, tr, on),
           Len(in) = Len(out)
    PROVE  Idle(in, out, acc, tr, on)
<1>1. ~Busy(in, out, acc, tr, on)
  <2> SUFFICES ASSUME in # <<>>, out = SubSeq(in, 1, Len(in) - 1) PROVE FALSE
    BY Zenon DEF Busy
  <2>1. Len(in) \in Nat /\ Len(out) = Len(in) - 1
    BY WithoutLast, Zenon
  <2> QED
    BY <2>1
<1> QED
  BY <1>1, Zenon DEF StreamOK

\* send_rm_record_quic: the stream accepts the first m bytes of the record.
LEMMA SendOK ==
    ASSUME NEW in \in Seq(Seq(Byte)), NEW out, NEW acc, NEW tr, NEW on, StreamOK(in, out, acc, tr, on),
           Len(in) = Len(out), NEW record \in Seq(Byte), NEW m \in 0..Len(Framed(record, 0))
    PROVE  StreamOK(Append(in, record), out, m, tr \o SubSeq(Framed(record, 0), 1, m), on)
<1> DEFINE f == Framed(record, 0)
           x == SubSeq(f, 1, m)
           y == SubSeq(f, m + 1, Len(f))
           new == Append(in, record)
<1>1. in = out /\ tr = <<>> /\ on = {}
  <2>1. Idle(in, out, acc, tr, on)
    BY IdleIs, Zenon
  <2> QED
    BY <2>1, Zenon DEF Idle
<1>2. f \in Seq(Byte)
  <2>1. 0 \in 0..Len(record)
    OBVIOUS
  <2> QED
    BY <2>1, FramedUnfolds, Zenon
<1> HIDE DEF f
<1>3. x \in Seq(Byte) /\ Len(x) = m /\ x \o y = f /\ <<>> \o x = x
  <2>1. m \in 0..Len(f)
    BY Zenon DEF f
  <2>2. x \in Seq(Byte) /\ Len(x) = m /\ x \o y = f
    BY <1>2, <2>1, Cut, Zenon
  <2> QED
    BY <2>2, Joined, Zenon
<1>4. new # <<>> /\ new[Len(new)] = record /\ SubSeq(new, 1, Len(new) - 1) = in
  BY AppendIs
<1> HIDE DEF new, x, y
<1>5. Busy(new, out, m, x, on)
  BY <1>1, <1>3, <1>4, Zenon DEF Busy, f, y
<1> QED
  BY <1>1, <1>3, <1>5, Zenon DEF StreamOK, new, x, f

\* server_on_stream_readable: a read of n bytes completes the record, or leaves the
\* stream a context that has more of it.
LEMMA ReadOK ==
    ASSUME NEW in \in Seq(Seq(Byte)), NEW out, NEW acc \in Nat, NEW tr \in Seq(Byte), NEW on,
           StreamOK(in, out, acc, tr, on), NEW n \in 1..Len(tr),
           NEW s \in Stream, NEW c \in Context, on = {c} \/ (on = {} /\ c = NewContext(s))
    PROVE  LET x == TakeBytes(c, SubSeq(tr, 1, n))
               left == SubSeq(tr, n + 1, Len(tr))
           IN  /\ ~c.full /\ in # <<>> /\ out = SubSeq(in, 1, Len(in) - 1)
               /\ \/ x.full /\ ~x.surplus /\ Append(out, x.payloads) = in /\ StreamOK(in, in, acc, left, {})
                  \/ ~x.full /\ StreamOK(in, out, acc, left, {x})
<1> DEFINE record == in[Len(in)]
           f == Framed(record, 0)
           un == SubSeq(f, acc + 1, Len(f))
           rest == tr \o un
           bytes == SubSeq(tr, 1, n)
           left == SubSeq(tr, n + 1, Len(tr))
           x == TakeBytes(c, bytes)
<1>1. tr # <<>> /\ Len(tr) \in Nat /\ n \in 0..Len(tr) /\ n \in Nat /\ n >= 1
  BY EmptySequence
<1>2. Busy(in, out, acc, tr, on)
  BY <1>1, Zenon DEF StreamOK, Idle
<1>3. in # <<>> /\ out = SubSeq(in, 1, Len(in) - 1) /\ acc \in 0..Len(f)
  BY <1>2, Zenon DEF Busy
<1>4. record \in Seq(Byte) /\ Len(in) \in Nat /\ Append(out, record) = in
  BY <1>3, WithoutLast, Zenon
<1>5. \/ on = {} /\ Len(tr) = acc /\ rest = f
      \/ \E k \in on : on = {k} /\ Len(tr) < acc /\ Partial(k, record, rest)
  BY <1>2, Zenon DEF Busy
<1> HIDE DEF record
<1>6. Len(record) \in Nat /\ 0 \in 0..Len(record)
  BY <1>4
<1>7. f \in Seq(Byte) /\ (Len(record) = 0 => f = <<>>)
  BY <1>4, <1>6, FramedUnfolds, Zenon
<1> HIDE DEF f
<1>8. un \in Seq(Byte) /\ Len(un) \in Nat
  BY <1>3, <1>7, Cut, Joined, Zenon
<1> HIDE DEF un
<1>9. rest \in Seq(Byte) /\ Len(rest) = Len(tr) + Len(un)
  BY <1>8, Joined, Zenon
<1> HIDE DEF rest
<1>10. Partial(c, record, rest) /\ Len(tr) <= acc
  <2>1. CASE on = {} /\ Len(tr) = acc /\ rest = f
    <3>1. c = NewContext(s)
      BY <2>1, Zenon
    <3>2. ~c.full /\ ~c.surplus /\ c.header = <<>> /\ c.payload = <<>> /\ c.payloads = <<>>
      BY <3>1, Zenon DEF NewContext
    <3>3. Len(record) # 0
      <4> SUFFICES ASSUME Len(record) = 0 PROVE FALSE
        BY Zenon
      <4>1. Len(rest) = 0
        BY <1>7, <2>1, Zenon
      <4> QED
        <5>1. Len(tr) + Len(un) = 0
          BY <1>9, <4>1, Zenon
        <5>2. \A a, b \in Nat : a # 0 => a + b # 0
          OBVIOUS
        <5>3. Len(tr) # 0
          BY <1>1
        <5> QED
          BY <1>1, <1>8, <5>1, <5>2, <5>3, Zenon
    <3>4. 0 \in 0..(Len(record) - 1) /\ Len(<<>>) = 0 /\ <<>> = SubSeq(record, 1, 0) /\ 0 < HeaderSize
      BY <1>4, <1>6, <3>3, RecordMarkingAssumption
    <3>5. <<>> \o rest = Framed(record, 0)
      BY <1>9, <2>1, Joined, Zenon DEF f
    <3>6. Partial(c, record, rest)
      BY <3>2, <3>4, <3>5, Zenon DEF Partial
    <3> QED
      BY <1>1, <2>1, <3>6
  <2>2. CASE \E k \in on : on = {k} /\ Len(tr) < acc /\ Partial(k, record, rest)
    <3>1. Partial(c, record, rest) /\ Len(tr) < acc
      BY <2>2, Zenon
    <3> QED
      BY <1>1, <3>1
  <2> QED
    BY <1>5, <2>1, <2>2, Zenon
<1>11. bytes \in Seq(Byte) /\ Len(bytes) = n /\ left \in Seq(Byte) /\ Len(left) = Len(tr) - n /\ bytes \o left = tr
  BY <1>1, Cut, Zenon
<1> HIDE DEF bytes, left
<1>12. n \in 0..Len(rest) /\ n \in 1..Len(rest)
  BY <1>1, <1>8, <1>9
<1>13. SubSeq(rest, 1, n) = bytes /\ SubSeq(rest, n + 1, Len(rest)) = left \o un
  <2> DEFINE a == SubSeq(rest, 1, n)
             b == SubSeq(rest, n + 1, Len(rest))
             z == left \o un
  <2>1. a \in Seq(Byte) /\ Len(a) = n /\ b \in Seq(Byte) /\ a \o b = rest
    BY <1>9, <1>12, Cut, Zenon
  <2>2. (bytes \o left) \o un = bytes \o (left \o un)
    <3>1. bytes \in Seq(Byte) /\ left \in Seq(Byte) /\ un \in Seq(Byte)
      BY <1>8, <1>11, Zenon
    <3> QED
      BY <3>1, Regroup, Zenon
  <2>3. z \in Seq(Byte)
    BY <1>8, <1>11, Joined, Zenon
  <2>4. a \o b = bytes \o z
    BY <1>11, <2>1, <2>2, Zenon DEF rest
  <2>5. Len(a) = Len(bytes)
    BY <1>11, <2>1, Zenon
  <2> HIDE DEF a, b, z
  <2>6. a = bytes /\ b = z
    BY <1>11, <2>1, <2>3, <2>4, <2>5, SamePrefix, Zenon
  <2> QED
    BY <2>6, Zenon DEF a, b, z
<1>14. IF n = Len(rest) THEN Complete(x, record) ELSE Partial(x, record, left \o un)
  <2>1. IF n = Len(rest) THEN Complete(TakeBytes(c, SubSeq(rest, 1, n)), record)
        ELSE Partial(TakeBytes(c, SubSeq(rest, 1, n)), record, SubSeq(rest, n + 1, Len(rest)))
    BY <1>4, <1>9, <1>10, <1>12, TakeBytesStep, Zenon
  <2> QED
    BY <1>13, <2>1, Zenon
<1> HIDE DEF x
<1>15. ~c.full
  BY <1>10, Zenon DEF Partial
<1>16. CASE n = Len(rest)
  <2>1. x.full /\ ~x.surplus /\ x.payloads = record
    BY <1>14, <1>16, Zenon DEF Complete
  <2>2. Len(left) = 0
    BY <1>1, <1>8, <1>9, <1>11, <1>16
  <2>3. left = <<>>
    BY <1>11, <2>2, Joined, Zenon
  <2>4. Append(out, x.payloads) = in
    BY <1>4, <2>1, Zenon
  <2>5. acc = Len(f)
    <3>1. Len(un) = Len(f) - acc /\ Len(f) \in Nat
      BY <1>3, <1>7, Cut, Joined, Zenon DEF un
    <3>2. \A a, b, d \in Nat : n <= a /\ n = a + b /\ b = d - acc => acc = d
      BY <1>1
    <3>3. n <= Len(tr) /\ n = Len(tr) + Len(un)
      BY <1>1, <1>9, <1>16
    <3> QED
      BY <1>1, <1>8, <3>1, <3>2, <3>3, Zenon
  <2>6. StreamOK(in, in, acc, left, {})
    BY <2>3, <2>5, Zenon DEF StreamOK, Idle, f, record
  <2> QED
    BY <1>3, <1>15, <2>1, <2>4, <2>6, Zenon DEF x, bytes, left
<1>17. CASE n # Len(rest)
  <2>1. Partial(x, record, left \o un)
    BY <1>14, <1>17, Zenon
  <2>2. ~x.full
    BY <2>1, Zenon DEF Partial
  <2>3. Len(left) < acc
    BY <1>1, <1>10, <1>11
  <2>4. Busy(in, out, acc, left, {x})
    BY <1>3, <2>1, <2>3, Zenon DEF Busy, record, f, un
  <2>5. StreamOK(in, out, acc, left, {x})
    BY <2>4, Zenon DEF StreamOK
  <2> QED
    BY <1>3, <1>15, <2>2, <2>5, Zenon DEF x, bytes, left
<1> QED
  BY <1>16, <1>17, Zenon

\* A stream has a context exactly while the record on it has been received in part.
LEMMA FreshOK ==
    ASSUME NEW in \in Seq(Seq(Byte)), NEW out, NEW acc \in Nat, NEW tr \in Seq(Byte), NEW on,
           StreamOK(in, out, acc, tr, on)
    PROVE  on # {} <=> (Len(tr) < acc /\ in # out)
<1>1. CASE Idle(in, out, acc, tr, on)
  BY <1>1, Zenon DEF Idle
<1>2. CASE Busy(in, out, acc, tr, on)
  <2>1. in # out
    <3>1. Len(in) \in Nat /\ Len(out) = Len(in) - 1
      BY <1>2, WithoutLast, Zenon DEF Busy
    <3>2. Len(in) # Len(in) - 1
      BY <3>1
    <3> QED
      BY <3>1, <3>2, Zenon
  <2>2. (on = {} /\ Len(tr) = acc) \/ (on # {} /\ Len(tr) < acc)
    BY <1>2, Zenon DEF Busy
  <2>3. Len(tr) = acc => ~(Len(tr) < acc)
    OBVIOUS
  <2> QED
    BY <2>1, <2>2, <2>3, Zenon
<1> QED
  BY <1>1, <1>2, Zenon DEF StreamOK

-----------------------------------------------------------------------------
QuicType ==
    /\ conn \in 1..MaxConnections
    /\ input \in [Chan -> Seq(Seq(Byte))] /\ output \in [Chan -> Seq(Seq(Byte))]
    /\ accepted \in [Stream -> Nat] /\ wire \in [Stream -> Seq(Byte)]
    /\ contexts \in Seq(Context) /\ stale \subseteq Stream

\* The streams that found no context of an earlier connection are in order.
Streams ==
    \A s \in Stream \ stale :
        StreamOK(input[<<conn, s>>], output[<<conn, s>>], accepted[s], wire[s], On(contexts, s))

\* Nothing has been sent on later connections.
Later == \A c \in Chan : c[1] > conn => input[c] = <<>> /\ output[c] = <<>>

QuicInv == QuicType /\ Unique(contexts) /\ Streams /\ Later /\ (crashed => stale # {})

\* The streams of the present connection.
LEMMA ChanIs ==
    ASSUME QuicType
    PROVE  /\ \A s \in Stream : /\ <<conn, s>> \in Chan /\ <<conn, s>>[1] = conn
                                /\ input[<<conn, s>>] \in Seq(Seq(Byte)) /\ output[<<conn, s>>] \in Seq(Seq(Byte))
                                /\ accepted[s] \in Nat /\ wire[s] \in Seq(Byte)
           /\ \A s, t \in Stream : s # t => <<conn, s>> # <<conn, t>>
           /\ conn \in Nat /\ MaxConnections \in Nat
<1>1. conn \in 1..MaxConnections /\ MaxConnections \in Nat
  BY QuicRecordAssumption DEF QuicType
<1>2. conn \in Nat
  BY <1>1
<1>3. \A s \in Stream : <<conn, s>> \in Chan /\ <<conn, s>>[1] = conn
  BY <1>1, Zenon DEF Chan
<1>4. \A s, t \in Stream : s # t => <<conn, s>> # <<conn, t>>
  BY Zenon
<1> QED
  BY <1>1, <1>2, <1>3, <1>4, Zenon DEF QuicType

\* The invariant holds on the first connection.
LEMMA QuicInit == Init => QuicInv
<1> SUFFICES ASSUME Init PROVE QuicInv
  BY Zenon
<1>1. /\ conn = 1 /\ input = [c \in Chan |-> <<>>] /\ output = [c \in Chan |-> <<>>]
      /\ accepted = [s \in Stream |-> 0] /\ wire = [s \in Stream |-> <<>>]
      /\ contexts = <<>> /\ stale = {} /\ ~crashed
  BY Zenon DEF Init
<1>2. <<>> \in Seq(Seq(Byte)) /\ <<>> \in Seq(Byte) /\ <<>> \in Seq(Context) /\ 0 \in Nat /\ 1 \in 1..MaxConnections
      /\ 1..Len(<<>>) = {}
  BY QuicRecordAssumption
<1>3. QuicType
  BY <1>1, <1>2, Zenon DEF QuicType
<1>4. Unique(contexts) /\ \A s : On(contexts, s) = {}
  BY <1>1, <1>2, Zenon DEF Unique, On
<1>5. Streams
  <2> SUFFICES ASSUME NEW s \in Stream
               PROVE  Idle(input[<<conn, s>>], output[<<conn, s>>], accepted[s], wire[s], On(contexts, s))
    BY Zenon DEF Streams, StreamOK
  <2>1. <<conn, s>> \in Chan
    BY <1>3, ChanIs, Zenon
  <2> QED
    BY <1>1, <1>4, <2>1, Zenon DEF Idle
<1>6. Later
  BY <1>1, Zenon DEF Later
<1> QED
  BY <1>1, <1>3, <1>4, <1>5, <1>6, Zenon DEF QuicInv

\* A record is sent on a stream.
LEMMA QuicSendStep ==
    ASSUME QuicInv, NEW s \in Stream, NEW size \in Sizes, NEW room \in Rooms,
           Send(s, size, room)
    PROVE  QuicInv'
<1> DEFINE c == <<conn, s>>
           record == Data(Len(input[c]), size)
           framed == Framed(record, 0)
           m == Smaller(Len(framed), room)
           bytes == SubSeq(framed, 1, m)
<1>1. QuicType /\ Unique(contexts) /\ Streams /\ Later
  BY Zenon DEF QuicInv
<1>2. /\ ~crashed /\ Len(input[c]) = Len(output[c])
      /\ input' = [input EXCEPT ![c] = Append(@, record)]
      /\ accepted' = [accepted EXCEPT ![s] = Len(bytes)]
      /\ wire' = [wire EXCEPT ![s] = @ \o bytes]
      /\ UNCHANGED <<conn, contexts, output, stale, crashed>>
  BY Zenon DEF Send
<1>3. c \in Chan /\ c[1] = conn /\ input[c] \in Seq(Seq(Byte)) /\ wire[s] \in Seq(Byte) /\ conn \in Nat
  BY <1>1, ChanIs, Zenon
<1>4. record \in Seq(Byte)
  <2>1. size \in Nat /\ Len(input[c]) \in Nat
    BY <1>3, RecordMarkingAssumption, QuicRecordAssumption
  <2> QED
    BY <2>1, DataIs, Zenon
<1> HIDE DEF record, c
<1>5. framed \in Seq(Byte) /\ Len(framed) \in Nat
  <2>1. 0 \in 0..Len(record)
    BY <1>4
  <2> QED
    BY <1>4, <2>1, FramedUnfolds, Joined, Zenon
<1>6. m \in 0..Len(framed)
  <2>1. room \in Nat
    BY QuicRecordAssumption, Zenon
  <2> HIDE DEF framed
  <2> QED
    BY <1>5, <2>1 DEF Smaller
<1> HIDE DEF m
<1>7. bytes \in Seq(Byte) /\ Len(bytes) = m /\ m \in Nat
  <2>1. bytes \in Seq(Byte) /\ Len(bytes) = m
    BY <1>5, <1>6, Cut, Zenon
  <2> QED
    BY <2>1, Joined, Zenon
<1> HIDE DEF bytes, framed
<1>8. /\ input'[c] = Append(input[c], record) /\ \A d \in Chan : d # c => input'[d] = input[d]
      /\ accepted'[s] = m /\ \A t \in Stream : t # s => accepted'[t] = accepted[t]
      /\ wire'[s] = wire[s] \o bytes /\ \A t \in Stream : t # s => wire'[t] = wire[t]
  BY <1>1, <1>2, <1>3, <1>7, Zenon DEF QuicType
<1>9. QuicType'
  <2> DEFINE r == Append(input[c], record)
             b == wire[s] \o bytes
  <2>1. r \in Seq(Seq(Byte)) /\ b \in Seq(Byte)
    <3>1. r \in Seq(Seq(Byte))
      BY <1>3, <1>4, AppendIs, Zenon
    <3> QED
      BY <1>3, <1>7, <3>1, Joined, Zenon
  <2>2. /\ input' = [input EXCEPT ![c] = r] /\ accepted' = [accepted EXCEPT ![s] = m]
        /\ wire' = [wire EXCEPT ![s] = b]
    BY <1>2, <1>7, Zenon
  <2> HIDE DEF r, b
  <2> QED
    BY <1>1, <1>2, <1>7, <2>1, <2>2, Zenon DEF QuicType
<1>10. Streams'
  <2> SUFFICES ASSUME NEW t \in Stream \ stale
               PROVE  StreamOK(input'[<<conn, t>>], output[<<conn, t>>], accepted'[t], wire'[t], On(contexts, t))
    BY <1>2, Zenon DEF Streams
  <2>1. StreamOK(input[<<conn, t>>], output[<<conn, t>>], accepted[t], wire[t], On(contexts, t))
    BY <1>1, Zenon DEF Streams
  <2>2. CASE t = s
    <3>1. StreamOK(input[c], output[c], accepted[s], wire[s], On(contexts, s))
      BY <2>1, <2>2, Zenon DEF c
    <3>2. StreamOK(Append(input[c], record), output[c], m, wire[s] \o SubSeq(Framed(record, 0), 1, m),
                   On(contexts, s))
      BY <1>2, <1>3, <1>4, <1>6, <3>1, SendOK, Zenon DEF framed
    <3> QED
      BY <1>8, <2>2, <3>2, Zenon DEF c, bytes, framed
  <2>3. CASE t # s
    <3>1. <<conn, t>> \in Chan /\ <<conn, t>> # c
      BY <1>1, <2>3, ChanIs, Zenon DEF c
    <3> QED
      BY <1>8, <2>1, <2>3, <3>1, Zenon
  <2> QED
    BY <2>2, <2>3, Zenon
<1>11. Later'
  <2>1. ~(conn > conn)
    BY <1>3
  <2>2. \A d \in Chan : d[1] > conn => d # c
    BY <1>3, <2>1, Zenon
  <2>3. Chan' = Chan
    BY Zenon DEF Chan
  <2> QED
    BY <1>1, <1>2, <1>8, <2>2, <2>3, Zenon DEF Later
<1> QED
  BY <1>1, <1>2, <1>9, <1>10, <1>11, Zenon DEF QuicInv

\* The context a read is for.
LEMMA ReadContext ==
    ASSUME QuicInv, NEW s \in Stream
    PROVE  LET list == WithContext(s)
               k == ContextOf(list, s)
           IN  /\ list \in Seq(Context) /\ Unique(list) /\ k \in 1..Len(list) /\ list[k] \in Context
               /\ list[k].stream = s /\ On(list, s) # {}
               /\ \A t : t # s => On(list, t) = On(contexts, t)
               /\ On(contexts, s) = {list[k]} \/ (On(contexts, s) = {} /\ list[k] = NewContext(s))
               /\ \A bytes \in Seq(Byte) : /\ TakeBytes(list[k], bytes) \in Context
                                           /\ TakeBytes(list[k], bytes).stream = s
<1> DEFINE list == WithContext(s)
           k == ContextOf(list, s)
<1>1. contexts \in Seq(Context) /\ Unique(contexts)
  BY Zenon DEF QuicInv, QuicType
<1>2. /\ list \in Seq(Context) /\ Unique(list)
      /\ \A t : t # s => On(list, t) = On(contexts, t)
      /\ On(list, s) = IF On(contexts, s) = {} THEN {NewContext(s)} ELSE On(contexts, s)
  BY <1>1, WithContextIs, Zenon
<1> HIDE DEF list
<1>3. On(list, s) # {}
  BY <1>2, Zenon
<1>4. k \in 1..Len(list) /\ list[k].stream = s /\ On(list, s) = {list[k]}
  BY <1>2, <1>3, ContextOfIs, Zenon
<1> HIDE DEF k
<1>5. list[k] \in Context
  BY <1>2, <1>4, ElementOf, Zenon
<1>6. On(contexts, s) = {list[k]} \/ (On(contexts, s) = {} /\ list[k] = NewContext(s))
  BY <1>2, <1>4, Zenon
<1> DEFINE c == list[k]
<1>7. c \in Context /\ c.stream = s
  BY <1>4, <1>5, Zenon
<1> HIDE DEF c
<1>8. ASSUME NEW bytes \in Seq(Byte)
      PROVE  TakeBytes(c, bytes) \in {x \in Context : x.stream = c.stream}
  <2>1. PICK f : Trace(f, c, bytes)
    BY <1>7, TakeBytesIs, Zenon
  <2>2. Len(bytes) \in 0..Len(bytes)
    OBVIOUS
  <2> QED
    BY <2>1, <2>2, Zenon DEF Trace
<1>9. \A bytes \in Seq(Byte) : TakeBytes(c, bytes) \in Context /\ TakeBytes(c, bytes).stream = s
  BY <1>7, <1>8, Zenon
<1>10. /\ list \in Seq(Context) /\ Unique(list) /\ k \in 1..Len(list) /\ list[k] \in Context
       /\ list[k].stream = s /\ On(list, s) # {}
       /\ \A t : t # s => On(list, t) = On(contexts, t)
       /\ On(contexts, s) = {list[k]} \/ (On(contexts, s) = {} /\ list[k] = NewContext(s))
       /\ \A bytes \in Seq(Byte) : /\ TakeBytes(list[k], bytes) \in Context
                                   /\ TakeBytes(list[k], bytes).stream = s
  BY <1>2, <1>3, <1>4, <1>5, <1>6, <1>9, Zenon DEF c
<1> QED
  BY <1>10, Zenon DEF list, k

\* A read of a stream in order completes the record on it, or leaves it with a context
\* that has more of the record.
LEMMA ReadKeeps ==
    ASSUME QuicInv, NEW s \in Stream \ stale, NEW n \in Nat \ {0}, n <= Len(wire[s])
    PROVE  LET list == WithContext(s)
               old  == list[ContextOf(list, s)]
               x    == TakeBytes(old, SubSeq(wire[s], 1, n))
               left == SubSeq(wire[s], n + 1, Len(wire[s]))
               c    == <<conn, s>>
           IN  /\ ~old.full
               /\ \/ /\ x.full /\ ~x.surplus /\ Append(output[c], x.payloads) = input[c]
                     /\ StreamOK(input[c], input[c], accepted[s], left, {})
                  \/ ~x.full /\ StreamOK(input[c], output[c], accepted[s], left, {x})
<1> DEFINE list == WithContext(s)
           old == list[ContextOf(list, s)]
           c == <<conn, s>>
           in == input[c]
           out == output[c]
           acc == accepted[s]
           tr == wire[s]
           on == On(contexts, s)
<1>1. QuicType /\ Streams
  BY Zenon DEF QuicInv
<1>2. in \in Seq(Seq(Byte)) /\ acc \in Nat /\ tr \in Seq(Byte) /\ StreamOK(in, out, acc, tr, on)
  BY <1>1, ChanIs, Zenon DEF Streams
<1>3. old \in Context /\ (on = {old} \/ (on = {} /\ old = NewContext(s)))
  BY ReadContext, Zenon
<1> HIDE DEF list, old, in, out, acc, tr, on
<1>4. n \in 1..Len(tr)
  BY <1>2 DEF tr
<1>5. LET y == TakeBytes(old, SubSeq(tr, 1, n))
          rest == SubSeq(tr, n + 1, Len(tr))
      IN  /\ ~old.full /\ in # <<>> /\ out = SubSeq(in, 1, Len(in) - 1)
          /\ \/ y.full /\ ~y.surplus /\ Append(out, y.payloads) = in /\ StreamOK(in, in, acc, rest, {})
             \/ ~y.full /\ StreamOK(in, out, acc, rest, {y})
  BY <1>2, <1>3, <1>4, ReadOK, Zenon
<1> QED
  BY <1>5, Zenon DEF list, old, in, out, acc, tr, c

\* A read, whether it finds the freed buffers of an earlier record, leaves the record
\* incomplete, or completes it.
LEMMA QuicReadStep ==
    ASSUME QuicInv, NEW s \in Stream, NEW n \in Nat \ {0}, Readable(s, n)
    PROVE  QuicInv'
<1> DEFINE list == WithContext(s)
           k == ContextOf(list, s)
           old == list[k]
           bytes == SubSeq(wire[s], 1, n)
           left == SubSeq(wire[s], n + 1, Len(wire[s]))
           x == TakeBytes(old, bytes)
           c == <<conn, s>>
<1>1. QuicType /\ Unique(contexts) /\ Streams /\ Later
  BY Zenon DEF QuicInv
<1>2. /\ ~crashed /\ n <= Len(wire[s])
      /\ wire' = [wire EXCEPT ![s] = left]
      /\ \/ old.full /\ crashed' = TRUE /\ UNCHANGED <<contexts, output>>
         \/ /\ ~old.full /\ (~x.full \/ x.surplus) /\ contexts' = [list EXCEPT ![k] = x]
            /\ UNCHANGED <<output, crashed>>
         \/ /\ ~old.full /\ x.full /\ ~x.surplus /\ contexts' = Without(list, s)
            /\ output' = [output EXCEPT ![c] = Append(@, x.payloads)] /\ UNCHANGED crashed
      /\ UNCHANGED <<conn, input, accepted, stale>>
  BY Zenon DEF Readable
<1>3. /\ c \in Chan /\ c[1] = conn /\ input[c] \in Seq(Seq(Byte)) /\ output[c] \in Seq(Seq(Byte))
      /\ accepted[s] \in Nat /\ wire[s] \in Seq(Byte) /\ conn \in Nat
  BY <1>1, ChanIs, Zenon
<1>4. n \in 1..Len(wire[s]) /\ n \in 0..Len(wire[s])
  BY <1>2, <1>3
<1>5. bytes \in Seq(Byte) /\ left \in Seq(Byte)
  BY <1>3, <1>4, Cut, Zenon
<1>6. /\ list \in Seq(Context) /\ Unique(list) /\ k \in 1..Len(list) /\ old \in Context /\ old.stream = s
      /\ On(list, s) # {}
      /\ \A t : t # s => On(list, t) = On(contexts, t)
      /\ On(contexts, s) = {old} \/ (On(contexts, s) = {} /\ old = NewContext(s))
      /\ x \in Context /\ x.stream = s
  <2>1. /\ list \in Seq(Context) /\ Unique(list) /\ k \in 1..Len(list) /\ old \in Context /\ old.stream = s
        /\ On(list, s) # {}
        /\ \A t : t # s => On(list, t) = On(contexts, t)
        /\ On(contexts, s) = {old} \/ (On(contexts, s) = {} /\ old = NewContext(s))
        /\ \A b \in Seq(Byte) : TakeBytes(old, b) \in Context /\ TakeBytes(old, b).stream = s
    BY ReadContext, Zenon
  <2> HIDE DEF list, k, old, bytes
  <2> QED
    BY <1>5, <2>1, Zenon
<1> HIDE DEF list, k, old, x, c, left
<1>7. /\ wire'[s] = left /\ \A t \in Stream : t # s => wire'[t] = wire[t]
      /\ wire' \in [Stream -> Seq(Byte)]
  BY <1>1, <1>2, <1>5, Zenon DEF QuicType
<1>8. \A t \in Stream : t # s => <<conn, t>> \in Chan /\ <<conn, t>> # c
  BY <1>1, ChanIs, Zenon DEF c
<1>9. s \notin stale =>
        /\ ~old.full
        /\ \/ /\ x.full /\ ~x.surplus /\ Append(output[c], x.payloads) = input[c]
              /\ StreamOK(input[c], input[c], accepted[s], left, {})
           \/ ~x.full /\ StreamOK(input[c], output[c], accepted[s], left, {x})
  BY <1>2, ReadKeeps, Zenon DEF list, k, old, x, c, left
<1>10. ASSUME NEW t \in Stream \ stale, t # s, On(contexts', t) = On(contexts, t),
              output'[<<conn, t>>] = output[<<conn, t>>]
       PROVE  StreamOK(input[<<conn, t>>], output'[<<conn, t>>], accepted[t], wire'[t], On(contexts', t))
  BY <1>1, <1>7, <1>10, Zenon DEF Streams
<1>11. CASE old.full /\ crashed' = TRUE /\ UNCHANGED <<contexts, output>>
  <2>1. s \in stale
    BY <1>9, <1>11, Zenon
  <2>2. Streams'
    BY <1>2, <1>10, <1>11, <2>1, Zenon DEF Streams
  <2>3. QuicType' /\ Later'
    BY <1>1, <1>2, <1>7, <1>11, Zenon DEF QuicType, Later, Chan
  <2> QED
    BY <1>1, <1>2, <1>11, <2>1, <2>2, <2>3, Zenon DEF QuicInv
<1>12. CASE /\ ~old.full /\ (~x.full \/ x.surplus) /\ contexts' = [list EXCEPT ![k] = x]
            /\ UNCHANGED <<output, crashed>>
  <2>1. /\ contexts' \in Seq(Context) /\ Unique(contexts') /\ On(contexts', s) = {x}
        /\ \A t : t # s => On(contexts', t) = On(list, t)
    <3>1. x.stream = list[k].stream
      BY <1>6, Zenon DEF old
    <3>2. /\ [list EXCEPT ![k] = x] \in Seq(Context) /\ Unique([list EXCEPT ![k] = x])
          /\ On([list EXCEPT ![k] = x], x.stream) = {x}
          /\ \A t : t # x.stream => On([list EXCEPT ![k] = x], t) = On(list, t)
      BY <1>6, <3>1, ChangedContext, Zenon
    <3> QED
      BY <1>6, <1>12, <3>2, Zenon
  <2>2. \A t : t # s => On(contexts', t) = On(contexts, t)
    BY <1>6, <2>1, Zenon
  <2>3. Streams'
    <3> SUFFICES ASSUME NEW t \in Stream \ stale
                 PROVE  StreamOK(input[<<conn, t>>], output[<<conn, t>>], accepted[t], wire'[t], On(contexts', t))
      BY <1>2, <1>12, Zenon DEF Streams
    <3>1. CASE t = s
      <4>1. StreamOK(input[c], output[c], accepted[s], left, {x})
        BY <1>9, <1>12, <3>1, Zenon
      <4> QED
        BY <1>7, <2>1, <3>1, <4>1, Zenon DEF c
    <3>2. CASE t # s
      BY <1>10, <1>12, <2>2, <3>2, Zenon
    <3> QED
      BY <3>1, <3>2, Zenon
  <2>4. QuicType' /\ Later'
    BY <1>1, <1>2, <1>7, <1>12, <2>1, Zenon DEF QuicType, Later, Chan
  <2> QED
    BY <1>1, <1>2, <1>12, <2>1, <2>3, <2>4, Zenon DEF QuicInv
<1>13. CASE /\ ~old.full /\ x.full /\ ~x.surplus /\ contexts' = Without(list, s)
            /\ output' = [output EXCEPT ![c] = Append(@, x.payloads)] /\ UNCHANGED crashed
  <2> DEFINE r == Append(output[c], x.payloads)
  <2>1. /\ contexts' \in Seq(Context) /\ Unique(contexts') /\ On(contexts', s) = {}
        /\ \A t : t # s => On(contexts', t) = On(list, t)
    <3>1. /\ Without(list, s) \in Seq(Context) /\ Unique(Without(list, s))
          /\ On(Without(list, s), s) = {}
          /\ \A t : t # s => On(Without(list, s), t) = On(list, t)
      BY <1>6, WithoutIs, Zenon
    <3> QED
      BY <1>13, <3>1, Zenon
  <2>2. \A t : t # s => On(contexts', t) = On(contexts, t)
    BY <1>6, <2>1, Zenon
  <2>3. r \in Seq(Seq(Byte))
    <3>1. x.payloads \in Seq(Byte)
      BY <1>6, Zenon DEF Context
    <3> QED
      BY <1>3, <3>1, AppendIs, Zenon
  <2>4. output' = [output EXCEPT ![c] = r]
    BY <1>13, Zenon
  <2> HIDE DEF r
  <2>5. output'[c] = r /\ (\A d \in Chan : d # c => output'[d] = output[d])
        /\ output' \in [Chan -> Seq(Seq(Byte))]
    BY <1>1, <1>3, <2>3, <2>4, Zenon DEF QuicType
  <2>6. Streams'
    <3> SUFFICES ASSUME NEW t \in Stream \ stale
                 PROVE  StreamOK(input[<<conn, t>>], output'[<<conn, t>>], accepted[t], wire'[t], On(contexts', t))
      BY <1>2, <1>13, Zenon DEF Streams
    <3>1. CASE t = s
      <4>1. r = input[c] /\ StreamOK(input[c], input[c], accepted[s], left, {})
        BY <1>9, <1>13, <3>1, Zenon DEF r
      <4> QED
        BY <1>7, <2>1, <2>5, <3>1, <4>1, Zenon DEF c
    <3>2. CASE t # s
      BY <1>8, <1>10, <2>2, <2>5, <3>2, Zenon
    <3> QED
      BY <3>1, <3>2, Zenon
  <2>7. QuicType'
    BY <1>1, <1>2, <1>7, <2>1, <2>5, Zenon DEF QuicType, Chan
  <2>8. Later'
    <3>1. ~(conn > conn)
      BY <1>3
    <3>2. \A d \in Chan : d[1] > conn => d # c
      BY <1>3, <3>1, Zenon
    <3>3. Chan' = Chan
      BY Zenon DEF Chan
    <3> QED
      BY <1>1, <1>2, <2>5, <3>2, <3>3, Zenon DEF Later
  <2> QED
    BY <1>1, <1>2, <1>13, <2>1, <2>6, <2>7, <2>8, Zenon DEF QuicInv
<1> QED
  BY <1>2, <1>11, <1>12, <1>13, Zenon

\* The connection ends: the streams of the next one for which there is no context start
\* afresh.
LEMMA QuicCloseStep ==
    ASSUME QuicInv, NEW same_address \in BOOLEAN, ConnClosed(same_address)
    PROVE  QuicInv'
<1>1. QuicType /\ Unique(contexts) /\ Streams /\ Later
  BY Zenon DEF QuicInv
<1>2. /\ ~crashed /\ conn < MaxConnections /\ conn' = conn + 1
      /\ accepted' = [s \in Stream |-> 0] /\ wire' = [s \in Stream |-> <<>>]
      /\ contexts' = contexts \/ contexts' = <<>>
      /\ stale' = {s \in Stream : ContextOf(contexts', s) # 0}
      /\ UNCHANGED <<input, output, crashed>>
  BY Zenon DEF ConnClosed
<1>3. conn \in Nat /\ MaxConnections \in Nat /\ conn \in 1..MaxConnections
  BY <1>1, ChanIs, Zenon DEF QuicType
<1>4. conn' \in 1..MaxConnections /\ conn' > conn /\ conn' \in Nat
  BY <1>2, <1>3
<1>5. <<>> \in Seq(Byte) /\ <<>> \in Seq(Context) /\ 0 \in Nat /\ 1..Len(<<>>) = {}
  OBVIOUS
<1>6. contexts' \in Seq(Context) /\ Unique(contexts')
  BY <1>1, <1>2, <1>5, Zenon DEF QuicType, Unique
<1>7. QuicType'
  BY <1>1, <1>2, <1>4, <1>5, <1>6, Zenon DEF QuicType, Chan
<1>8. Streams'
  <2> SUFFICES ASSUME NEW s \in Stream \ stale'
               PROVE  Idle(input'[<<conn', s>>], output'[<<conn', s>>], accepted'[s], wire'[s], On(contexts', s))
    BY Zenon DEF Streams, StreamOK
  <2>1. On(contexts', s) = {}
    <3>1. ContextOf(contexts', s) = 0
      BY <1>2, Zenon
    <3> QED
      BY <1>6, <3>1, ContextOfIs, Zenon
  <2>2. <<conn', s>> \in Chan /\ <<conn', s>>[1] > conn
    BY <1>4, Zenon DEF Chan
  <2>3. input[<<conn', s>>] = <<>> /\ output[<<conn', s>>] = <<>>
    BY <1>1, <2>2, Zenon DEF Later
  <2> QED
    BY <1>2, <2>1, <2>3, Zenon DEF Idle
<1>9. Later'
  <2>1. \A d \in Chan : d[1] > conn' => d[1] > conn
    <3> SUFFICES ASSUME NEW d \in Chan, d[1] > conn' PROVE d[1] > conn
      BY Zenon
    <3>1. d[1] \in Nat
      BY <1>3 DEF Chan
    <3> QED
      BY <1>3, <1>4, <3>1
  <2>2. Chan' = Chan
    BY Zenon DEF Chan
  <2> QED
    BY <1>1, <1>2, <2>1, <2>2, Zenon DEF Later
<1> QED
  BY <1>2, <1>6, <1>7, <1>8, <1>9, Zenon DEF QuicInv

\* Every step keeps the streams in order.
LEMMA QuicStep == QuicInv /\ [Next]_vars => QuicInv'
<1> SUFFICES ASSUME QuicInv, [Next]_vars PROVE QuicInv'
  BY Zenon
<1>1. CASE UNCHANGED vars
  BY <1>1, Zenon DEF vars, QuicInv, QuicType, Streams, Later, Chan
<1>2. ASSUME NEW s \in Stream, NEW size \in Sizes, NEW room \in Rooms, Send(s, size, room) PROVE QuicInv'
  BY <1>2, QuicSendStep, Zenon
<1>3. ASSUME NEW s \in Stream, NEW n \in 1..(MaxRecord * (HeaderSize + 1)), Readable(s, n) PROVE QuicInv'
  <2>1. n \in Nat \ {0}
    BY RecordMarkingAssumption
  <2> QED
    BY <1>3, <2>1, QuicReadStep, Zenon
<1>4. ASSUME NEW same_address \in BOOLEAN, ConnClosed(same_address) PROVE QuicInv'
  BY <1>4, QuicCloseStep, Zenon
<1> QED
  BY <1>1, <1>2, <1>3, <1>4, Zenon DEF Next

\* The streams that are in order have the contexts they should.
LEMMA QuicFresh == QuicInv => ContextsFresh
<1> SUFFICES ASSUME QuicInv PROVE ContextsFresh
  BY Zenon
<1>1. QuicType /\ Unique(contexts) /\ Streams /\ (crashed => stale # {}) /\ contexts \in Seq(Context)
  BY Zenon DEF QuicInv, QuicType
<1>2. DOMAIN contexts = 1..Len(contexts)
  BY <1>1
<1>3. \A j, l \in DOMAIN contexts : contexts[j].stream = contexts[l].stream => j = l
  BY <1>1, <1>2, Zenon DEF Unique
<1>4. ASSUME NEW s \in Stream \ stale
      PROVE  ContextOf(contexts, s) # 0 <=> /\ Len(wire[s]) < accepted[s]
                                            /\ input[<<conn, s>>] # output[<<conn, s>>]
  <2>1. ContextOf(contexts, s) # 0 <=> On(contexts, s) # {}
    BY <1>1, ContextOfIs, Zenon
  <2>2. StreamOK(input[<<conn, s>>], output[<<conn, s>>], accepted[s], wire[s], On(contexts, s))
    BY <1>1, Zenon DEF Streams
  <2>3. input[<<conn, s>>] \in Seq(Seq(Byte)) /\ accepted[s] \in Nat /\ wire[s] \in Seq(Byte)
    BY <1>1, ChanIs, Zenon
  <2>4. On(contexts, s) # {} <=> (Len(wire[s]) < accepted[s] /\ input[<<conn, s>>] # output[<<conn, s>>])
    BY <2>2, <2>3, FreshOK, Zenon
  <2> QED
    BY <2>1, <2>4, Zenon
<1> QED
  BY <1>1, <1>3, <1>4, Zenon DEF ContextsFresh

\* However records are cut and mixed with those of other streams, a stream has a
\* receiving context exactly while a record on it has been received in part, and nothing
\* is freed twice, unless the connection found a context of an earlier one.
THEOREM QuicSafety == Spec => []ContextsFresh
<1>1. Spec => []QuicInv
  BY QuicInit, QuicStep, PTL DEF Spec
<1> QED
  BY <1>1, QuicFresh, PTL

\* A remainder and its quotient are unique.
LEMMA Remainder ==
    ASSUME NEW b \in Nat \ {0}, NEW q \in Nat, NEW r \in 0..(b - 1), NEW p \in Nat, NEW s \in 0..(b - 1),
           b * q + r = b * p + s
    PROVE  r = s
OBVIOUS

\* The bytes of the n-th record depend on n modulo ByteValues.
LEMMA DataRepeats ==
    ASSUME NEW n \in Nat, NEW size \in Nat
    PROVE  n % ByteValues \in 0..(ByteValues - 1) /\ Data(n, size) = Data(n % ByteValues, size)
<1> DEFINE b == ByteValues
           r == n % b
           q == n \div b
<1>1. b \in Nat \ {0}
  BY RecordMarkingAssumption, Zenon
<1> HIDE DEF b
<1>2. r \in 0..(b - 1) /\ q \in Nat /\ n = b * q + r
  <2>1. r \in 0..(b - 1) /\ q \in Nat
    BY <1>1
  <2>2. n = b * q + r
    BY <1>1
  <2> QED
    BY <2>1, <2>2, Zenon
<1> HIDE DEF r, q
<1>3. ASSUME NEW k \in 1..size PROVE (n + k) % b = (r + k) % b
  <2>1. k \in Nat /\ r + k \in Nat /\ n + k \in Nat
    BY <1>1, <1>2, <1>3
  <2>2. \A a \in Nat : a % b \in 0..(b - 1) /\ a \div b \in Nat /\ a = b * (a \div b) + (a % b)
    BY <1>1
  <2> DEFINE t == (r + k) % b
             v == (r + k) \div b
             t2 == (n + k) % b
             v2 == (n + k) \div b
  <2>3. t \in 0..(b - 1) /\ v \in Nat /\ r + k = b * v + t
    BY <2>1, <2>2, Zenon
  <2>4. t2 \in 0..(b - 1) /\ v2 \in Nat /\ n + k = b * v2 + t2
    BY <2>1, <2>2, Zenon
  <2> HIDE DEF t, v, t2, v2
  <2>5. b * (q + v) = b * q + b * v /\ b * q \in Nat /\ b * v \in Nat /\ b * v2 \in Nat /\ q + v \in Nat
    BY <1>1, <1>2, <2>3, <2>4
  <2>6. b * (q + v) + t = b * v2 + t2
    <3> DEFINE x == b * q
               y == b * v
               z == b * v2
    <3>1. x \in Nat /\ y \in Nat /\ z \in Nat /\ n = x + r /\ r + k = y + t /\ n + k = z + t2 /\ b * (q + v) = x + y
      BY <1>2, <2>3, <2>4, <2>5, Zenon
    <3> HIDE DEF x, y, z
    <3>2. (x + y) + t = z + t2
      BY <1>1, <1>2, <2>1, <2>3, <2>4, <3>1
    <3> QED
      BY <3>1, <3>2, Zenon DEF z
  <2> QED
    BY <1>1, <2>3, <2>4, <2>5, <2>6, Remainder, Zenon DEF t, t2
<1>4. \A k \in 1..size : (n + k) % b = (r + k) % b
  BY <1>3, Zenon
<1> QED
  BY <1>2, <1>4, Zenon DEF Data, b, r

-----------------------------------------------------------------------------
\* The channels of which nothing is promised any more.
Broken(c) == \/ crashed \/ c[1] < conn
             \/ c[1] = conn /\ (c[2] \in stale \/ CutOff(c[2]))

\* CutOff: the stream did not accept all that is sent of the last record.
LEMMA CutOffIs ==
    ASSUME NEW in \in Seq(Seq(Byte)), in # <<>>
    PROVE  LET size == Len(in[Len(in)])
           IN  size + HeaderSize * ((size + MaxFragment - 1) \div MaxFragment) = Len(Framed(in[Len(in)], 0))
<1>1. in[Len(in)] \in Seq(Byte)
  BY WithoutLast, Zenon
<1> QED
  BY <1>1, FramedLength, Zenon

\* Some channels break.
LEMMA BreakIs ==
    ASSUME \A d \in Chan : Broken(d) => Broken(d)',
           \A d \in Chan : Broken(d)' \/ (input'[d] = input[d] /\ output'[d] = output[d])
    PROVE  Channel!Break
<1> DEFINE b == [c \in Chan |-> \/ crashed' \/ c[1] < conn'
                                \/ c[1] = conn' /\ (c[2] \in stale' \/ CutOff(c[2])')]
<1>1. \A d \in Chan : b[d] <=> Broken(d)'
  BY Zenon DEF Broken
<1>2. b \in [Chan -> BOOLEAN]
  BY Zenon
<1> HIDE DEF b
<1>3. /\ b \in [Chan -> BOOLEAN]
      /\ \A d \in Chan : Broken(d) => b[d]
      /\ \A d \in Chan : b[d] \/ (input'[d] = input[d] /\ output'[d] = output[d])
  BY <1>1, <1>2, Zenon
<1> QED
  BY <1>3, Zenon DEF Channel!Break, b, Broken

\* No channel breaks, and none is mended.
LEMMA SameBroken ==
    ASSUME \A d \in Chan : Broken(d)' <=> Broken(d)
    PROVE  [c \in Chan |-> \/ crashed \/ c[1] < conn
                           \/ c[1] = conn /\ (c[2] \in stale \/ CutOff(c[2]))]'
             = [c \in Chan |-> \/ crashed \/ c[1] < conn
                               \/ c[1] = conn /\ (c[2] \in stale \/ CutOff(c[2]))]
BY Zenon DEF Broken

\* The members of Chan.
LEMMA ChanParts ==
    ASSUME QuicType, NEW d \in Chan
    PROVE  /\ d[1] \in 1..MaxConnections /\ d[1] \in Nat /\ d[2] \in Stream /\ d = <<d[1], d[2]>>
           /\ ~(d[1] < d[1])
<1>1. d[1] \in 1..MaxConnections /\ d[2] \in Stream /\ d = <<d[1], d[2]>>
  BY DEF Chan
<1>2. MaxConnections \in Nat
  BY ChanIs, Zenon
<1>3. d[1] \in Nat /\ ~(d[1] < d[1])
  BY <1>1, <1>2
<1> QED
  BY <1>1, <1>3, Zenon

\* A record is sent: the channel carries it, or breaks.
LEMMA QuicSendChannel ==
    ASSUME QuicInv, NEW s \in Stream, NEW size \in Sizes, NEW room \in Rooms,
           Send(s, size, room)
    PROVE  Channel!Next
<1>0. PICK c : c = <<conn, s>>
  BY Zenon
<1> DEFINE record == Data(Len(input[c]), size)
<1>1. QuicType /\ Streams
  BY Zenon DEF QuicInv
<1>2. /\ ~crashed /\ Len(input[c]) = Len(output[c])
      /\ input' = [input EXCEPT ![c] = Append(@, record)]
      /\ \E m : accepted' = [accepted EXCEPT ![s] = m]
      /\ UNCHANGED <<conn, output, stale, crashed>>
  BY <1>0, Zenon DEF Send
<1>3. c \in Chan /\ c[1] = conn /\ c[2] = s /\ input[c] \in Seq(Seq(Byte)) /\ accepted[s] \in Nat
  BY <1>0, <1>1, ChanIs, Zenon
<1>4. record \in Records
  <2>1. size \in Nat /\ Len(input[c]) \in Nat
    BY <1>3, RecordMarkingAssumption, QuicRecordAssumption
  <2>2. Len(input[c]) % ByteValues \in 0..(ByteValues - 1) /\ record = Data(Len(input[c]) % ByteValues, size)
    BY <2>1, DataRepeats, Zenon
  <2> HIDE DEF record
  <2> QED
    BY <2>2 DEF Records
<1> HIDE DEF record
<1>5. \A d \in Chan : d # c => input'[d] = input[d] /\ output'[d] = output[d] /\ (Broken(d)' <=> Broken(d))
  <2> SUFFICES ASSUME NEW d \in Chan, d # c
               PROVE  input'[d] = input[d] /\ output'[d] = output[d] /\ (Broken(d)' <=> Broken(d))
    BY Zenon
  <2>1. input'[d] = input[d] /\ output'[d] = output[d]
    BY <1>1, <1>2, <1>3, Zenon DEF QuicType
  <2>2. d = <<d[1], d[2]>> /\ d[2] \in Stream
    BY <1>1, ChanParts, Zenon
  <2>3. CASE d[1] = conn
    <3>1. d[2] # s /\ d = <<conn, d[2]>>
      BY <1>0, <2>2, <2>3, Zenon
    <3>2. accepted'[d[2]] = accepted[d[2]] /\ input'[<<conn, d[2]>>] = input[<<conn, d[2]>>]
      BY <1>1, <1>2, <2>1, <2>2, <3>1, Zenon DEF QuicType
    <3>3. CutOff(d[2])' <=> CutOff(d[2])
      BY <1>2, <3>2, Zenon DEF CutOff
    <3> QED
      BY <1>2, <2>1, <3>3, Zenon DEF Broken
  <2>4. CASE d[1] # conn
    BY <1>2, <2>1, <2>4, Zenon DEF Broken
  <2> QED
    BY <2>3, <2>4, Zenon
<1>6. CASE Broken(c)'
  <2>1. \A d \in Chan : Broken(d) => Broken(d)'
    BY <1>5, <1>6, Zenon
  <2>2. \A d \in Chan : Broken(d)' \/ (input'[d] = input[d] /\ output'[d] = output[d])
    BY <1>5, <1>6, Zenon
  <2>3. Channel!Break
    BY <2>1, <2>2, BreakIs, Zenon
  <2> QED
    BY <2>3, Zenon DEF Channel!Next
<1>7. CASE ~Broken(c)'
  <2>1. s \notin stale
    BY <1>2, <1>3, <1>7, Zenon DEF Broken
  <2>2. Idle(input[c], output[c], accepted[s], wire[s], On(contexts, s))
    <3>1. StreamOK(input[c], output[c], accepted[s], wire[s], On(contexts, s))
      BY <1>0, <1>1, <2>1, Zenon DEF Streams
    <3> QED
      BY <1>2, <1>3, <3>1, IdleIs, Zenon
  <2>3. ~CutOff(s)
    <3> SUFFICES ASSUME CutOff(s) PROVE FALSE
      BY Zenon
    <3> DEFINE last == input[c][Len(input[c])]
               whole == Len(last) + HeaderSize * ((Len(last) + MaxFragment - 1) \div MaxFragment)
    <3>1. input[c] # <<>> /\ accepted[s] < whole
      BY <1>0, Zenon DEF CutOff
    <3>2. whole = Len(Framed(last, 0))
      BY <1>3, <3>1, CutOffIs, Zenon
    <3>3. accepted[s] = whole
      BY <2>2, <3>1, <3>2, Zenon DEF Idle
    <3> HIDE DEF whole
    <3> QED
      BY <1>3, <3>1, <3>3
  <2>4. ~Broken(c)
    BY <1>1, <1>2, <1>3, <2>1, <2>3, ChanParts, Zenon DEF Broken
  <2>5. \A d \in Chan : Broken(d)' <=> Broken(d)
    BY <1>5, <1>7, <2>4, Zenon
  <2>6. input[c] = output[c]
    BY <2>2, Zenon DEF Idle
  <2> DEFINE b == [d \in Chan |-> \/ crashed \/ d[1] < conn
                                  \/ d[1] = conn /\ (d[2] \in stale \/ CutOff(d[2]))]
  <2>7. b' = b
    BY <2>5, SameBroken, Zenon
  <2>8. ~b[c]
    BY <1>3, <2>4, Zenon DEF Broken
  <2>9. Channel!Send(c)
    BY <1>2, <1>4, <2>6, <2>7, <2>8, Zenon DEF Channel!Send
  <2> QED
    BY <1>3, <2>9, Zenon DEF Channel!Next
<1> QED
  BY <1>6, <1>7, Zenon

\* A read: the channel delivers the record, or nothing, or breaks with all others.
LEMMA QuicReadChannel ==
    ASSUME QuicInv, NEW s \in Stream, NEW n \in Nat \ {0}, Readable(s, n)
    PROVE  Channel!Next
<1> DEFINE list == WithContext(s)
           k == ContextOf(list, s)
           old == list[k]
           bytes == SubSeq(wire[s], 1, n)
           left == SubSeq(wire[s], n + 1, Len(wire[s]))
           x == TakeBytes(old, bytes)
           c == <<conn, s>>
<1>1. QuicType
  BY Zenon DEF QuicInv
<1>2. /\ ~crashed /\ n <= Len(wire[s])
      /\ \/ crashed' = TRUE
         \/ output' = output /\ crashed' = crashed
         \/ x.full /\ output' = [output EXCEPT ![c] = Append(@, x.payloads)] /\ crashed' = crashed
      /\ UNCHANGED <<conn, input, accepted, stale>>
  BY Zenon DEF Readable
<1>3. /\ c \in Chan /\ c[1] = conn /\ c[2] = s /\ input[c] \in Seq(Seq(Byte)) /\ output[c] \in Seq(Seq(Byte))
      /\ wire[s] \in Seq(Byte)
  BY <1>1, ChanIs, Zenon
<1>4. s \notin stale /\ x.full => Append(output[c], x.payloads) = input[c]
  BY <1>2, ReadKeeps, Zenon
<1>5. x \in Context
  <2>1. n \in 0..Len(wire[s])
    BY <1>2, <1>3
  <2>2. bytes \in Seq(Byte)
    BY <1>3, <2>1, Cut, Zenon
  <2>3. \A b \in Seq(Byte) : TakeBytes(old, b) \in Context
    BY ReadContext, Zenon
  <2> QED
    BY <2>2, <2>3, Zenon
<1> HIDE DEF list, k, old, bytes, left, x, c
<1>6. CASE crashed' = TRUE
  <2>1. \A d \in Chan : Broken(d)'
    BY <1>6, Zenon DEF Broken
  <2>2. Channel!Break
    BY <2>1, BreakIs, Zenon
  <2> QED
    BY <2>2, Zenon DEF Channel!Next
<1>7. ASSUME crashed' = crashed PROVE \A d \in Chan : Broken(d)' <=> Broken(d)
  BY <1>2, <1>7, Zenon DEF Broken, CutOff
<1>8. CASE output' = output /\ crashed' = crashed
  <2>1. Channel!Break
    BY <1>2, <1>7, <1>8, BreakIs, Zenon
  <2> QED
    BY <2>1, Zenon DEF Channel!Next
<1>9. CASE x.full /\ output' = [output EXCEPT ![c] = Append(@, x.payloads)] /\ crashed' = crashed
  <2>1. CASE Broken(c)
    <3>1. \A d \in Chan : d # c => output'[d] = output[d]
      BY <1>1, <1>3, <1>9, Zenon DEF QuicType
    <3>2. \A d \in Chan : Broken(d)' \/ (input'[d] = input[d] /\ output'[d] = output[d])
      BY <1>2, <1>7, <1>9, <2>1, <3>1, Zenon
    <3>3. Channel!Break
      BY <1>7, <1>9, <3>2, BreakIs, Zenon
    <3> QED
      BY <3>3, Zenon DEF Channel!Next
  <2>2. CASE ~Broken(c)
    <3>1. s \notin stale
      BY <1>3, <2>2, Zenon DEF Broken
    <3>2. Append(output[c], x.payloads) = input[c]
      BY <1>4, <1>9, <3>1, Zenon
    <3> DEFINE in == input[c]
               out == output[c]
               e == x.payloads
    <3>3. e \in Seq(Byte) /\ in \in Seq(Seq(Byte)) /\ out \in Seq(Seq(Byte)) /\ in = Append(out, e)
      <4>1. x.payloads \in Seq(Byte)
        BY <1>5, Zenon DEF Context
      <4> QED
        BY <1>3, <3>2, <4>1, Zenon
    <3>4. output' = [output EXCEPT ![c] = Append(@, e)]
      BY <1>9, Zenon
    <3> HIDE DEF in, out, e
    <3>5. Len(out) < Len(in) /\ in[Len(out) + 1] = e
      BY <3>3, AppendIs
    <3>6. Len(output[c]) < Len(input[c]) /\ output' = [output EXCEPT ![c] = Append(@, input[c][Len(output[c]) + 1])]
      BY <3>4, <3>5, Zenon DEF in, out
    <3> DEFINE b == [d \in Chan |-> \/ crashed \/ d[1] < conn
                                    \/ d[1] = conn /\ (d[2] \in stale \/ CutOff(d[2]))]
    <3>7. b' = b
      BY <1>7, <1>9, SameBroken, Zenon
    <3>8. ~b[c]
      BY <1>3, <2>2, Zenon DEF Broken
    <3>9. Channel!Deliver(c)
      BY <1>2, <3>6, <3>7, <3>8, Zenon DEF Channel!Deliver
    <3> QED
      BY <1>3, <3>9, Zenon DEF Channel!Next
  <2> QED
    BY <2>1, <2>2, Zenon
<1> QED
  BY <1>2, <1>6, <1>8, <1>9, Zenon

\* The connection ends: its channels break.
LEMMA QuicCloseChannel ==
    ASSUME QuicInv, NEW same_address \in BOOLEAN, ConnClosed(same_address)
    PROVE  Channel!Next
<1>1. QuicType
  BY Zenon DEF QuicInv
<1>2. ~crashed /\ conn' = conn + 1 /\ UNCHANGED <<input, output, crashed>>
  BY Zenon DEF ConnClosed
<1>3. conn \in Nat
  BY <1>1, ChanIs, Zenon
<1>4. \A d \in Chan : d[1] < conn \/ d[1] = conn => d[1] < conn'
  <2>1. \A d \in Chan : d[1] \in Nat
    BY <1>1, ChanParts, Zenon
  <2>2. \A a \in Nat : a < conn \/ a = conn => a < conn'
    BY <1>2, <1>3
  <2> QED
    BY <2>1, <2>2, Zenon
<1>5. \A d \in Chan : Broken(d) => Broken(d)'
  BY <1>2, <1>4, Zenon DEF Broken
<1>6. Channel!Break
  BY <1>2, <1>5, BreakIs, Zenon
<1> QED
  BY <1>6, Zenon DEF Channel!Next

\* The safety part of ImplementsChannel over QUIC: every step is one of the channels, or
\* leaves them alone.
THEOREM QuicChannel == Spec => Channel!Init /\ [][Channel!Next]_(Channel!vars)
<1>1. Init => Channel!Init
  <2> SUFFICES ASSUME Init PROVE Channel!Init
    BY Zenon
  <2>1. /\ conn = 1 /\ input = [c \in Chan |-> <<>>] /\ output = [c \in Chan |-> <<>>]
        /\ stale = {} /\ ~crashed
    BY Zenon DEF Init
  <2>2. QuicType
    BY QuicInit, Zenon DEF QuicInv
  <2>3. ASSUME NEW d \in Chan PROVE ~Broken(d)
    <3>1. d[1] \in 1..MaxConnections /\ MaxConnections \in Nat /\ d[2] \in Stream /\ d = <<d[1], d[2]>>
      BY <2>2, ChanIs, ChanParts, Zenon
    <3>2. ~(d[1] < conn)
      BY <2>1, <3>1
    <3>3. d[1] = conn => ~CutOff(d[2])
      BY <2>1, <3>1, Zenon DEF CutOff
    <3> QED
      BY <2>1, <3>2, <3>3, Zenon DEF Broken
  <2> QED
    BY <2>1, <2>3, Zenon DEF Channel!Init, Broken
<1>2. QuicInv /\ [Next]_vars => [Channel!Next]_(Channel!vars)
  <2> SUFFICES ASSUME QuicInv, [Next]_vars PROVE [Channel!Next]_(Channel!vars)
    BY Zenon
  <2>1. CASE UNCHANGED vars
    BY <2>1, Zenon DEF vars, Channel!vars, Chan, CutOff
  <2>2. ASSUME NEW s \in Stream, NEW size \in Sizes, NEW room \in Rooms, Send(s, size, room)
        PROVE  Channel!Next
    BY <2>2, QuicSendChannel, Zenon
  <2>3. ASSUME NEW s \in Stream, NEW n \in 1..(MaxRecord * (HeaderSize + 1)), Readable(s, n)
        PROVE  Channel!Next
    <3>1. n \in Nat \ {0}
      BY RecordMarkingAssumption
    <3> QED
      BY <2>3, <3>1, QuicReadChannel, Zenon
  <2>4. ASSUME NEW same_address \in BOOLEAN, ConnClosed(same_address) PROVE Channel!Next
    BY <2>4, QuicCloseChannel, Zenon
  <2> QED
    BY <2>1, <2>2, <2>3, <2>4, Zenon DEF Next
<1>3. Spec => []QuicInv
  BY QuicInit, QuicStep, PTL DEF Spec
<1> QED
  BY <1>1, <1>2, <1>3, PTL DEF Spec
=============================================================================
