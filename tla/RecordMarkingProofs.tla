------------------------ MODULE RecordMarkingProofs -------------------------
(***************************************************************************)
(* For any sizes of bytes, headers, fragments and records: what the headers*)
(* and fragments of a record are, and that reading them undoes writing them.*)
(***************************************************************************)
EXTENDS RecordMarking, Integers, WellFoundedInduction, TLAPS

(***************************************************************************)
(* Sequences.                                                              *)
(***************************************************************************)
\* The elements of a sequence.
LEMMA ElementOf == ASSUME NEW S, NEW s \in Seq(S), NEW k \in 1..Len(s) PROVE s[k] \in S
OBVIOUS

\* The empty sequence is the only one of length 0.
LEMMA EmptySequence ==
    ASSUME NEW S
    PROVE  <<>> \in Seq(S) /\ Len(<<>>) = 0 /\ \A s \in Seq(S) : s # <<>> => Len(s) \in Nat \ {0}
OBVIOUS

\* Sequences with the same elements are equal.
LEMMA SameElements ==
    ASSUME NEW S, NEW s \in Seq(S), NEW t \in Seq(S), Len(s) = Len(t), \A k \in 1..Len(s) : s[k] = t[k]
    PROVE  s = t
OBVIOUS

\* What a sequence is with another one behind it.
LEMMA JoinIs ==
    ASSUME NEW S, NEW s \in Seq(S), NEW t \in Seq(S)
    PROVE  /\ s \o t \in Seq(S) /\ Len(s \o t) = Len(s) + Len(t)
           /\ \A k \in 1..(Len(s) + Len(t)) : (s \o t)[k] = IF k <= Len(s) THEN s[k] ELSE t[k - Len(s)]
OBVIOUS

\* Nothing before or behind a sequence.
LEMMA JoinNothing == ASSUME NEW S, NEW s \in Seq(S) PROVE s \o <<>> = s /\ <<>> \o s = s
OBVIOUS

\* Three sequences, one behind the other.
LEMMA JoinInTurn ==
    ASSUME NEW S, NEW s \in Seq(S), NEW t \in Seq(S), NEW u \in Seq(S)
    PROVE  (s \o t) \o u = s \o (t \o u)
OBVIOUS

\* A common beginning can be left out.
LEMMA CancelFirst ==
    ASSUME NEW S, NEW s \in Seq(S), NEW t \in Seq(S), NEW u \in Seq(S), s \o t = s \o u
    PROVE  t = u
<1>1. Len(s) \in Nat /\ Len(t) \in Nat /\ Len(u) \in Nat
  OBVIOUS
<1>2. Len(t) = Len(u)
  <2>1. Len(s \o t) = Len(s) + Len(t) /\ Len(s \o u) = Len(s) + Len(u)
    OBVIOUS
  <2> QED
    BY <1>1, <2>1
<1>3. ASSUME NEW k \in 1..Len(t) PROVE t[k] = u[k]
  <2>1. (s \o t)[Len(s) + k] = t[k] /\ (s \o u)[Len(s) + k] = u[k]
    BY <1>1, <1>2
  <2> QED
    BY <2>1, Zenon
<1> QED
  BY <1>2, <1>3, SameElements, Zenon

\* A part of a sequence.
LEMMA PartIs ==
    ASSUME NEW S, NEW s, NEW m \in Int, NEW n \in Int, \A k \in m..n : s[k] \in S
    PROVE  /\ SubSeq(s, m, n) \in Seq(S) /\ Len(SubSeq(s, m, n)) = IF m <= n THEN n - m + 1 ELSE 0
           /\ \A k \in 1..(n - m + 1) : SubSeq(s, m, n)[k] = s[m + k - 1]
OBVIOUS

\* All of a sequence.
LEMMA WholePart == ASSUME NEW S, NEW s \in Seq(S) PROVE SubSeq(s, 1, Len(s)) = s
OBVIOUS

\* Neighbouring parts.
LEMMA PartsJoin ==
    ASSUME NEW S, NEW s \in Seq(S), NEW m \in 1..(Len(s) + 1), NEW k \in (m - 1)..Len(s), NEW n \in k..Len(s)
    PROVE  SubSeq(s, m, k) \o SubSeq(s, k + 1, n) = SubSeq(s, m, n)
OBVIOUS

\* One more element.
LEMMA AppendIs ==
    ASSUME NEW S, NEW s \in Seq(S), NEW x \in S
    PROVE  /\ Append(s, x) \in Seq(S) /\ Append(s, x) # <<>> /\ Len(Append(s, x)) = Len(s) + 1
           /\ \A k \in 1..Len(s) : Append(s, x)[k] = s[k]
           /\ Append(s, x)[Len(s) + 1] = x
OBVIOUS

\* It is a sequence of one behind the other.
LEMMA AppendJoins == ASSUME NEW S, NEW s \in Seq(S), NEW x \in S PROVE Append(s, x) = s \o <<x>>
OBVIOUS

(***************************************************************************)
(* Numbers.                                                                *)
(***************************************************************************)

\* A non-empty set of natural numbers has a least element.
LEMMA LeastElement ==
    ASSUME NEW S \in SUBSET Nat, S # {}
    PROVE  \E x \in S : \A y \in S : x <= y
<1> DEFINE R == {ss \in Nat \X Nat : ss[1] < ss[2]}
<1>1. IsWellFoundedOn(R, Nat)
  BY NatLessThanWellFounded, Zenon DEF OpToRel
<1> HIDE DEF R
<1>2. PICK x \in S : \A y \in S : ~(<<y, x>> \in R)
  BY <1>1, WFMin, Zenon
<1>3. \A y \in S : x <= y
  <2> SUFFICES ASSUME NEW y \in S, y < x PROVE FALSE
    OBVIOUS
  <2>1. <<y, x>> \in R
    BY Zenon DEF R
  <2> QED
    BY <1>2, <2>1, Zenon
<1> QED
  BY <1>3, Zenon

-----------------------------------------------------------------------------
(***************************************************************************)
(* Headers.                                                                *)
(***************************************************************************)

\* The recursive definition of Weight defines a function.
LEMMA WeightExists ==
    ASSUME NEW size \in Nat
    PROVE  \E f : f = [k \in 0..size |-> IF k = 0 THEN 1 ELSE f[k - 1] * ByteValues]
<1> DEFINE Is(f, m) == f = [k \in 0..m |-> IF k = 0 THEN 1 ELSE f[k - 1] * ByteValues]
           without == {m \in Nat : \A f : ~Is(f, m)}
<1>1. SUFFICES ASSUME without # {} PROVE FALSE
  BY Zenon
<1>2. PICK m \in without : \A k \in without : m <= k
  BY <1>1, LeastElement, Zenon
<1>3. m # 0
  <2> DEFINE f == [k \in 0..0 |-> 1]
  <2>1. Is(f, 0)
    OBVIOUS
  <2> QED
    BY <2>1, Zenon
<1>4. m \in Nat /\ m - 1 \in Nat /\ ~(m <= m - 1)
  BY <1>3
<1>5. PICK g : Is(g, m - 1)
  <2>1. m - 1 \notin without
    BY <1>2, <1>4, Zenon
  <2> HIDE DEF Is
  <2> QED
    BY <1>4, <2>1, Zenon
<1> DEFINE f == [k \in 0..m |-> IF k = 0 THEN 1 ELSE g[k - 1] * ByteValues]
<1>6. \A k \in 0..m : k # 0 => k - 1 \in 0..(m - 1) /\ k - 1 \in 0..m
  BY <1>4
<1>7. \A k \in 0..m : k # 0 => f[k - 1] = g[k - 1]
  BY <1>5, <1>6, Zenon
<1>8. Is(f, m)
  <2>1. \A k \in 0..m : f[k] = IF k = 0 THEN 1 ELSE f[k - 1] * ByteValues
    BY <1>7, Zenon
  <2>2. f = [k \in 0..m |-> f[k]]
    BY Zenon
  <2> HIDE DEF f
  <2> QED
    BY <2>1, <2>2, Zenon
<1> QED
  BY <1>8, Zenon

\* The weights are positive.
LEMMA WeightIs ==
    /\ Weight[0] = 1
    /\ \A k \in 1..HeaderSize : Weight[k] = Weight[k - 1] * ByteValues
    /\ \A k \in 0..HeaderSize : Weight[k] \in Nat \ {0}
<1> USE RecordMarkingAssumption
<1> DEFINE Is(f) == f = [k \in 0..HeaderSize |-> IF k = 0 THEN 1 ELSE f[k - 1] * ByteValues]
<1>1. \E f : Is(f)
  BY WeightExists, Zenon
<1>2. Weight = CHOOSE f : Is(f)
  BY Zenon DEF Weight
<1>3. Is(Weight)
  BY <1>1, <1>2, Zenon
<1>4. Weight[0] = 1 /\ \A k \in 1..HeaderSize : Weight[k] = Weight[k - 1] * ByteValues
  <2>1. 0 \in 0..HeaderSize /\ \A k \in 1..HeaderSize : k \in 0..HeaderSize /\ k # 0
    OBVIOUS
  <2> QED
    BY <1>3, <2>1, Zenon
<1> HIDE DEF Is
<1> DEFINE bad == {k \in 0..HeaderSize : Weight[k] \notin Nat \ {0}}
<1>5. bad = {}
  <2> SUFFICES ASSUME bad # {} PROVE FALSE
    BY Zenon
  <2>1. PICK k \in bad : \A j \in bad : k <= j
    <3>2. 0..HeaderSize \subseteq Nat
      OBVIOUS
    <3>1. bad \in SUBSET Nat
      BY <3>2, Zenon DEF bad
    <3> HIDE DEF bad
    <3> QED
      BY <3>1, LeastElement, Zenon
  <2>2. k # 0
    BY <1>4
  <2>3. k \in 1..HeaderSize /\ k - 1 \in 0..HeaderSize /\ ~(k <= k - 1)
    BY <2>2
  <2>4. Weight[k - 1] \in Nat \ {0}
    BY <2>1, <2>3, Zenon
  <2>5. Weight[k - 1] * ByteValues \in Nat \ {0}
    BY <2>4
  <2> QED
    BY <1>4, <2>3, <2>5, Zenon
<1> QED
  BY <1>4, <1>5, Zenon

\* Dividing twice.
LEMMA DivDiv ==
    ASSUME NEW a \in Nat, NEW p \in Nat \ {0}, NEW b \in Nat \ {0}
    PROVE  p * b \in Nat \ {0} /\ a \div (p * b) = (a \div p) \div b
OBVIOUS

\* ntohl after htonl: the header that is sent is the one that is received.
LEMMA HeaderRoundTrip ==
    ASSUME NEW h \in Nat, h < Weight[HeaderSize]
    PROVE  HeaderBytes(h) \in [1..HeaderSize -> Byte] /\ HeaderOf(HeaderBytes(h)) = h
<1> USE RecordMarkingAssumption
<1> DEFINE bytes == HeaderBytes(h)
           Is(f) == f = [k \in 0..HeaderSize |-> IF k = 0 THEN 0 ELSE f[k - 1] * ByteValues + bytes[k]]
           sum == CHOOSE f : Is(f)
           top == [k \in 0..HeaderSize |-> h \div Weight[HeaderSize - k]]
<1>1. \A k \in 0..HeaderSize : Weight[HeaderSize - k] \in Nat \ {0} /\ top[k] \in Nat
  <2>1. \A k \in 0..HeaderSize : HeaderSize - k \in 0..HeaderSize
    OBVIOUS
  <2>2. \A k \in 0..HeaderSize : Weight[HeaderSize - k] \in Nat \ {0}
    BY <2>1, WeightIs, Zenon
  <2> QED
    BY <2>2
<1>2. \A k \in 1..HeaderSize : bytes[k] = top[k] % ByteValues
  <2>1. \A k \in 1..HeaderSize : k \in 0..HeaderSize
    OBVIOUS
  <2> QED
    BY <2>1, Zenon DEF HeaderBytes
<1>3. bytes \in [1..HeaderSize -> Byte]
  <2>1. \A k \in 1..HeaderSize : (h \div Weight[HeaderSize - k]) % ByteValues \in Byte
    BY <1>1 DEF Byte
  <2> QED
    BY <2>1, Zenon DEF HeaderBytes
<1>4. top[0] = 0
  BY <1>1
<1>5. \A k \in 1..HeaderSize : top[k - 1] = top[k] \div ByteValues
  <2> SUFFICES ASSUME NEW k \in 1..HeaderSize PROVE top[k - 1] = top[k] \div ByteValues
    BY Zenon
  <2>1. /\ k - 1 \in 0..HeaderSize /\ k \in 0..HeaderSize /\ HeaderSize - (k - 1) \in 1..HeaderSize
        /\ HeaderSize - (k - 1) - 1 = HeaderSize - k
    OBVIOUS
  <2>2. Weight[HeaderSize - (k - 1)] = Weight[HeaderSize - k] * ByteValues
    BY <2>1, WeightIs, Zenon
  <2>3. h \div (Weight[HeaderSize - k] * ByteValues) = (h \div Weight[HeaderSize - k]) \div ByteValues
    BY <1>1, <2>1, DivDiv
  <2> QED
    BY <2>1, <2>2, <2>3, Zenon
<1>6. \A k \in 1..HeaderSize : top[k] = top[k - 1] * ByteValues + bytes[k]
  <2> HIDE DEF top, bytes
  <2> SUFFICES ASSUME NEW k \in 1..HeaderSize PROVE top[k] = top[k - 1] * ByteValues + bytes[k]
    BY Zenon
  <2>1. top[k] \in Nat
    BY <1>1
  <2> QED
    BY <1>2, <1>5, <2>1
<1> HIDE DEF bytes
<1>7. Is(top)
  <2>2. top = [k \in 0..HeaderSize |-> top[k]]
    BY Zenon
  <2>3. \A k \in 0..HeaderSize : k # 0 => k \in 1..HeaderSize
    OBVIOUS
  <2> HIDE DEF top
  <2>1. \A k \in 0..HeaderSize : top[k] = IF k = 0 THEN 0 ELSE top[k - 1] * ByteValues + bytes[k]
    BY <1>4, <1>6, <2>3, Zenon
  <2> QED
    BY <2>1, <2>2, Zenon
<1>8. Is(sum)
  BY <1>7, Zenon
<1> HIDE DEF top, sum
<1>9. sum[0] = 0 /\ \A k \in 1..HeaderSize : sum[k] = sum[k - 1] * ByteValues + bytes[k]
  <2>1. 0 \in 0..HeaderSize /\ \A k \in 1..HeaderSize : k \in 0..HeaderSize /\ k # 0
    OBVIOUS
  <2> QED
    BY <1>8, <2>1, Zenon
<1> HIDE DEF Is
<1> DEFINE bad == {k \in 0..HeaderSize : sum[k] # top[k]}
<1>10. bad = {}
  <2> SUFFICES ASSUME bad # {} PROVE FALSE
    BY Zenon
  <2>1. PICK k \in bad : \A j \in bad : k <= j
    <3>2. 0..HeaderSize \subseteq Nat
      OBVIOUS
    <3>1. bad \in SUBSET Nat
      BY <3>2, Zenon DEF bad
    <3> HIDE DEF bad
    <3> QED
      BY <3>1, LeastElement, Zenon
  <2>2. k # 0
    BY <1>4, <1>9, Zenon
  <2>3. k \in 1..HeaderSize /\ k - 1 \in 0..HeaderSize /\ ~(k <= k - 1)
    BY <2>2
  <2>4. sum[k - 1] = top[k - 1]
    BY <2>1, <2>3, Zenon
  <2> QED
    BY <1>6, <1>9, <2>3, <2>4, Zenon
<1>11. sum[HeaderSize] = top[HeaderSize]
  BY <1>10
<1>12. top[HeaderSize] = h
  BY WeightIs DEF top
<1>13. HeaderOf(bytes) = sum[HeaderSize]
  BY Zenon DEF HeaderOf, sum, Is
<1> QED
  BY <1>3, <1>11, <1>12, <1>13, Zenon DEF bytes

-----------------------------------------------------------------------------
(***************************************************************************)
(* Fragments.                                                              *)
(***************************************************************************)

\* The header of a fragment tells its size and whether it is the last.
LEMMA FragmentIs ==
    ASSUME NEW record \in Seq(Byte), NEW offset \in 0..(Len(record) - 1)
    PROVE  /\ FragmentSize(record, offset) \in 1..MaxFragment
           /\ offset + FragmentSize(record, offset) \in (offset + 1)..Len(record)
           /\ FragmentHeader(record, offset) \in Nat
           /\ FragmentHeader(record, offset) < Weight[HeaderSize]
           /\ IsLastFragment(FragmentHeader(record, offset))
                <=> offset + FragmentSize(record, offset) = Len(record)
           /\ SizeInHeader(FragmentHeader(record, offset)) = FragmentSize(record, offset)
<1> USE RecordMarkingAssumption
<1> DEFINE size == FragmentSize(record, offset)
           flag == LastFlag
           w == Weight[HeaderSize]
           header == FragmentHeader(record, offset)
<1>1. Len(record) \in Nat /\ MaxFragment \in Nat /\ MaxFragment > 0 /\ MaxFragment < flag
  <2>1. w \in Nat
    BY WeightIs
  <2>2. flag \in Nat
    BY <2>1 DEF LastFlag
  <2> HIDE DEF flag, w
  <2>3. MaxFragment \in 1..(flag - 1)
    BY Zenon DEF flag
  <2> QED
    BY <2>2, <2>3
<1>2. size \in 1..MaxFragment /\ offset + size \in (offset + 1)..Len(record)
  <2> HIDE DEF flag
  <2> QED
    BY <1>1 DEF FragmentSize, Smaller
<1>3. flag \in Nat /\ 2 * flag <= w /\ w \in Nat
  <2>1. w \in Nat
    BY WeightIs
  <2> HIDE DEF w
  <2>2. w \div 2 \in Nat /\ 2 * (w \div 2) <= w
    BY <2>1
  <2> QED
    BY <2>1, <2>2, Zenon DEF LastFlag, w
<1>4. header = size + (IF offset + size = Len(record) THEN flag ELSE 0)
  <2> HIDE DEF flag
  <2>1. header = size + (IF Len(record) - offset = size THEN flag ELSE 0)
    BY Zenon DEF FragmentHeader, flag
  <2> HIDE DEF size, header
  <2>2. (Len(record) - offset = size) <=> offset + size = Len(record)
    BY <1>1, <1>2
  <2> QED
    BY <2>1, <2>2, Zenon
<1> HIDE DEF size, flag, w, header
<1>5. size < flag
  BY <1>1, <1>2, <1>3
<1>6. header \in Nat /\ header < w /\ (header >= flag <=> offset + size = Len(record))
  BY <1>1, <1>2, <1>3, <1>4, <1>5
<1>7. header % flag = size
  <2>1. size % flag = size /\ (size + flag) % flag = size
    BY <1>2, <1>3, <1>5
  <2> QED
    BY <1>2, <1>4, <2>1
<1> QED
  BY <1>2, <1>6, <1>7, Zenon DEF size, flag, w, header, IsLastFragment, SizeInHeader

\* The bytes of a fragment.
LEMMA FragmentBytes ==
    ASSUME NEW record \in Seq(Byte), NEW offset \in 0..(Len(record) - 1)
    PROVE  /\ HeaderBytes(FragmentHeader(record, offset)) \in Seq(Byte)
           /\ Len(HeaderBytes(FragmentHeader(record, offset))) = HeaderSize
           /\ HeaderOf(HeaderBytes(FragmentHeader(record, offset))) = FragmentHeader(record, offset)
           /\ FragmentData(record, offset) \in Seq(Byte)
           /\ Len(FragmentData(record, offset)) = FragmentSize(record, offset)
           /\ SubSeq(record, 1, offset) \o FragmentData(record, offset)
                = SubSeq(record, 1, offset + FragmentSize(record, offset))
<1> DEFINE size == FragmentSize(record, offset)
           b == HeaderBytes(FragmentHeader(record, offset))
<1>1. size \in Nat /\ size > 0 /\ offset + size \in (offset + 1)..Len(record)
  BY FragmentIs, RecordMarkingAssumption
<1>2. b \in [1..HeaderSize -> Byte] /\ HeaderOf(b) = FragmentHeader(record, offset)
  BY FragmentIs, HeaderRoundTrip, Zenon
<1> HIDE DEF size, b
<1>3. b \in Seq(Byte) /\ Len(b) = HeaderSize
  BY <1>2, RecordMarkingAssumption
<1>4. Len(record) \in Nat /\ \A i \in (offset + 1)..(offset + size) : record[i] \in Byte
  BY <1>1
<1>5. /\ SubSeq(record, offset + 1, offset + size) \in Seq(Byte)
      /\ Len(SubSeq(record, offset + 1, offset + size)) = size
  <2>1. offset + 1 \in Int /\ offset + size \in Int /\ offset + 1 <= offset + size
        /\ (offset + size) - (offset + 1) + 1 = size
    BY <1>1
  <2> QED
    BY <1>4, <2>1, PartIs, Zenon
<1>6. SubSeq(record, 1, offset) \o SubSeq(record, offset + 1, offset + size) = SubSeq(record, 1, offset + size)
  <2>1. /\ 1 \in 1..(Len(record) + 1) /\ offset \in (1 - 1)..Len(record)
        /\ offset + size \in offset..Len(record)
    BY <1>1, <1>4
  <2> QED
    BY <2>1, PartsJoin, Zenon
<1> QED
  BY <1>2, <1>3, <1>5, <1>6, Zenon DEF size, b, FragmentData

\* The recursive definition of what is sent of a record defines a function.
LEMMA FramedExists ==
    ASSUME NEW record \in Seq(Byte)
    PROVE  \E f : f = [start \in 0..Len(record) |->
                IF start = Len(record) THEN <<>>
                ELSE HeaderBytes(FragmentHeader(record, start)) \o FragmentData(record, start)
                       \o f[start + FragmentSize(record, start)]]
<1> DEFINE n == Len(record)
           E(f, start) == IF start = n THEN <<>>
                          ELSE HeaderBytes(FragmentHeader(record, start)) \o FragmentData(record, start)
                                 \o f[start + FragmentSize(record, start)]
           Is(f, m) == f = [start \in m..n |-> E(f, start)]
           without == {m \in Nat : m <= n /\ \A f : ~Is(f, n - m)}
<1>0. n \in Nat
  OBVIOUS
<1>1. SUFFICES ASSUME without # {} PROVE FALSE
  <2>1. n \notin without
    BY <1>1, Zenon
  <2> HIDE DEF Is
  <2>2. n <= n /\ n - n = 0
    BY <1>0
  <2>3. \E f : Is(f, 0)
    BY <1>0, <2>1, <2>2, Zenon
  <2> QED
    BY <2>3, Zenon DEF Is
<1>2. PICK m \in without : \A k \in without : m <= k
  BY <1>1, LeastElement, Zenon
<1>3. m # 0
  <2> DEFINE f == [start \in n..n |-> <<>>]
  <2>1. \A start \in n..n : start = n
    BY <1>0
  <2>2. Is(f, n)
    <3>1. \A start \in n..n : f[start] = E(f, start)
      BY <2>1, Zenon
    <3> QED
      BY <3>1, Zenon
  <2>3. n - 0 = n
    BY <1>0
  <2> HIDE DEF Is, n
  <2> QED
    BY <2>2, <2>3, Zenon
<1>4. m \in Nat /\ m - 1 \in Nat /\ m - 1 <= n /\ ~(m <= m - 1) /\ m <= n
  BY <1>0, <1>3
<1> DEFINE low == n - m
<1>5. low \in Nat /\ low < n /\ n - (m - 1) = low + 1
  BY <1>0, <1>4
<1>6. PICK g : Is(g, low + 1)
  <2>1. m - 1 \notin without
    BY <1>2, <1>4, Zenon
  <2> HIDE DEF Is, n
  <2>2. \E g : Is(g, n - (m - 1))
    BY <1>4, <2>1, Zenon
  <2> QED
    BY <1>5, <2>2, Zenon
<1> HIDE DEF low, n
<1> DEFINE f == [start \in low..n |-> E(g, start)]
<1>7. \A start \in low..n : start # n =>
          /\ start + FragmentSize(record, start) \in (low + 1)..n
          /\ start + FragmentSize(record, start) \in low..n
  <2> SUFFICES ASSUME NEW start \in low..n, start # n
               PROVE  /\ start + FragmentSize(record, start) \in (low + 1)..n
                      /\ start + FragmentSize(record, start) \in low..n
    BY Zenon
  <2>1. start \in 0..(Len(record) - 1)
    BY <1>0, <1>5 DEF n
  <2>2. start + FragmentSize(record, start) \in (start + 1)..n
    BY <2>1, FragmentIs, Zenon DEF n
  <2> QED
    BY <1>0, <1>5, <2>2
<1>8. \A start \in (low + 1)..n : f[start] = g[start]
  <2>1. \A start \in (low + 1)..n : start \in low..n
    BY <1>0, <1>5
  <2>2. \A start \in (low + 1)..n : g[start] = E(g, start)
    BY <1>6, Zenon
  <2> QED
    BY <2>1, <2>2, Zenon
<1>9. \A start \in low..n : E(f, start) = E(g, start)
  <2> HIDE DEF f
  <2> QED
    BY <1>7, <1>8, Zenon
<1>10. Is(f, low)
  <2>1. f = [start \in low..n |-> f[start]]
    BY Zenon
  <2>2. \A start \in low..n : f[start] = E(f, start)
    BY <1>9, Zenon
  <2> HIDE DEF f, E
  <2> QED
    BY <2>1, <2>2, Zenon
<1> QED
  BY <1>2, <1>10, Zenon DEF low

\* What is sent of a record: fragment after fragment, each a header and its data.
LEMMA FramedUnfolds ==
    ASSUME NEW record \in Seq(Byte)
    PROVE  /\ Framed(record, Len(record)) = <<>>
           /\ \A offset \in 0..(Len(record) - 1) :
                Framed(record, offset) = HeaderBytes(FragmentHeader(record, offset)) \o FragmentData(record, offset)
                                           \o Framed(record, offset + FragmentSize(record, offset))
           /\ \A offset \in 0..Len(record) : Framed(record, offset) \in Seq(Byte)
<1> DEFINE n == Len(record)
           E(f, start) == IF start = Len(record) THEN <<>>
                          ELSE HeaderBytes(FragmentHeader(record, start)) \o FragmentData(record, start)
                                 \o f[start + FragmentSize(record, start)]
           Is(f) == f = [start \in 0..Len(record) |-> E(f, start)]
           from == CHOOSE f : Is(f)
<1>0. n \in Nat
  OBVIOUS
<1>1. Is(from)
  BY FramedExists, Zenon
<1>2. \A offset : Framed(record, offset) = from[offset]
  BY Zenon DEF Framed
<1> HIDE DEF from
<1>3. \A offset \in 0..n : Framed(record, offset) = E(from, offset)
  BY <1>1, <1>2, Zenon
<1>4. Framed(record, n) = <<>>
  <2>1. n \in 0..n
    BY <1>0
  <2> QED
    BY <1>3, <2>1, Zenon
<1>5. \A offset \in 0..(n - 1) :
                Framed(record, offset) = HeaderBytes(FragmentHeader(record, offset)) \o FragmentData(record, offset)
                                           \o Framed(record, offset + FragmentSize(record, offset))
  <2>1. \A offset \in 0..(n - 1) : offset \in 0..n /\ offset # n
    BY <1>0
  <2> QED
    BY <1>2, <1>3, <2>1, Zenon
<1>6. \A offset \in 0..n : Framed(record, offset) \in Seq(Byte)
  <2> DEFINE bad == {m \in 0..n : Framed(record, n - m) \notin Seq(Byte)}
  <2> SUFFICES ASSUME bad # {} PROVE FALSE
    <3> SUFFICES ASSUME NEW offset \in 0..n, bad = {} PROVE Framed(record, offset) \in Seq(Byte)
      BY Zenon
    <3>1. n - offset \in 0..n /\ n - (n - offset) = offset
      BY <1>0
    <3> QED
      BY <3>1, Zenon
  <2>1. PICK m \in bad : \A k \in bad : m <= k
    <3>1. 0..n \subseteq Nat
      BY <1>0
    <3>2. bad \in SUBSET Nat
      BY <3>1, Zenon
    <3> HIDE DEF bad
    <3> QED
      BY <3>2, LeastElement, Zenon
  <2>2. m # 0
    <3>1. n - 0 = n
      BY <1>0
    <3>2. <<>> \in Seq(Byte)
      OBVIOUS
    <3> QED
      BY <1>4, <3>1, <3>2, Zenon
  <2> DEFINE offset == n - m
             next == offset + FragmentSize(record, offset)
  <2>3. offset \in 0..(n - 1)
    BY <1>0, <2>2
  <2>4. next \in (offset + 1)..n
    BY <2>3, FragmentIs, Zenon
  <2>5. n - next \in 0..n /\ n - (n - next) = next /\ ~(m <= n - next)
    <3> HIDE DEF next, n
    <3> QED
      BY <1>0, <2>3, <2>4
  <2>6. Framed(record, next) \in Seq(Byte)
    <3> HIDE DEF next, n
    <3>1. n - next \notin bad
      BY <2>1, <2>5, Zenon
    <3> QED
      BY <2>5, <3>1, Zenon
  <2>7. Framed(record, offset) \in Seq(Byte)
    <3>1. Framed(record, offset) = HeaderBytes(FragmentHeader(record, offset)) \o FragmentData(record, offset)
                                     \o Framed(record, next)
      BY <1>5, <2>3, Zenon
    <3>2. HeaderBytes(FragmentHeader(record, offset)) \in Seq(Byte) /\ FragmentData(record, offset) \in Seq(Byte)
      BY <2>3, FragmentBytes, Zenon
    <3> HIDE DEF next, offset
    <3> QED
      BY <2>6, <3>1, <3>2, JoinIs
  <2> QED
    BY <2>7, Zenon
<1> QED
  BY <1>4, <1>5, <1>6, Zenon

-----------------------------------------------------------------------------
(***************************************************************************)
(* Pieces of byte sequences.                                               *)
(***************************************************************************)

\* A sequence cut in two.
LEMMA Cut ==
    ASSUME NEW s \in Seq(Byte), NEW n \in 0..Len(s)
    PROVE  /\ SubSeq(s, 1, n) \in Seq(Byte) /\ Len(SubSeq(s, 1, n)) = n
           /\ SubSeq(s, n + 1, Len(s)) \in Seq(Byte) /\ Len(SubSeq(s, n + 1, Len(s))) = Len(s) - n
           /\ SubSeq(s, 1, n) \o SubSeq(s, n + 1, Len(s)) = s
<1>1. Len(s) \in Nat /\ \A i \in 1..Len(s) : s[i] \in Byte
  OBVIOUS
<1>2. SubSeq(s, 1, n) \in Seq(Byte) /\ Len(SubSeq(s, 1, n)) = n
  BY <1>1
<1>3. SubSeq(s, n + 1, Len(s)) \in Seq(Byte) /\ Len(SubSeq(s, n + 1, Len(s))) = Len(s) - n
  BY <1>1
<1>4. SubSeq(s, 1, n) \o SubSeq(s, n + 1, Len(s)) = SubSeq(s, 1, Len(s))
  <2>1. 1 \in 1..(Len(s) + 1) /\ n \in (1 - 1)..Len(s) /\ Len(s) \in n..Len(s)
    BY <1>1
  <2> QED
    BY <2>1, PartsJoin, Zenon
<1>5. SubSeq(s, 1, Len(s)) = s
  BY WholePart, Zenon
<1> QED
  BY <1>2, <1>3, <1>4, <1>5, Zenon

\* The piece that follows the first k bytes, and the rest.
LEMMA CutRest ==
    ASSUME NEW s \in Seq(Byte), NEW k \in 0..Len(s), NEW n \in 0..(Len(s) - k)
    PROVE  /\ SubSeq(s, k + 1, k + n) \in Seq(Byte) /\ Len(SubSeq(s, k + 1, k + n)) = n
           /\ SubSeq(s, k + 1, Len(s)) = SubSeq(s, k + 1, k + n) \o SubSeq(s, (k + n) + 1, Len(s))
<1>1. Len(s) \in Nat /\ \A i \in 1..Len(s) : s[i] \in Byte
  OBVIOUS
<1>2. SubSeq(s, k + 1, k + n) \in Seq(Byte) /\ Len(SubSeq(s, k + 1, k + n)) = n
  BY <1>1
<1>3. k + 1 \in 1..(Len(s) + 1) /\ k + n \in ((k + 1) - 1)..Len(s) /\ Len(s) \in (k + n)..Len(s)
  BY <1>1
<1> QED
  BY <1>2, <1>3, PartsJoin, Zenon

\* Concatenation.
LEMMA Joined ==
    /\ \A s, t \in Seq(Byte) : s \o t \in Seq(Byte) /\ Len(s \o t) = Len(s) + Len(t)
    /\ \A s, t, u \in Seq(Byte) : (s \o t) \o u = s \o (t \o u)
    /\ \A s \in Seq(Byte) : s \o <<>> = s /\ <<>> \o s = s
    /\ <<>> \in Seq(Byte)
    /\ \A s \in Seq(Byte) : Len(s) \in Nat /\ (Len(s) = 0 <=> s = <<>>)
<1>1. \A s, t \in Seq(Byte) : s \o t \in Seq(Byte) /\ Len(s \o t) = Len(s) + Len(t)
  BY JoinIs, Zenon
<1>2. \A s, t, u \in Seq(Byte) : (s \o t) \o u = s \o (t \o u)
  BY JoinInTurn
<1>3. \A s \in Seq(Byte) : s \o <<>> = s /\ <<>> \o s = s
  BY JoinNothing, Zenon
<1>4. <<>> \in Seq(Byte)
  OBVIOUS
<1>5. \A s \in Seq(Byte) : Len(s) \in Nat /\ (Len(s) = 0 <=> s = <<>>)
  BY EmptySequence
<1> QED
  BY <1>1, <1>2, <1>3, <1>4, <1>5, Zenon

\* Three sequences after each other.
LEMMA Regroup ==
    ASSUME NEW s \in Seq(Byte), NEW t \in Seq(Byte), NEW u \in Seq(Byte)
    PROVE  (s \o t) \o u = s \o (t \o u)
BY JoinInTurn

\* A sequence without its last element.
LEMMA WithoutLast ==
    ASSUME NEW S, NEW s \in Seq(S), s # <<>>
    PROVE  /\ Len(s) \in Nat /\ Len(s) >= 1 /\ s[Len(s)] \in S
           /\ SubSeq(s, 1, Len(s) - 1) \in Seq(S) /\ Len(SubSeq(s, 1, Len(s) - 1)) = Len(s) - 1
           /\ Append(SubSeq(s, 1, Len(s) - 1), s[Len(s)]) = s
<1>1. Len(s) \in Nat /\ Len(s) >= 1
  BY EmptySequence
<1>2. \A i \in 1..Len(s) : s[i] \in S
  BY ElementOf, Zenon
<1> DEFINE b == SubSeq(s, 1, Len(s) - 1)
<1>3. b \in Seq(S) /\ Len(b) = Len(s) - 1 /\ \A i \in 1..(Len(s) - 1) : b[i] = s[i]
  <2> DEFINE n == Len(s) - 1
  <2>1. 1 \in Int /\ n \in Int /\ n \in Nat
    BY <1>1
  <2>2. \A i \in 1..n : s[i] \in S
    BY <1>1, <1>2
  <2> HIDE DEF n
  <2>3. /\ SubSeq(s, 1, n) \in Seq(S)
        /\ Len(SubSeq(s, 1, n)) = n /\ \A i \in 1..n : SubSeq(s, 1, n)[i] = s[i]
    BY <2>1, <2>2, PartIs
  <2> QED
    BY <2>3, Zenon DEF n
<1> HIDE DEF b
<1>4. Append(b, s[Len(s)]) = s
  BY <1>1, <1>2, <1>3
<1> QED
  BY <1>1, <1>2, <1>3, <1>4 DEF b

\* Two sequences that are equal have equal beginnings and equal ends.
LEMMA SamePrefix ==
    ASSUME NEW a \in Seq(Byte), NEW b \in Seq(Byte), NEW x \in Seq(Byte), NEW y \in Seq(Byte),
           a \o x = b \o y, Len(a) = Len(b)
    PROVE  a = b /\ x = y
<1>1. Len(a) \in Nat /\ Len(x) \in Nat /\ Len(y) \in Nat /\ Len(b) \in Nat
  BY Joined, Zenon
<1>2. /\ \A i \in 1..(Len(a) + Len(x)) : (a \o x)[i] = IF i <= Len(a) THEN a[i] ELSE x[i - Len(a)]
      /\ \A i \in 1..(Len(b) + Len(y)) : (b \o y)[i] = IF i <= Len(b) THEN b[i] ELSE y[i - Len(b)]
  BY JoinIs, Zenon
<1>3. \A i \in 1..Len(a) : a[i] = b[i]
  <2> SUFFICES ASSUME NEW i \in 1..Len(a) PROVE a[i] = b[i]
    BY Zenon
  <2>1. i \in 1..(Len(a) + Len(x)) /\ i \in 1..(Len(b) + Len(y)) /\ i <= Len(a) /\ i <= Len(b)
    BY <1>1
  <2> QED
    BY <1>2, <2>1, Zenon
<1>4. a = b
  BY <1>3, SameElements, Zenon
<1>5. x = y
  BY <1>4, CancelFirst, Zenon
<1> QED
  BY <1>4, <1>5, Zenon

\* The record that is sent is a sequence of bytes.
LEMMA DataIs ==
    ASSUME NEW n \in Nat, NEW size \in Nat
    PROVE  Data(n, size) \in Seq(Byte) /\ Len(Data(n, size)) = size
<1> DEFINE r == Data(n, size)
<1>1. \A k \in 1..size : (n + k) % ByteValues \in Byte
  BY RecordMarkingAssumption DEF Byte
<1>2. r \in [1..size -> Byte]
  BY <1>1, Zenon DEF Data
<1> HIDE DEF r
<1>3. r \in Seq(Byte) /\ Len(r) = size
  BY <1>2
<1> QED
  BY <1>3, Zenon DEF r

\* MaxFragment is a number.
LEMMA FragmentBound == MaxFragment \in Nat \ {0}
<1>1. Weight[HeaderSize] \in Nat
  BY WeightIs, RecordMarkingAssumption
<1>2. LastFlag \in Nat
  BY <1>1 DEF LastFlag
<1>3. MaxFragment \in 1..(LastFlag - 1)
  BY RecordMarkingAssumption, Zenon
<1> QED
  BY <1>2, <1>3

\* Rounding up, a fragment at a time.
LEMMA Rounding ==
    /\ (0 + MaxFragment - 1) \div MaxFragment = 0
    /\ \A d \in 1..MaxFragment : (d + MaxFragment - 1) \div MaxFragment = 1
    /\ \A d \in Nat : d > MaxFragment =>
          (d + MaxFragment - 1) \div MaxFragment = ((d - MaxFragment) + MaxFragment - 1) \div MaxFragment + 1
    /\ \A d \in Nat : (d + MaxFragment - 1) \div MaxFragment \in Nat
<1>1. MaxFragment \in Nat \ {0}
  BY RecordMarkingAssumption, FragmentBound, Zenon
<1>2. (0 + MaxFragment - 1) \div MaxFragment = 0
  BY <1>1
<1>3. \A d \in 1..MaxFragment : (d + MaxFragment - 1) \div MaxFragment = 1
  BY <1>1
<1>4. \A d \in Nat : d > MaxFragment =>
          (d + MaxFragment - 1) \div MaxFragment = ((d - MaxFragment) + MaxFragment - 1) \div MaxFragment + 1
  BY <1>1
<1>5. \A d \in Nat : (d + MaxFragment - 1) \div MaxFragment \in Nat
  BY <1>1
<1> QED
  BY <1>2, <1>3, <1>4, <1>5, Zenon

\* How much is sent of a record: its bytes, and a header for every fragment.
LEMMA FramedLength ==
    ASSUME NEW record \in Seq(Byte)
    PROVE  Len(Framed(record, 0)) = Len(record) + HeaderSize * ((Len(record) + MaxFragment - 1) \div MaxFragment)
<1> DEFINE n == Len(record)
           L(d) == d + HeaderSize * ((d + MaxFragment - 1) \div MaxFragment)
           bad == {d \in 0..n : Len(Framed(record, n - d)) # L(d)}
<1>1. n \in Nat /\ HeaderSize \in Nat /\ MaxFragment \in Nat
  BY RecordMarkingAssumption, FragmentBound
<1>2. SUFFICES ASSUME bad # {} PROVE FALSE
  <2>1. n \in 0..n /\ n - n = 0
    BY <1>1
  <2>2. n \notin bad
    BY <1>2, Zenon
  <2> HIDE DEF n
  <2>3. Len(Framed(record, n - n)) = L(n)
    BY <2>1, <2>2, Zenon
  <2> QED
    BY <2>1, <2>3, Zenon DEF n
<1>3. bad \in SUBSET Nat
  BY <1>1
<1>4. PICK m \in bad : \A d \in bad : m <= d
  BY <1>2, <1>3, LeastElement, Zenon
<1>5. m \in Nat /\ m <= n /\ n - m \in 0..n /\ (m # 0 => n - m \in 0..(n - 1))
  BY <1>1
<1>6. L(0) = 0
  BY <1>1, Rounding
<1>7. m # 0
  <2>1. n - 0 = n
    BY <1>1
  <2>2. Framed(record, n) = <<>> /\ Len(<<>>) = 0
    BY FramedUnfolds, Zenon
  <2> QED
    BY <1>6, <2>1, <2>2, Zenon
<1> DEFINE offset == n - m
           size == FragmentSize(record, offset)
           h == HeaderBytes(FragmentHeader(record, offset))
           data == FragmentData(record, offset)
           tail == Framed(record, offset + size)
<1>8. offset \in 0..(n - 1) /\ n - offset = m
  BY <1>1, <1>5, <1>7
<1> HIDE DEF offset
<1>9. size = Smaller(m, MaxFragment)
  BY <1>8, Zenon DEF FragmentSize
<1>10. size \in 1..MaxFragment /\ offset + size \in (offset + 1)..n
  BY <1>8, FragmentIs, Zenon
<1> HIDE DEF size
<1>11. m - size \in 0..n /\ ~(m <= m - size) /\ n - (m - size) = offset + size /\ size \in Nat /\ offset + size \in 0..n
  BY <1>1, <1>5, <1>8, <1>10
<1>12. Len(tail) = L(m - size)
  <2>1. m - size \notin bad
    BY <1>4, <1>11, Zenon
  <2>2. Len(Framed(record, n - (m - size))) = L(m - size)
    BY <1>11, <2>1, Zenon
  <2> QED
    BY <1>11, <2>2, Zenon
<1>13. Framed(record, offset) = (h \o data) \o tail
  BY <1>8, FramedUnfolds, Zenon DEF size
<1>14. h \in Seq(Byte) /\ data \in Seq(Byte) /\ tail \in Seq(Byte) /\ Len(h) = HeaderSize /\ Len(data) = size
  BY <1>8, <1>11, FragmentBytes, FramedUnfolds, Zenon DEF size
<1> HIDE DEF h, data, tail
<1>15. Len(Framed(record, offset)) = (HeaderSize + size) + L(m - size)
  <2> DEFINE fragment == h \o data
  <2>1. fragment \in Seq(Byte) /\ Len(fragment) = HeaderSize + size
    BY <1>14, Joined, Zenon
  <2> HIDE DEF fragment
  <2>2. Len(fragment \o tail) = Len(fragment) + Len(tail)
    BY <1>14, <2>1, Joined, Zenon
  <2> QED
    BY <1>12, <1>13, <2>1, <2>2, Zenon DEF fragment
<1>16. L(m) = (HeaderSize + size) + L(m - size)
  <2>1. CASE m <= MaxFragment
    <3>1. size = m
      BY <1>1, <1>5, <1>9, <2>1 DEF Smaller
    <3>2. m - size = 0
      BY <1>5, <3>1
    <3>3. (m + MaxFragment - 1) \div MaxFragment = 1
      <4>1. m \in 1..MaxFragment
        BY <1>1, <1>5, <1>7, <2>1
      <4> QED
        BY <4>1, Rounding, Zenon
    <3>4. L(m) = m + HeaderSize
      BY <1>1, <1>5, <3>3
    <3>5. (HeaderSize + size) + L(m - size) = (HeaderSize + m) + 0
      BY <1>6, <3>1, <3>2, Zenon
    <3> QED
      BY <1>1, <1>5, <3>4, <3>5
  <2>2. CASE m > MaxFragment
    <3>1. size = MaxFragment
      BY <1>1, <1>5, <1>9, <2>2 DEF Smaller
    <3> DEFINE rest == m - MaxFragment
               q == (rest + MaxFragment - 1) \div MaxFragment
    <3>2. rest \in Nat /\ rest + MaxFragment = m
      BY <1>1, <1>5, <2>2
    <3>3. (m + MaxFragment - 1) \div MaxFragment = q + 1
      BY <1>5, <2>2, Rounding, Zenon
    <3>4. q \in Nat
      BY <3>2, Rounding, Zenon
    <3>5. L(m - size) = rest + HeaderSize * q
      BY <3>1, Zenon
    <3>6. L(m) = m + HeaderSize * (q + 1)
      BY <3>3, Zenon
    <3> HIDE DEF rest, q
    <3>7. HeaderSize * (q + 1) = HeaderSize * q + HeaderSize /\ HeaderSize * q \in Nat
      BY <1>1, <3>4
    <3>8. \A w \in Nat : m + (w + HeaderSize) = (HeaderSize + MaxFragment) + (rest + w)
      BY <1>1, <1>5, <3>2
    <3> QED
      BY <3>1, <3>5, <3>6, <3>7, <3>8, Zenon
  <2> QED
    BY <1>1, <1>5, <2>1, <2>2
<1> QED
  BY <1>4, <1>15, <1>16, Zenon DEF offset
=============================================================================
