---------------------- MODULE InodeCacheThreadsProofs ----------------------
(***************************************************************************)
(* For any number of threads, calls, inode numbers and paths, and any      *)
(* finite memory: as long as no removal and no update overlaps with        *)
(* another call the list of mappings is intact and the program uses no     *)
(* freed memory, and as long as no two calls overlap the linked list does  *)
(* what the list of InodeCacheSpec does.                                   *)
(***************************************************************************)
EXTENDS InodeCacheThreads, FiniteSetTheorems, WellFoundedInduction, TLAPS

AddPc == {"add", "publish"}
GetPc == {"get", "get_walk", "use", "got_none"}
UpdatePc == {"update", "update_walk", "store"}
RemovePc == {"remove", "remove_path", "new_head", "second", "free_head", "set_head", "first",
             "walk", "unlink", "free"}

NodeType == [ino : Inos \union {Root}, path : Paths \union {Root}, path_live : BOOLEAN, next : Pointers]

TypeOK ==
    /\ head \in Pointers /\ node \in [Nodes -> NodeType] /\ live \in SUBSET Nodes /\ calls \in Nat
    /\ op \in [Threads -> Calls \union {NoCall}]
    /\ pc \in [Threads -> AddPc \union GetPc \union UpdatePc \union RemovePc \union {"idle"}]
    /\ curr \in [Threads -> Pointers] /\ prev \in [Threads -> Pointers]
    /\ got \in [Threads -> Paths \union {Root, NULL}]
    /\ alone \in [Threads -> BOOLEAN] /\ safe \in SUBSET Nodes

\* A thread in a call is at a step of that call.
CallOK(t) ==
    pc[t] # "idle" =>
        /\ op[t] \in Calls
        /\ \/ op[t].kind = "add" /\ pc[t] \in AddPc
           \/ op[t].kind = "get" /\ pc[t] \in GetPc
           \/ op[t].kind = "update" /\ pc[t] \in UpdatePc
           \/ op[t].kind \in {"remove", "remove_path"} /\ pc[t] \in RemovePc

\* Only additions and look-ups overlap, and a call that is alone has no other beside it.
OverlapOK ==
    \A t, u \in Threads : t # u /\ pc[t] # "idle" /\ pc[u] # "idle" =>
        clash = "adds" /\ op[t].kind \in {"add", "get"} /\ ~alone[t]

\* The i-th address of a list, and NULL behind its end.
At(s, i) == IF i \in 1..Len(s) THEN s[i] ELSE NULL

\* In the heap nd the pointer p leads to the list s, in which no address is repeated.
Linked(nd, p, s) ==
    /\ s \in Seq(Nodes)
    /\ \A i, j \in 1..Len(s) : s[i] = s[j] => i = j
    /\ p = At(s, 1)
    /\ \A i \in 1..Len(s) : nd[s[i]].next = At(s, i + 1)

\* The list ends with the mapping of the mounted directory.
EndsInRoot(nd, s) ==
    s # <<>> /\ nd[s[Len(s)]].ino = Root /\ nd[s[Len(s)]].path = Root

\* The mappings of the list and their paths are allocated.
Allocated(nd, lv, s) ==
    \A i \in 1..Len(s) : s[i] \in lv /\ nd[s[i]].path_live

Elements(s) == {s[i] : i \in 1..Len(s)}

\* The mapping that a call looks for.
Matches(t, n) ==
    IF op[t].kind \in {"remove", "get"} THEN node[n].ino = op[t].ino ELSE node[n].path = op[t].path

\* The call looked at the mappings before the k-th of the list, and none was it.
Passed(t, k) == \A i \in 1..(k - 1) : ~Matches(t, List[i])

\* The list that starts at the head.  Its first mapping is freed before the head is
\* moved, the path of one is freed before the new one is stored.
HeadOK ==
    /\ Linked(node, head, List) /\ EndsInRoot(node, List)
    /\ \A i \in 1..Len(List) : List[i] \in live \/ (i = 1 /\ \E t \in Threads : pc[t] = "set_head")
    /\ \A i \in 1..Len(List) : node[List[i]].path_live \/ \E t \in Threads : pc[t] = "store" /\ curr[t] = List[i]
    /\ safe \subseteq Elements(List) /\ safe \subseteq live

\* An addition that is about to move the head moves it to a list in which nothing of
\* the present one is lost that may not be.
PublishOK(t) ==
    LET s == ListFrom(node, curr[t])
    IN  /\ Linked(node, curr[t], s) /\ EndsInRoot(node, s) /\ Allocated(node, live, s)
        /\ safe \subseteq Elements(s)
        /\ clash = "none" => node[curr[t]].next = head /\ node[curr[t]].ino = op[t].ino
                             /\ node[curr[t]].path = op[t].path

\* A look-up walks along allocated mappings, those of the list as long as nothing overlaps.
GetOK(t) ==
    /\ pc[t] = "get_walk" =>
        /\ Linked(node, curr[t], ListFrom(node, curr[t])) /\ Allocated(node, live, ListFrom(node, curr[t]))
        /\ clash = "none" => \E k \in 1..(Len(List) + 1) : curr[t] = At(List, k) /\ Passed(t, k)
    /\ pc[t] = "use" =>
        /\ curr[t] \in live /\ node[curr[t]].path = got[t] /\ node[curr[t]].path_live
        /\ clash = "none" => \E k \in 1..Len(List) : curr[t] = List[k] /\ Passed(t, k) /\ Matches(t, List[k])
    /\ pc[t] = "got_none" => got[t] = NULL /\ (clash = "none" => Passed(t, Len(List) + 1))

UpdateOK(t) ==
    /\ pc[t] = "update_walk" => \E k \in 1..(Len(List) + 1) : curr[t] = At(List, k) /\ Passed(t, k)
    /\ pc[t] = "store" => \E k \in 1..Len(List) : curr[t] = List[k] /\ Passed(t, k) /\ Matches(t, List[k])

RemoveOK(t) ==
    /\ pc[t] = "new_head" => Matches(t, head)
    /\ pc[t] = "second" => ~Matches(t, head)
    /\ pc[t] \in {"free_head", "set_head"} => Matches(t, head) /\ curr[t] = At(List, 2)
    /\ pc[t] = "set_head" => head \notin live
    /\ pc[t] = "first" => ~Matches(t, head) /\ curr[t] = At(List, 2)
    /\ pc[t] = "walk" => \E k \in 2..(Len(List) + 1) : curr[t] = At(List, k) /\ prev[t] = List[k - 1] /\ Passed(t, k)
    /\ pc[t] = "unlink" => \E k \in 2..Len(List) :
            curr[t] = List[k] /\ prev[t] = List[k - 1] /\ Passed(t, k) /\ Matches(t, List[k])
    /\ pc[t] = "free" => curr[t] \in live /\ curr[t] \notin Elements(List)

Intact ==
    /\ ~broken /\ TypeOK /\ OverlapOK /\ HeadOK
    /\ \A t \in Threads : /\ CallOK(t) /\ GetOK(t) /\ UpdateOK(t) /\ RemoveOK(t)
                          /\ pc[t] = "publish" => PublishOK(t)

ListInv == clash \in {"none", "adds", "any"} /\ (clash # "any" => Intact)

-----------------------------------------------------------------------------
\* A non-empty set of natural numbers has a least element.
LEMMA LeastElement ==
    ASSUME NEW S \in SUBSET Nat, S # {}
    PROVE  \E x \in S : \A y \in S : x <= y
<1> DEFINE R == {ss \in Nat \X Nat : ss[1] < ss[2]}
<1>1. IsWellFoundedOn(R, Nat)
  BY NatLessThanWellFounded, Zenon DEF OpToRel
<1> HIDE DEF R
<1>2. PICK x \in S : \A y \in S : ~(<<y, x>> \in R)
  BY <1>1, WFMin, Zenon
<1>3. \A y \in S : x <= y
  <2> SUFFICES ASSUME NEW y \in S, y < x PROVE FALSE
    OBVIOUS
  <2>1. <<y, x>> \in R
    BY Zenon DEF R
  <2> QED
    BY <1>2, <2>1, Zenon
<1> QED
  BY <1>3, Zenon

\* The function in the definition of ListFrom exists: it is defined by recursion over
\* the number of addresses that are still looked at.
LEMMA RestExists ==
    ASSUME NEW nd, NEW size \in Nat
    PROVE  \E g : g = [d \in 0..size |-> [n \in Pointers |->
                         IF n = NULL \/ d = 0 THEN <<>> ELSE <<n>> \o g[d - 1][nd[n].next]]]
<1> DEFINE E(g, d) == [n \in Pointers |->
                         IF n = NULL \/ d = 0 THEN <<>> ELSE <<n>> \o g[d - 1][nd[n].next]]
           Is(g, m) == g = [d \in 0..m |-> E(g, d)]
           without == {m \in Nat : \A g : ~Is(g, m)}
<1>1. ASSUME without # {} PROVE FALSE
  <2>1. PICK m \in without : \A k \in without : m <= k
    BY <1>1, LeastElement, Zenon
  <2>2. CASE m = 0
    <3> DEFINE g == [d \in 0..m |-> [n \in Pointers |-> <<>>]]
    <3>1. \A d \in 0..m : d = 0
      BY <2>2
    <3>2. Is(g, m)
      BY <3>1, Zenon
    <3> QED
      BY <2>1, <3>2, Zenon
  <2>3. CASE m # 0
    <3>1. m - 1 \in Nat /\ ~(m <= m - 1)
      BY <2>3
    <3>2. PICK f : Is(f, m - 1)
      <4>1. m - 1 \notin without
        BY <2>1, <3>1, Zenon
      <4> HIDE DEF Is
      <4> QED
        BY <3>1, <4>1, Zenon
    <3> DEFINE g == [d \in 0..m |-> IF d = m THEN E(f, m) ELSE f[d]]
    <3>3. \A d \in 0..m : /\ d # m => d \in 0..(m - 1)
                          /\ d # 0 => d - 1 \in 0..m /\ d - 1 # m
      BY <2>3
    <3>4. \A d \in 0..m : d # 0 => g[d - 1] = f[d - 1]
      BY <3>3, Zenon
    <3>5. \A d \in 0..m : d # m => f[d] = E(f, d)
      BY <3>2, <3>3, Zenon
    <3>6. \A d \in 0..m : g[d] = E(f, d)
      BY <3>5, Zenon
    <3>7. \A d \in 0..m : E(g, d) = E(f, d)
      <4> HIDE DEF g
      <4> QED
        BY <3>4, Zenon
    <3>8. g = [d \in 0..m |-> g[d]]
      BY Zenon
    <3>9. Is(g, m)
      <4> HIDE DEF g, E
      <4> QED
        BY <3>6, <3>7, <3>8, Zenon
    <3> QED
      BY <2>1, <3>9, Zenon
  <2> QED
    BY <2>2, <2>3, Zenon
<1>2. \E g : Is(g, size)
  <2> HIDE DEF Is
  <2> QED
    BY <1>1, Zenon
<1> QED
  BY <1>2, Zenon

\* A list without repetitions is not longer than the memory.
LEMMA ListLength ==
    ASSUME NEW s \in Seq(Nodes), \A i, j \in 1..Len(s) : s[i] = s[j] => i = j
    PROVE  Cardinality(Nodes) \in Nat /\ Len(s) <= Cardinality(Nodes)
<1>1. IsFiniteSet(Nodes) /\ Len(s) \in Nat /\ 1 \in Int
  BY InodeCacheThreadsAssumption
<1>2. Cardinality(Nodes) \in Nat
  BY <1>1, FS_CardinalityType, Zenon
<1>3. IsFiniteSet(1..Len(s)) /\ Cardinality(1..Len(s)) = Len(s)
  <2>1. IsFiniteSet(1..Len(s)) /\ Cardinality(1..Len(s)) = IF 1 > Len(s) THEN 0 ELSE Len(s) - 1 + 1
    BY <1>1, FS_Interval
  <2> QED
    BY <1>1, <2>1
<1>4. s \in [1..Len(s) -> Nodes]
  OBVIOUS
<1> QED
  BY <1>1, <1>2, <1>3, <1>4, FS_PigeonHole

\* ListFrom is the list that the pointer leads to.
LEMMA ListIs ==
    ASSUME NEW nd, NEW p, NEW s, Linked(nd, p, s)
    PROVE  ListFrom(nd, p) = s
<1> DEFINE size == Cardinality(Nodes)
           IsRest(g) == g = [d \in 0..size |-> [n \in Pointers |->
                         IF n = NULL \/ d = 0 THEN <<>> ELSE <<n>> \o g[d - 1][nd[n].next]]]
           rest == CHOOSE g : IsRest(g)
<1>1. /\ s \in Seq(Nodes) /\ Len(s) \in Nat /\ p = At(s, 1)
      /\ \A i \in 1..Len(s) : nd[s[i]].next = At(s, i + 1)
  BY DEF Linked
<1>2. size \in Nat /\ Len(s) <= size
  BY ListLength, Zenon DEF Linked
<1>3. \E g : IsRest(g)
  BY <1>2, RestExists, Zenon
<1>4. IsRest(rest)
  BY <1>3, Zenon
<1>5. ListFrom(nd, p) = rest[size][p]
  BY Zenon DEF ListFrom
<1>6. \A d \in 0..size, n \in Pointers :
        rest[d][n] = IF n = NULL \/ d = 0 THEN <<>> ELSE <<n>> \o rest[d - 1][nd[n].next]
  <2> HIDE DEF rest, size
  <2>1. \A d \in 0..size : rest[d] = [n \in Pointers |->
            IF n = NULL \/ d = 0 THEN <<>> ELSE <<n>> \o rest[d - 1][nd[n].next]]
    BY <1>4, Zenon
  <2> QED
    BY <2>1, Zenon
<1> HIDE DEF rest, IsRest, size
<1>7. \A d \in 0..size : \A i \in 1..(Len(s) + 1) :
        Len(s) + 1 - i <= d => rest[d][At(s, i)] = SubSeq(s, i, Len(s))
  <2> DEFINE Good(d) == \A i \in 1..(Len(s) + 1) :
                Len(s) + 1 - i <= d => rest[d][At(s, i)] = SubSeq(s, i, Len(s))
             bad == {d \in 0..size : ~Good(d)}
  <2> SUFFICES ASSUME bad # {} PROVE FALSE
    BY Zenon
  <2>1. PICK d \in bad : \A k \in bad : d <= k
    <3>1. bad \in SUBSET Nat
      BY <1>2
    <3> HIDE DEF bad
    <3> QED
      BY <3>1, LeastElement, Zenon
  <2>2. PICK i \in 1..(Len(s) + 1) :
            Len(s) + 1 - i <= d /\ rest[d][At(s, i)] # SubSeq(s, i, Len(s))
    BY Zenon
  <2>3. d \in 0..size /\ d \in Nat /\ i \in Nat
    BY <1>1, <1>2
  <2>4. CASE i = Len(s) + 1
    <3>1. At(s, i) = NULL /\ SubSeq(s, i, Len(s)) = <<>>
      BY <1>1, <2>4 DEF At
    <3>2. rest[d][NULL] = <<>>
      BY <1>6, <2>3, Zenon DEF Pointers
    <3> QED
      BY <2>2, <3>1, <3>2, Zenon
  <2>5. CASE i # Len(s) + 1
    <3>1. /\ i \in 1..Len(s) /\ i + 1 \in 1..(Len(s) + 1) /\ Len(s) + 1 - (i + 1) <= d - 1
          /\ d - 1 \in 0..size /\ d # 0 /\ ~(d <= d - 1)
      <4> HIDE DEF bad
      <4> QED
        BY <1>1, <1>2, <2>2, <2>3, <2>5
    <3>2. At(s, i) = s[i] /\ s[i] \in Nodes /\ s[i] # NULL
      <4> HIDE DEF bad
      <4>1. s[i] \in Nodes
        BY <1>1, <3>1
      <4> QED
        BY <3>1, <4>1, InodeCacheThreadsAssumption, Zenon DEF At
    <3>3. rest[d - 1][At(s, i + 1)] = SubSeq(s, i + 1, Len(s))
      <4>1. d - 1 \notin bad
        BY <2>1, <3>1, Zenon
      <4> QED
        BY <3>1, <4>1, Zenon
    <3>4. rest[d][s[i]] = <<s[i]>> \o rest[d - 1][nd[s[i]].next]
      BY <1>6, <2>3, <3>1, <3>2, Zenon DEF Pointers
    <3>5. rest[d][s[i]] = <<s[i]>> \o SubSeq(s, i + 1, Len(s))
      BY <1>1, <3>1, <3>3, <3>4, Zenon
    <3>6. <<s[i]>> \o SubSeq(s, i + 1, Len(s)) = SubSeq(s, i, Len(s))
      <4> HIDE DEF bad
      <4> QED
        BY <1>1, <3>1, <3>2
    <3> QED
      BY <2>2, <3>2, <3>5, <3>6, Zenon
  <2> QED
    BY <2>4, <2>5, Zenon
<1>8. rest[size][At(s, 1)] = SubSeq(s, 1, Len(s))
  <2>1. size \in 0..size /\ 1 \in 1..(Len(s) + 1) /\ Len(s) + 1 - 1 <= size
    BY <1>1, <1>2
  <2> QED
    BY <1>7, <2>1, Zenon
<1>9. SubSeq(s, 1, Len(s)) = s
  BY <1>1
<1> QED
  BY <1>1, <1>5, <1>8, <1>9, Zenon

-----------------------------------------------------------------------------
\* What a pointer leads to depends on the links of that list only.
LEMMA SameLinks ==
    ASSUME NEW nd, NEW nd2, NEW p, NEW s, Linked(nd, p, s),
           \A i \in 1..Len(s) : nd2[s[i]].next = nd[s[i]].next
    PROVE  Linked(nd2, p, s)
BY Zenon DEF Linked

\* A mapping that is linked to the list goes before it.
LEMMA Prepended ==
    ASSUME NEW nd, NEW p, NEW s, Linked(nd, p, s), NEW n \in Nodes \ Elements(s), nd[n].next = p
    PROVE  LET t == <<n>> \o s
           IN  /\ Linked(nd, n, t) /\ Len(t) = Len(s) + 1 /\ t[1] = n
               /\ \A i \in 1..Len(s) : t[i + 1] = s[i]
               /\ Elements(t) = Elements(s) \union {n}
<1> DEFINE t == <<n>> \o s
<1>1. s \in Seq(Nodes) /\ Len(s) \in Nat
  BY DEF Linked
<1>2. /\ t \in Seq(Nodes) /\ Len(t) = Len(s) + 1 /\ t[1] = n
      /\ \A i \in 1..Len(s) : t[i + 1] = s[i] /\ i + 1 \in 1..Len(t)
      /\ \A i \in 1..Len(t) : i = 1 \/ (i - 1 \in 1..Len(s) /\ t[i] = s[i - 1])
  BY <1>1
<1> HIDE DEF t
<1>3. Elements(t) = Elements(s) \union {n}
  <2>1. 1 \in 1..Len(t)
    BY <1>1, <1>2
  <2>2. ASSUME NEW x \in Elements(t) PROVE x \in Elements(s) \union {n}
    <3>1. PICK i \in 1..Len(t) : x = t[i]
      BY Zenon DEF Elements
    <3> QED
      BY <1>2, <3>1, Zenon DEF Elements
  <2>3. ASSUME NEW x \in Elements(s) PROVE x \in Elements(t)
    <3>1. PICK i \in 1..Len(s) : x = s[i]
      BY Zenon DEF Elements
    <3> QED
      BY <1>2, <3>1, Zenon DEF Elements
  <2>4. n \in Elements(t)
    BY <1>2, <2>1, Zenon DEF Elements
  <2> QED
    BY <2>2, <2>3, <2>4, Zenon
<1>4. ASSUME NEW i \in 1..Len(t), NEW j \in 1..Len(t), t[i] = t[j] PROVE i = j
  <2>1. CASE i = 1 \/ j = 1
    BY <1>2, <1>4, <2>1, Zenon DEF Elements
  <2>2. CASE i # 1 /\ j # 1
    <3>1. i - 1 \in 1..Len(s) /\ j - 1 \in 1..Len(s) /\ s[i - 1] = s[j - 1]
      BY <1>2, <1>4, <2>2, Zenon
    <3>2. i - 1 = j - 1
      BY <3>1, Zenon DEF Linked
    <3> QED
      BY <1>2, <3>2
  <2> QED
    BY <2>1, <2>2, Zenon
<1>5. \A i \in 1..Len(t) : nd[t[i]].next = At(t, i + 1)
  <2>1. nd[n].next = At(t, 2)
    <3>1. p = At(s, 1)
      BY Zenon DEF Linked
    <3>2. CASE 1 \in 1..Len(s)
      BY <1>1, <1>2, <3>1, <3>2 DEF At
    <3>3. CASE ~(1 \in 1..Len(s))
      BY <1>1, <1>2, <3>1, <3>3 DEF At
    <3> QED
      BY <3>2, <3>3, Zenon
  <2>2. ASSUME NEW i \in 1..Len(t), i # 1 PROVE nd[t[i]].next = At(t, i + 1)
    <3>1. i - 1 \in 1..Len(s) /\ t[i] = s[i - 1]
      BY <1>2, <2>2, Zenon
    <3>2. nd[s[i - 1]].next = At(s, (i - 1) + 1)
      BY <3>1, Zenon DEF Linked
    <3>3. (i - 1) + 1 = i /\ (i \in 1..Len(s) <=> i + 1 \in 1..Len(t))
      BY <1>1, <1>2, <2>2
    <3>4. At(s, i) = At(t, i + 1)
      BY <1>2, <3>3, Zenon DEF At
    <3> QED
      BY <3>1, <3>2, <3>3, <3>4, Zenon
  <2>3. 1 + 1 = 2
    OBVIOUS
  <2> QED
    BY <1>2, <2>1, <2>2, <2>3, Zenon
<1>6. n = At(t, 1)
  BY <1>1, <1>2 DEF At
<1> QED
  BY <1>2, <1>3, <1>4, <1>5, <1>6, Zenon DEF Linked, t

\* The rest of a list starts at its second mapping.
LEMMA TailLinked ==
    ASSUME NEW nd, NEW p, NEW s, Linked(nd, p, s), s # <<>>
    PROVE  LET t == Tail(s)
           IN  /\ Linked(nd, nd[p].next, t) /\ Len(t) = Len(s) - 1
               /\ \A i \in 1..Len(t) : i + 1 \in 1..Len(s) /\ t[i] = s[i + 1]
               /\ Elements(t) = Elements(s) \ {p}
<1> DEFINE t == Tail(s)
<1>1. s \in Seq(Nodes) /\ Len(s) \in Nat /\ Len(s) >= 1 /\ 1 \in 1..Len(s)
  BY DEF Linked
<1>2. /\ t \in Seq(Nodes) /\ Len(t) = Len(s) - 1
      /\ \A i \in 1..Len(t) : i + 1 \in 1..Len(s) /\ t[i] = s[i + 1]
      /\ \A i \in 1..Len(s) : i = 1 \/ (i - 1 \in 1..Len(t) /\ t[i - 1] = s[i])
  BY <1>1
<1> HIDE DEF t
<1>3. p = s[1] /\ nd[p].next = At(s, 2)
  <2>1. p = s[1]
    BY <1>1, Zenon DEF Linked, At
  <2>2. 1 + 1 = 2
    OBVIOUS
  <2> QED
    BY <1>1, <2>1, <2>2, Zenon DEF Linked
<1>4. \A i, j \in 1..Len(t) : t[i] = t[j] => i = j
  <2> SUFFICES ASSUME NEW i \in 1..Len(t), NEW j \in 1..Len(t), t[i] = t[j] PROVE i = j
    BY Zenon
  <2>1. i + 1 \in 1..Len(s) /\ j + 1 \in 1..Len(s) /\ s[i + 1] = s[j + 1]
    BY <1>2, Zenon
  <2>2. i + 1 = j + 1
    BY <2>1, Zenon DEF Linked
  <2> QED
    BY <1>1, <1>2, <2>2
<1>5. \A i \in 0..Len(t) : At(t, i + 1) = At(s, i + 2)
  <2> SUFFICES ASSUME NEW i \in 0..Len(t) PROVE At(t, i + 1) = At(s, i + 2)
    BY Zenon
  <2>1. (i + 1 \in 1..Len(t) <=> i + 2 \in 1..Len(s)) /\ (i + 1) + 1 = i + 2
    BY <1>1, <1>2
  <2> QED
    BY <1>2, <2>1, Zenon DEF At
<1>6. \A i \in 1..Len(t) : nd[t[i]].next = At(t, i + 1)
  <2> SUFFICES ASSUME NEW i \in 1..Len(t) PROVE nd[t[i]].next = At(t, i + 1)
    BY Zenon
  <2>1. i \in 0..Len(t) /\ (i + 1) + 1 = i + 2
    BY <1>1, <1>2
  <2>2. nd[s[i + 1]].next = At(s, (i + 1) + 1)
    BY <1>2, Zenon DEF Linked
  <2> QED
    BY <1>2, <1>5, <2>1, <2>2, Zenon
<1>7. nd[p].next = At(t, 1)
  <2>1. 0 \in 0..Len(t) /\ 0 + 1 = 1 /\ 0 + 2 = 2
    BY <1>1, <1>2
  <2> QED
    BY <1>3, <1>5, <2>1, Zenon
<1>8. Elements(t) = Elements(s) \ {p}
  <2>1. \A i \in 1..Len(t) : i + 1 # 1
    BY <1>1, <1>2
  <2>2. ASSUME NEW x \in Elements(t) PROVE x \in Elements(s) \ {p}
    <3>1. PICK i \in 1..Len(t) : x = t[i]
      BY Zenon DEF Elements
    <3>2. i + 1 \in 1..Len(s) /\ x = s[i + 1] /\ i + 1 # 1
      BY <1>2, <2>1, <3>1, Zenon
    <3>3. x # s[1]
      BY <1>1, <3>2, Zenon DEF Linked
    <3> QED
      BY <1>3, <3>2, <3>3, Zenon DEF Elements
  <2>3. ASSUME NEW x \in Elements(s), x # p PROVE x \in Elements(t)
    <3>1. PICK i \in 1..Len(s) : x = s[i]
      BY Zenon DEF Elements
    <3>2. i - 1 \in 1..Len(t) /\ t[i - 1] = x
      BY <1>2, <1>3, <2>3, <3>1, Zenon
    <3> QED
      BY <3>2, Zenon DEF Elements
  <2> QED
    BY <2>2, <2>3, Zenon
<1> QED
  BY <1>2, <1>4, <1>6, <1>7, <1>8, Zenon DEF Linked, t

\* A mapping is taken out of a list by linking the one before it to the one behind it.
LEMMA Dropped ==
    ASSUME NEW nd, NEW nd2, NEW p, NEW s, Linked(nd, p, s), NEW k \in 2..Len(s),
           nd2[s[k - 1]].next = nd[s[k]].next,
           \A i \in 1..Len(s) : i # k - 1 => nd2[s[i]].next = nd[s[i]].next
    PROVE  LET t == DropAt(s, k)
           IN  /\ Linked(nd2, p, t) /\ Len(t) = Len(s) - 1
               /\ \A i \in 1..Len(t) : /\ i < k => i \in 1..Len(s) /\ t[i] = s[i]
                                       /\ i >= k => i + 1 \in 1..Len(s) /\ t[i] = s[i + 1]
               /\ Elements(t) = Elements(s) \ {s[k]}
<1> DEFINE t == DropAt(s, k)
<1>1. /\ s \in Seq(Nodes) /\ Len(s) \in Nat /\ k \in Nat /\ k >= 2 /\ k <= Len(s)
      /\ k \in 1..Len(s) /\ k - 1 \in 1..Len(s)
  BY DEF Linked
<1>2. \A i \in 1..(Len(s) - 1) : /\ i < k => i \in 1..Len(s) /\ t[i] = s[i]
                                 /\ i >= k => i + 1 \in 1..Len(s) /\ t[i] = s[i + 1]
  BY <1>1 DEF DropAt
<1>3. t \in Seq(Nodes) /\ Len(t) = Len(s) - 1
  <2>1. \A i \in 1..(Len(s) - 1) : (IF i < k THEN s[i] ELSE s[i + 1]) \in Nodes
    <3> HIDE DEF t
    <3> QED
      BY <1>1
  <2>2. t \in [1..(Len(s) - 1) -> Nodes]
    BY <2>1, Zenon DEF DropAt
  <2> DEFINE n == Len(s) - 1
  <2>3. n \in Nat
    BY <1>1
  <2> HIDE DEF t, n
  <2>4. t \in [1..n -> Nodes]
    BY <2>2, Zenon DEF n
  <2>5. t \in Seq(Nodes) /\ Len(t) = n
    BY <2>3, <2>4
  <2> QED
    BY <2>5, Zenon DEF n
<1> HIDE DEF t
<1>4. \A i, j \in 1..Len(s) : s[i] = s[j] => i = j
  BY Zenon DEF Linked
<1>5. \A i, j \in 1..Len(t) : t[i] = t[j] => i = j
  <2> SUFFICES ASSUME NEW i \in 1..Len(t), NEW j \in 1..Len(t), t[i] = t[j] PROVE i = j
    BY Zenon
  <2> DEFINE a == IF i < k THEN i ELSE i + 1
             b == IF j < k THEN j ELSE j + 1
  <2>1. i \in Nat /\ j \in Nat /\ i \in 1..(Len(s) - 1) /\ j \in 1..(Len(s) - 1)
    BY <1>1, <1>3
  <2>2. a \in 1..Len(s) /\ b \in 1..Len(s) /\ s[a] = t[i] /\ s[b] = t[j]
    BY <1>1, <1>2, <2>1
  <2>3. a = b
    <3> HIDE DEF a, b
    <3> QED
      BY <1>4, <2>2, Zenon
  <2> QED
    BY <1>1, <2>1, <2>3
<1>6. p = At(t, 1)
  <2>1. 1 \in 1..(Len(s) - 1) /\ 1 < k /\ 1 \in 1..Len(t) /\ 1 \in 1..Len(s)
    BY <1>1, <1>3
  <2> QED
    BY <1>2, <2>1, Zenon DEF At, Linked
<1>7. \A i \in 1..Len(s) : nd[s[i]].next = At(s, i + 1)
  BY Zenon DEF Linked
<1>8. \A i \in 1..Len(t) : nd2[t[i]].next = At(t, i + 1)
  <2> SUFFICES ASSUME NEW i \in 1..Len(t) PROVE nd2[t[i]].next = At(t, i + 1)
    BY Zenon
  <2>1. i \in Nat /\ i \in 1..(Len(s) - 1) /\ Len(t) = Len(s) - 1
    BY <1>1, <1>3
  <2>2. CASE i < k - 1
    <3>1. i < k /\ i # k - 1 /\ i + 1 \in 1..(Len(s) - 1) /\ i + 1 < k
      BY <1>1, <2>1, <2>2
    <3>2. t[i] = s[i] /\ i \in 1..Len(s) /\ t[i + 1] = s[i + 1] /\ i + 1 \in 1..Len(s)
      BY <1>2, <2>1, <3>1, Zenon
    <3> QED
      BY <1>7, <2>1, <3>1, <3>2, Zenon DEF At
  <2>3. CASE i = k - 1
    <3>1. i < k /\ i + 1 = k /\ (k + 1 \in 1..Len(s) <=> k \in 1..Len(t)) /\ k >= k
      BY <1>1, <2>1, <2>3
    <3>2. nd2[t[i]].next = At(s, k + 1)
      BY <1>1, <1>2, <1>7, <2>1, <2>3, <3>1, Zenon
    <3>3. At(s, k + 1) = At(t, k)
      BY <1>2, <2>1, <3>1, Zenon DEF At
    <3> QED
      BY <3>1, <3>2, <3>3, Zenon
  <2>4. CASE i >= k
    <3>1. /\ i + 1 # k - 1 /\ i + 1 >= k
          /\ ((i + 1) + 1 \in 1..Len(s) <=> i + 1 \in 1..Len(t))
      BY <1>1, <2>1, <2>4
    <3>2. t[i] = s[i + 1] /\ i + 1 \in 1..Len(s)
      BY <1>2, <2>1, <2>4, Zenon
    <3>3. nd2[t[i]].next = At(s, (i + 1) + 1)
      BY <1>7, <3>1, <3>2, Zenon
    <3>4. At(s, (i + 1) + 1) = At(t, i + 1)
      BY <1>2, <2>1, <3>1, Zenon DEF At
    <3> QED
      BY <3>3, <3>4, Zenon
  <2> QED
    BY <1>1, <2>1, <2>2, <2>3, <2>4
<1>9. Elements(t) = Elements(s) \ {s[k]}
  <2>1. ASSUME NEW x \in Elements(t) PROVE x \in Elements(s) \ {s[k]}
    <3>1. PICK i \in 1..Len(t) : x = t[i]
      BY Zenon DEF Elements
    <3>2. i \in Nat /\ i \in 1..(Len(s) - 1) /\ i + 1 \in Nat
      BY <1>1, <1>3
    <3>3. PICK j \in 1..Len(s) : x = s[j] /\ j # k
      <4>1. CASE i < k
        <5>1. i # k
          BY <1>1, <3>2, <4>1
        <5> QED
          BY <1>2, <3>1, <3>2, <4>1, <5>1, Zenon
      <4>2. CASE i >= k
        <5>1. i + 1 # k
          BY <1>1, <3>2, <4>2
        <5> QED
          BY <1>2, <3>1, <3>2, <4>2, <5>1, Zenon
      <4> QED
        BY <1>1, <3>2, <4>1, <4>2
    <3> QED
      BY <1>1, <1>4, <3>3, Zenon DEF Elements
  <2>2. ASSUME NEW x \in Elements(s), x # s[k] PROVE x \in Elements(t)
    <3>1. PICK i \in 1..Len(s) : x = s[i]
      BY Zenon DEF Elements
    <3>2. i # k /\ i \in Nat
      BY <1>1, <2>2, <3>1
    <3>3. CASE i < k
      <4>1. i \in 1..(Len(s) - 1) /\ i \in 1..Len(t)
        BY <1>1, <1>3, <3>2, <3>3
      <4> QED
        BY <1>2, <3>1, <3>3, <4>1, Zenon DEF Elements
    <3>4. CASE i > k
      <4>1. i - 1 \in 1..(Len(s) - 1) /\ i - 1 \in 1..Len(t) /\ i - 1 >= k /\ (i - 1) + 1 = i
        BY <1>1, <1>3, <3>2, <3>4
      <4>2. t[i - 1] = s[(i - 1) + 1]
        BY <1>2, <4>1, Zenon
      <4>3. x = t[i - 1]
        BY <3>1, <4>1, <4>2, Zenon
      <4> QED
        BY <4>1, <4>3, Zenon DEF Elements
    <3> QED
      BY <1>1, <3>2, <3>3, <3>4
  <2> QED
    BY <2>1, <2>2, Zenon
<1> QED
  BY <1>2, <1>3, <1>5, <1>6, <1>8, <1>9, Zenon DEF Linked, t

-----------------------------------------------------------------------------
\* The list in an intact state.
LEMMA HeadIs ==
    ASSUME Intact
    PROVE  /\ List \in Seq(Nodes) /\ Len(List) \in Nat /\ Len(List) >= 1 /\ 1 \in 1..Len(List)
           /\ head \in Nodes /\ head = List[1] /\ head # NULL /\ node[head].next = At(List, 2)
           /\ \A i \in 1..Len(List) : List[i] \in Nodes /\ List[i] # NULL
           /\ \A i \in 1..Len(List) : node[List[i]].next = At(List, i + 1)
           /\ \A i, j \in 1..Len(List) : List[i] = List[j] => i = j
<1>1. Linked(node, head, List) /\ List # <<>>
  BY Zenon DEF Intact, HeadOK, EndsInRoot
<1>2. /\ List \in Seq(Nodes) /\ head = At(List, 1)
      /\ \A i \in 1..Len(List) : node[List[i]].next = At(List, i + 1)
      /\ \A i, j \in 1..Len(List) : List[i] = List[j] => i = j
  BY <1>1, Zenon DEF Linked
<1>3. /\ Len(List) \in Nat /\ Len(List) >= 1 /\ 1 \in 1..Len(List) /\ 1 + 1 = 2
      /\ \A i \in 1..Len(List) : List[i] \in Nodes
  BY <1>1, <1>2
<1>4. head = List[1]
  BY <1>2, <1>3, Zenon DEF At
<1>5. head \in Nodes /\ node[head].next = At(List, 2)
  BY <1>2, <1>3, <1>4, Zenon
<1>6. head # NULL /\ \A i \in 1..Len(List) : List[i] # NULL
  BY <1>3, <1>5, InodeCacheThreadsAssumption, Zenon
<1> QED
  BY <1>2, <1>3, <1>4, <1>5, <1>6, Zenon

\* A removal or an update that goes on has no other call beside it.
LEMMA Solo ==
    ASSUME Intact, NEW t \in Threads, pc[t] \in RemovePc \union UpdatePc
    PROVE  \A u \in Threads : u # t => pc[u] = "idle"
<1>1. pc[t] # "idle" /\ op[t].kind \notin {"add", "get"}
  BY Zenon DEF Intact, CallOK, RemovePc, UpdatePc, AddPc, GetPc
<1> QED
  BY <1>1, Zenon DEF Intact, OverlapOK

\* Unless it is about to move the head or to store a path, all of the list is allocated.
LEMMA AllAllocated ==
    ASSUME Intact, \A u \in Threads : pc[u] \notin {"set_head", "store"}
    PROVE  Allocated(node, live, List)
BY Zenon DEF Intact, HeadOK, Allocated

\* The mapping of the mounted directory is not the one a call looks for.
LEMMA RootStays ==
    ASSUME Intact, NEW t \in Threads, pc[t] # "idle", op[t].kind # "add",
           NEW k \in 1..Len(List), Matches(t, List[k])
    PROVE  k < Len(List)
<1>1. /\ op[t] \in Calls
      /\ node[List[Len(List)]].ino = Root /\ node[List[Len(List)]].path = Root
  BY Zenon DEF Intact, CallOK, HeadOK, EndsInRoot
<1>2. op[t].kind \in {"remove", "get"} => op[t].ino # Root
  BY <1>1, Zenon DEF Calls
<1>3. op[t].kind \in {"remove_path", "update"} => op[t].path # Root
  BY <1>1, Zenon DEF Calls
<1>4. op[t].kind \in {"remove", "remove_path", "update", "get"}
  BY <1>1, InodeCacheThreadsAssumption, Zenon DEF Calls
<1>5. k # Len(List)
  BY <1>1, <1>2, <1>3, <1>4, Zenon DEF Matches
<1> QED
  BY <1>5, HeadIs

\* A step of a call that has no other beside it.
LEMMA SoloStep ==
    ASSUME Intact, NEW t \in Threads, pc[t] \in RemovePc \union UpdatePc,
           \A u \in Threads : u # t => pc'[u] = pc[u],
           TypeOK', ~broken', HeadOK', CallOK(t)', UpdateOK(t)', RemoveOK(t)',
           pc'[t] \in RemovePc \union UpdatePc \union {"idle"}
    PROVE  Intact'
<1>1. \A u \in Threads : u # t => pc'[u] = "idle"
  BY Solo, Zenon
<1>2. OverlapOK'
  BY <1>1, Zenon DEF OverlapOK
<1>3. GetOK(t)' /\ pc'[t] # "publish"
  BY Zenon DEF GetOK, RemovePc, UpdatePc
<1>4. ASSUME NEW u \in Threads, u # t
      PROVE  CallOK(u)' /\ GetOK(u)' /\ UpdateOK(u)' /\ RemoveOK(u)' /\ pc'[u] # "publish"
  <2>1. pc'[u] = "idle"
    BY <1>1, <1>4, Zenon
  <2> QED
    BY <2>1, Zenon DEF CallOK, GetOK, UpdateOK, RemoveOK
<1> QED
  BY <1>2, <1>3, <1>4, Zenon DEF Intact

\* A step that changes neither the heap nor what is looked for.
LEMMA Steady ==
    ASSUME UNCHANGED <<node, head, op>>, NEW t
    PROVE  /\ List' = List
           /\ \A n : Matches(t, n)' <=> Matches(t, n)
           /\ \A k : Passed(t, k)' <=> Passed(t, k)
<1>1. List' = List
  BY Zenon DEF List
<1>2. \A n : Matches(t, n)' <=> Matches(t, n)
  BY Zenon DEF Matches
<1>3. \A k : Passed(t, k)' <=> Passed(t, k)
  BY <1>1, Zenon DEF Passed, Matches
<1> QED
  BY <1>1, <1>2, <1>3, Zenon

\* The head is in order when all of its list is allocated.
LEMMA HeadInOrder ==
    ASSUME Linked(node, head, List)', EndsInRoot(node, List)', Allocated(node, live, List)',
           (safe \subseteq Elements(List))'
    PROVE  HeadOK'
<1>1. safe' \subseteq live'
  BY Zenon DEF Elements, Allocated
<1> QED
  BY <1>1, Zenon DEF HeadOK, Allocated

\* What a step that leaves the list as it is keeps of the head.
LEMMA HeadKept ==
    ASSUME Intact, \A u \in Threads : pc[u] \notin {"set_head", "store"},
           UNCHANGED <<node, head, live, safe>>
    PROVE  HeadOK'
<1>1. List' = List
  BY Zenon DEF List
<1>2. Allocated(node, live, List)
  BY AllAllocated, Zenon
<1>3. Linked(node, head, List)' /\ EndsInRoot(node, List)' /\ (safe \subseteq Elements(List))'
  BY <1>1, Zenon DEF Intact, HeadOK
<1>4. Allocated(node, live, List)'
  BY <1>1, <1>2, Zenon
<1> QED
  BY <1>3, <1>4, HeadInOrder, Zenon

-----------------------------------------------------------------------------
\* A removal looks at the first mapping, which is allocated, and decides by it.
LEMMA RemoveFirstStep ==
    ASSUME Intact, NEW t \in Threads, RemoveFirst(t)
    PROVE  Intact'
<1>1. /\ pc[t] \in {"remove", "remove_path"} /\ pc[t] \in RemovePc
      /\ op[t].kind \in {"remove", "remove_path"} /\ op[t] \in Calls
  BY Zenon DEF Intact, RemoveFirst, CallOK, AddPc, GetPc, UpdatePc, RemovePc
<1>2. \A u \in Threads : pc[u] \notin {"set_head", "store"}
  BY <1>1, Solo, Zenon
<1>3. head \in live /\ node[head].path_live /\ head # NULL
  BY <1>2, AllAllocated, HeadIs, Zenon DEF Allocated
<1>4. /\ broken' = (broken \/ head \notin live \/ (op[t].kind # "remove" /\ ~node[head].path_live))
      /\ pc' = [pc EXCEPT ![t] = IF IsWanted(t, head) THEN "new_head" ELSE "second"]
      /\ UNCHANGED <<head, node, live, calls, op, curr, prev, got, alone, safe, clash>>
  BY <1>3, Zenon DEF RemoveFirst, UsesKey, Goto
<1>5. ~broken'
  BY <1>3, <1>4, Zenon DEF Intact
<1>6. IsWanted(t, head) <=> Matches(t, head)
  BY <1>1, Zenon DEF IsWanted, Matches
<1>7. /\ pc'[t] = IF IsWanted(t, head) THEN "new_head" ELSE "second"
      /\ \A u \in Threads : u # t => pc'[u] = pc[u]
      /\ TypeOK'
  BY <1>4, Zenon DEF Intact, TypeOK, RemovePc
<1>8. HeadOK'
  BY <1>2, <1>4, HeadKept, Zenon
<1>9. pc'[t] \in {"new_head", "second"} /\ pc'[t] \in RemovePc /\ op'[t] = op[t]
  BY <1>4, <1>7, Zenon DEF RemovePc
<1>10. CallOK(t)' /\ UpdateOK(t)'
  BY <1>1, <1>9, Zenon DEF CallOK, UpdateOK
<1>11. /\ pc'[t] = "new_head" => Matches(t, head)
       /\ pc'[t] = "second" => ~Matches(t, head)
  BY <1>6, <1>7, Zenon
<1>12. Matches(t, head)' <=> Matches(t, head)
  BY <1>4, Zenon DEF Matches
<1>13. RemoveOK(t)'
  BY <1>9, <1>11, <1>12, Zenon DEF RemoveOK
<1> QED
  BY <1>1, <1>5, <1>7, <1>8, <1>9, <1>10, <1>13, SoloStep, Zenon

\* It reads the pointer to the second mapping, its new head or where its walk begins.
LEMMA ReadSecondStep ==
    ASSUME Intact, NEW t \in Threads, ReadSecond(t)
    PROVE  Intact'
<1>1. /\ pc[t] \in {"new_head", "second"} /\ pc[t] \in RemovePc
      /\ op[t].kind \in {"remove", "remove_path"} /\ op[t] \in Calls
  BY Zenon DEF Intact, ReadSecond, CallOK, AddPc, GetPc, UpdatePc, RemovePc
<1>2. \A u \in Threads : pc[u] \notin {"set_head", "store"}
  BY <1>1, Solo, Zenon
<1>3. head \in live /\ head # NULL /\ head \in Nodes /\ node[head].next = At(List, 2)
  BY <1>2, AllAllocated, HeadIs, Zenon DEF Allocated
<1>4. /\ broken' = (broken \/ ~ {head} \subseteq live)
      /\ curr' = [curr EXCEPT ![t] = At(List, 2)]
      /\ pc' = [pc EXCEPT ![t] = IF pc[t] = "new_head" THEN "free_head" ELSE "first"]
      /\ UNCHANGED <<head, node, live, calls, op, prev, got, alone, safe, clash>>
  BY <1>3, Zenon DEF ReadSecond, Uses, Goto
<1>5. ~broken'
  BY <1>3, <1>4, Zenon DEF Intact
<1>6. At(List, 2) \in Pointers
  BY <1>3 DEF Intact, TypeOK, NodeType
<1>7. /\ pc'[t] = IF pc[t] = "new_head" THEN "free_head" ELSE "first"
      /\ curr'[t] = At(List, 2)
      /\ \A u \in Threads : u # t => pc'[u] = pc[u]
      /\ TypeOK'
  BY <1>4, <1>6, Zenon DEF Intact, TypeOK, RemovePc
<1>8. HeadOK'
  BY <1>2, <1>4, HeadKept, Zenon
<1>9. pc'[t] \in {"free_head", "first"} /\ pc'[t] \in RemovePc /\ op'[t] = op[t]
  BY <1>4, <1>7, Zenon DEF RemovePc
<1>10. CallOK(t)' /\ UpdateOK(t)'
  BY <1>1, <1>9, Zenon DEF CallOK, UpdateOK
<1>11. /\ pc'[t] = "free_head" => Matches(t, head)
       /\ pc'[t] = "first" => ~Matches(t, head)
  BY <1>1, <1>7, Zenon DEF Intact, RemoveOK
<1>12. List' = List /\ (Matches(t, head)' <=> Matches(t, head))
  BY <1>4, Zenon DEF Matches, List
<1>13. RemoveOK(t)'
  BY <1>7, <1>9, <1>11, <1>12, Zenon DEF RemoveOK
<1> QED
  BY <1>1, <1>5, <1>7, <1>8, <1>9, <1>10, <1>13, SoloStep, Zenon

\* It frees the first mapping; no other thread is in a call that could look at it.
LEMMA FreeHeadStep ==
    ASSUME Intact, NEW t \in Threads, FreeHead(t)
    PROVE  Intact' /\ List' = List
<1>1. /\ pc[t] = "free_head" /\ pc[t] \in RemovePc
      /\ op[t].kind \in {"remove", "remove_path"} /\ op[t] \in Calls
      /\ Matches(t, head) /\ curr[t] = At(List, 2)
  BY Zenon DEF Intact, FreeHead, CallOK, RemoveOK, AddPc, GetPc, UpdatePc, RemovePc
<1>2. \A u \in Threads : pc[u] \notin {"set_head", "store"}
  BY <1>1, Solo, Zenon
<1>3. Allocated(node, live, List) /\ head \in live
  BY <1>2, AllAllocated, HeadIs, Zenon DEF Allocated
<1>4. /\ broken' = (broken \/ ~ ({head} \ {NULL}) \subseteq live)
      /\ live' = live \ {head} /\ safe' = safe \ {head}
      /\ pc' = [pc EXCEPT ![t] = "set_head"]
      /\ UNCHANGED <<head, node, calls, op, curr, prev, got, alone, clash>>
  BY Zenon DEF FreeHead, Uses, Goto
<1>5. ~broken'
  BY <1>3, <1>4, Zenon DEF Intact
<1>6. /\ pc'[t] = "set_head" /\ pc'[t] \in RemovePc /\ op'[t] = op[t]
      /\ \A u \in Threads : u # t => pc'[u] = pc[u]
      /\ TypeOK'
  BY <1>4, Zenon DEF Intact, TypeOK, RemovePc
<1>7. List' = List /\ (Matches(t, head)' <=> Matches(t, head))
  BY <1>4, Zenon DEF Matches, List
<1>8. HeadOK'
  <2>1. Linked(node, head, List)' /\ EndsInRoot(node, List)'
    BY <1>4, <1>7, Zenon DEF Intact, HeadOK
  <2>2. \A i \in 1..Len(List) : i # 1 => List[i] \in live'
    BY <1>3, <1>4, HeadIs, Zenon DEF Allocated
  <2>3. \A i \in 1..Len(List) : node'[List[i]].path_live
    BY <1>3, <1>4, Zenon DEF Allocated
  <2>4. safe' \subseteq Elements(List) /\ safe' \subseteq live'
    BY <1>4, Zenon DEF Intact, HeadOK
  <2> QED
    BY <1>6, <1>7, <2>1, <2>2, <2>3, <2>4, Zenon DEF HeadOK
<1>9. CallOK(t)' /\ UpdateOK(t)'
  BY <1>1, <1>6, Zenon DEF CallOK, UpdateOK
<1>10. RemoveOK(t)'
  BY <1>1, <1>4, <1>6, <1>7, Zenon DEF RemoveOK
<1> QED
  BY <1>1, <1>5, <1>6, <1>7, <1>8, <1>9, <1>10, SoloStep, Zenon

\* It moves the head to the second mapping; the list is what it was without its first.
LEMMA SetHeadStep ==
    ASSUME Intact, NEW t \in Threads, SetHead(t)
    PROVE  Intact' /\ List' = Tail(List)
<1>1. /\ pc[t] = "set_head" /\ pc[t] \in RemovePc
      /\ op[t].kind \in {"remove", "remove_path"} /\ op[t] \in Calls
      /\ Matches(t, head) /\ curr[t] = At(List, 2) /\ head \notin live
  BY Zenon DEF Intact, SetHead, CallOK, RemoveOK, AddPc, GetPc, UpdatePc, RemovePc
<1>2. \A u \in Threads : u # t => pc[u] = "idle"
  BY <1>1, Solo, Zenon
<1>3. /\ head' = curr[t] /\ pc' = [pc EXCEPT ![t] = "idle"]
      /\ UNCHANGED <<node, live, calls, op, curr, prev, got, broken, alone, safe, clash>>
  BY Zenon DEF SetHead, Goto
<1>4. ~broken' /\ curr[t] \in Pointers
  BY <1>3, Zenon DEF Intact, TypeOK
<1>5. /\ pc'[t] = "idle"
      /\ \A u \in Threads : u # t => pc'[u] = pc[u]
      /\ TypeOK'
  BY <1>3, <1>4, Zenon DEF Intact, TypeOK
<1>6. 1 < Len(List)
  BY <1>1, HeadIs, RootStays, Zenon
<1> DEFINE s == Tail(List)
<1>7. /\ Linked(node, head', s) /\ Len(s) = Len(List) - 1
      /\ \A i \in 1..Len(s) : i + 1 \in 1..Len(List) /\ s[i] = List[i + 1]
      /\ Elements(s) = Elements(List) \ {head}
  <2>1. Linked(node, head, List) /\ List # <<>> /\ head' = node[head].next
    BY <1>1, <1>3, HeadIs, Zenon DEF Intact, HeadOK, EndsInRoot
  <2>2. /\ Linked(node, node[head].next, s) /\ Len(s) = Len(List) - 1
        /\ \A i \in 1..Len(s) : i + 1 \in 1..Len(List) /\ s[i] = List[i + 1]
        /\ Elements(s) = Elements(List) \ {head}
    BY <2>1, TailLinked, Zenon
  <2> HIDE DEF s
  <2> QED
    BY <2>1, <2>2, Zenon
<1> HIDE DEF s
<1>8. List' = s
  BY <1>3, <1>7, ListIs, Zenon DEF List
<1>9. HeadOK'
  <2>1. EndsInRoot(node, s)
    <3>1. Len(s) \in 1..Len(s) /\ Len(s) + 1 = Len(List) /\ s # <<>>
      BY <1>6, <1>7, HeadIs DEF Linked
    <3>2. s[Len(s)] = List[Len(List)]
      BY <1>7, <3>1, Zenon
    <3> QED
      BY <3>1, <3>2, Zenon DEF Intact, HeadOK, EndsInRoot
  <2>2. Allocated(node, live, s)
    <3>1. \A i \in 1..Len(s) : i + 1 # 1
      BY <1>6, <1>7, HeadIs
    <3>2. \A i \in 1..Len(List) : i # 1 => List[i] \in live
      BY Zenon DEF Intact, HeadOK
    <3>3. \A i \in 1..Len(List) : node[List[i]].path_live
      BY <1>1, <1>2, Zenon DEF Intact, HeadOK
    <3> QED
      BY <1>7, <3>1, <3>2, <3>3, Zenon DEF Allocated
  <2>3. safe \subseteq Elements(s)
    BY <1>1, <1>7, Zenon DEF Intact, HeadOK
  <2> QED
    BY <1>3, <1>7, <1>8, <2>1, <2>2, <2>3, HeadInOrder, Zenon
<1>10. CallOK(t)' /\ UpdateOK(t)' /\ RemoveOK(t)'
  BY <1>5, Zenon DEF CallOK, UpdateOK, RemoveOK
<1>11. Intact'
  BY <1>1, <1>4, <1>5, <1>9, <1>10, SoloStep, Zenon
<1> QED
  BY <1>8, <1>11, Zenon DEF s

\* Its walk begins with the first mapping behind it.
LEMMA ReadFirstStep ==
    ASSUME Intact, NEW t \in Threads, ReadFirst(t)
    PROVE  Intact'
<1>1. /\ pc[t] = "first" /\ pc[t] \in RemovePc
      /\ op[t].kind \in {"remove", "remove_path"} /\ op[t] \in Calls
      /\ ~Matches(t, head) /\ curr[t] = At(List, 2)
  BY Zenon DEF Intact, ReadFirst, CallOK, RemoveOK, AddPc, GetPc, UpdatePc, RemovePc
<1>2. \A u \in Threads : pc[u] \notin {"set_head", "store"}
  BY <1>1, Solo, Zenon
<1>3. /\ prev' = [prev EXCEPT ![t] = head] /\ pc' = [pc EXCEPT ![t] = "walk"]
      /\ UNCHANGED <<head, node, live, calls, op, curr, got, broken, alone, safe, clash>>
  BY Zenon DEF ReadFirst, Goto
<1>4. /\ pc'[t] = "walk" /\ pc'[t] \in RemovePc /\ op'[t] = op[t] /\ prev'[t] = head
      /\ \A u \in Threads : u # t => pc'[u] = pc[u]
      /\ TypeOK' /\ ~broken'
  BY <1>3, Zenon DEF Intact, TypeOK, RemovePc
<1>5. HeadOK'
  BY <1>2, <1>3, HeadKept, Zenon
<1>6. CallOK(t)' /\ UpdateOK(t)'
  BY <1>1, <1>4, Zenon DEF CallOK, UpdateOK
<1>7. RemoveOK(t)'
  <2>1. 2 \in 2..(Len(List) + 1) /\ 2 - 1 = 1 /\ \A i \in 1..(2 - 1) : i = 1
    BY HeadIs
  <2>2. Passed(t, 2)
    BY <1>1, <2>1, HeadIs, Zenon DEF Passed
  <2>3. List' = List /\ Passed(t, 2)' /\ curr'[t] = At(List, 2) /\ prev'[t] = List[2 - 1]
    BY <1>1, <1>3, <1>4, <2>1, <2>2, Steady, HeadIs, Zenon
  <2>4. \E k \in 2..(Len(List') + 1) : curr'[t] = At(List', k) /\ prev'[t] = List'[k - 1] /\ Passed(t, k)'
    BY <2>1, <2>3, Zenon
  <2> QED
    BY <1>4, <2>4, Zenon DEF RemoveOK
<1> QED
  BY <1>1, <1>4, <1>5, <1>6, <1>7, SoloStep, Zenon

\* One turn of its loop: it stops at the first mapping that matches, or at the end.
LEMMA RemoveWalkStep ==
    ASSUME Intact, NEW t \in Threads, RemoveWalk(t)
    PROVE  Intact'
<1>1. /\ pc[t] = "walk" /\ pc[t] \in RemovePc
      /\ op[t].kind \in {"remove", "remove_path"} /\ op[t] \in Calls
  BY Zenon DEF Intact, RemoveWalk, CallOK, AddPc, GetPc, UpdatePc, RemovePc
<1>2. \A u \in Threads : pc[u] \notin {"set_head", "store"}
  BY <1>1, Solo, Zenon
<1>3. PICK k \in 2..(Len(List) + 1) :
          curr[t] = At(List, k) /\ prev[t] = List[k - 1] /\ Passed(t, k)
  BY <1>1, Zenon DEF Intact, RemoveOK
<1>4. UNCHANGED <<head, node, live, calls, op, got, alone, safe, clash>>
  BY Zenon DEF RemoveWalk
<1>5. HeadOK'
  BY <1>2, <1>4, HeadKept, Zenon
<1>6. List' = List /\ op'[t] = op[t] /\ \A i : Passed(t, i)' <=> Passed(t, i)
  BY <1>4, Steady, Zenon
<1>7. \A n : Matches(t, n)' <=> Matches(t, n)
  BY <1>4, Steady, Zenon
<1>8. \A n : IsWanted(t, n) <=> Matches(t, n)
  BY <1>1, Zenon DEF IsWanted, Matches
<1>9. CASE curr[t] = NULL
  <2>1. /\ pc' = [pc EXCEPT ![t] = "idle"] /\ UNCHANGED <<broken, curr, prev>>
    BY <1>9, Zenon DEF RemoveWalk, Goto
  <2>2. /\ pc'[t] = "idle" /\ \A u \in Threads : u # t => pc'[u] = pc[u]
        /\ TypeOK' /\ ~broken'
    BY <1>4, <2>1, Zenon DEF Intact, TypeOK
  <2>3. CallOK(t)' /\ UpdateOK(t)' /\ RemoveOK(t)'
    BY <2>2, Zenon DEF CallOK, UpdateOK, RemoveOK
  <2> QED
    BY <1>1, <1>5, <2>2, <2>3, SoloStep, Zenon
<1>10. CASE curr[t] # NULL
  <2>1. k \in 1..Len(List) /\ curr[t] = List[k]
    BY <1>3, <1>10, Zenon DEF At
  <2>2. /\ curr[t] \in live /\ node[curr[t]].path_live /\ curr[t] \in Nodes
        /\ node[curr[t]].next = At(List, k + 1)
    BY <1>2, <2>1, AllAllocated, HeadIs, Zenon DEF Allocated
  <2>3. broken' = (broken \/ curr[t] \notin live \/ (op[t].kind # "remove" /\ ~node[curr[t]].path_live))
    BY <1>10, Zenon DEF RemoveWalk, UsesKey
  <2>4. ~broken'
    BY <2>2, <2>3, Zenon DEF Intact
  <2>5. CASE Matches(t, curr[t])
    <3>1. pc' = [pc EXCEPT ![t] = "unlink"] /\ UNCHANGED <<curr, prev>>
      BY <1>8, <1>10, <2>5, Zenon DEF RemoveWalk, Goto
    <3>2. /\ pc'[t] = "unlink" /\ \A u \in Threads : u # t => pc'[u] = pc[u]
          /\ TypeOK' /\ pc'[t] \in RemovePc
      BY <1>4, <3>1, Zenon DEF Intact, TypeOK, RemovePc
    <3>3. CallOK(t)' /\ UpdateOK(t)'
      BY <1>1, <1>6, <3>2, Zenon DEF CallOK, UpdateOK
    <3>4. k \in 2..Len(List)
      BY <1>3, <2>1, HeadIs
    <3>5. /\ curr'[t] = List'[k] /\ prev'[t] = List'[k - 1] /\ Passed(t, k)' /\ Matches(t, List[k])'
          /\ k \in 2..Len(List')
      BY <1>3, <1>6, <1>7, <2>1, <2>5, <3>1, <3>4, Zenon
    <3>6. RemoveOK(t)'
      BY <1>6, <3>2, <3>5, Zenon DEF RemoveOK
    <3> QED
      BY <1>1, <1>5, <2>4, <3>2, <3>3, <3>6, SoloStep, Zenon
  <2>6. CASE ~Matches(t, curr[t])
    <3>1. /\ prev' = [prev EXCEPT ![t] = curr[t]]
          /\ curr' = [curr EXCEPT ![t] = node[curr[t]].next]
          /\ pc' = pc
      BY <1>8, <1>10, <2>6, Zenon DEF RemoveWalk
    <3>2. node[curr[t]].next \in Pointers
      BY <2>2, Zenon DEF Intact, TypeOK, NodeType
    <3>3. TypeOK' /\ prev'[t] = List[k] /\ curr'[t] = At(List, k + 1)
      BY <1>4, <2>1, <2>2, <3>1, <3>2, Zenon DEF Intact, TypeOK
    <3>4. CallOK(t)' /\ UpdateOK(t)'
      BY <1>1, <1>6, <3>1, Zenon DEF CallOK, UpdateOK
    <3>5. /\ k + 1 \in 2..(Len(List) + 1) /\ (k + 1) - 1 = k
          /\ \A i \in 1..k : i = k \/ i \in 1..(k - 1)
      BY <1>3, <2>1, HeadIs
    <3>6. Passed(t, k + 1)
      BY <1>3, <2>1, <2>6, <3>5, Zenon DEF Passed
    <3>7. /\ curr'[t] = At(List', k + 1) /\ prev'[t] = List'[(k + 1) - 1] /\ Passed(t, k + 1)'
          /\ k + 1 \in 2..(Len(List') + 1)
      BY <1>6, <3>3, <3>5, <3>6, Zenon
    <3>8. RemoveOK(t)'
      BY <1>1, <3>1, <3>7, Zenon DEF RemoveOK
    <3> QED
      BY <1>1, <1>5, <2>4, <3>1, <3>3, <3>4, <3>8, SoloStep, Zenon
  <2> QED
    BY <2>5, <2>6, Zenon
<1> QED
  BY <1>9, <1>10, Zenon

\* It links the mapping before over the one it found; the list is what it was without that one.
LEMMA UnlinkStep ==
    ASSUME Intact, NEW t \in Threads, Unlink(t)
    PROVE  /\ Intact'
           /\ \E k \in 2..Len(List) :
                /\ Passed(t, k) /\ Matches(t, List[k]) /\ List' = DropAt(List, k)
                /\ \A n \in Nodes : node'[n].ino = node[n].ino /\ node'[n].path = node[n].path
<1>1. /\ pc[t] = "unlink" /\ pc[t] \in RemovePc
      /\ op[t].kind \in {"remove", "remove_path"} /\ op[t] \in Calls
  BY Zenon DEF Intact, Unlink, CallOK, AddPc, GetPc, UpdatePc, RemovePc
<1>2. \A u \in Threads : pc[u] \notin {"set_head", "store"}
  BY <1>1, Solo, Zenon
<1>3. PICK k \in 2..Len(List) :
          curr[t] = List[k] /\ prev[t] = List[k - 1] /\ Passed(t, k) /\ Matches(t, List[k])
  BY <1>1, Zenon DEF Intact, RemoveOK
<1>4. k \in 1..Len(List) /\ k - 1 \in 1..Len(List) /\ k - 1 # k
  BY <1>3, HeadIs
<1>5. /\ curr[t] \in live /\ prev[t] \in live /\ curr[t] \in Nodes /\ prev[t] \in Nodes
      /\ prev[t] # NULL /\ curr[t] # prev[t]
  BY <1>2, <1>3, <1>4, AllAllocated, HeadIs, Zenon DEF Allocated
<1>6. /\ broken' = (broken \/ ~ {prev[t], curr[t]} \subseteq live)
      /\ node' = [node EXCEPT ![prev[t]].next = node[curr[t]].next]
      /\ safe' = safe \ {curr[t]}
      /\ pc' = [pc EXCEPT ![t] = "free"]
      /\ UNCHANGED <<head, live, calls, op, curr, prev, got, alone, clash>>
  BY <1>5, Zenon DEF Unlink, Uses, Goto
<1>7. ~broken'
  BY <1>5, <1>6, Zenon DEF Intact
<1>8. node \in [Nodes -> NodeType] /\ node[curr[t]].next \in Pointers
  BY <1>5, Zenon DEF Intact, TypeOK, NodeType
<1>9. /\ node' \in [Nodes -> NodeType] /\ node'[prev[t]].next = node[curr[t]].next
      /\ \A n \in Nodes : /\ node'[n].ino = node[n].ino /\ node'[n].path = node[n].path
                          /\ node'[n].path_live = node[n].path_live
                          /\ n # prev[t] => node'[n].next = node[n].next
  BY <1>5, <1>6, <1>8 DEF NodeType
<1>10. /\ pc'[t] = "free" /\ pc'[t] \in RemovePc /\ op'[t] = op[t]
       /\ \A u \in Threads : u # t => pc'[u] = pc[u]
       /\ TypeOK'
  BY <1>6, <1>9, Zenon DEF Intact, TypeOK, RemovePc
<1> DEFINE s == DropAt(List, k)
<1>11. /\ Linked(node', head, s) /\ Len(s) = Len(List) - 1
       /\ \A i \in 1..Len(s) : /\ i < k => i \in 1..Len(List) /\ s[i] = List[i]
                               /\ i >= k => i + 1 \in 1..Len(List) /\ s[i] = List[i + 1]
       /\ Elements(s) = Elements(List) \ {List[k]}
  <2>1. \A i \in 1..Len(List) : i # k - 1 => node'[List[i]].next = node[List[i]].next
    <3> SUFFICES ASSUME NEW i \in 1..Len(List), i # k - 1
                 PROVE  node'[List[i]].next = node[List[i]].next
      BY Zenon
    <3>1. List[i] \in Nodes /\ List[i] # prev[t]
      BY <1>3, <1>4, HeadIs, Zenon
    <3> QED
      BY <1>9, <3>1, Zenon
  <2>2. node'[List[k - 1]].next = node[List[k]].next
    BY <1>3, <1>9, Zenon
  <2>3. Linked(node, head, List)
    BY Zenon DEF Intact, HeadOK
  <2> HIDE DEF s
  <2> QED
    BY <1>3, <2>1, <2>2, <2>3, Dropped DEF s
<1> HIDE DEF s
<1>12. List' = s
  BY <1>6, <1>11, ListIs, Zenon DEF List
<1>13. HeadOK'
  <2>1. EndsInRoot(node', s)
    <3>1. k < Len(List)
      BY <1>1, <1>3, <1>4, RootStays, Zenon
    <3>2. /\ Len(s) \in 1..Len(s) /\ Len(s) >= k /\ Len(s) + 1 = Len(List) /\ s # <<>>
          /\ Len(List) \in 1..Len(List)
      BY <1>3, <1>11, <3>1, HeadIs DEF Linked
    <3>3. s[Len(s)] = List[Len(List)] /\ List[Len(List)] \in Nodes
      BY <1>11, <3>2, HeadIs, Zenon
    <3>4. node[List[Len(List)]].ino = Root /\ node[List[Len(List)]].path = Root
      BY Zenon DEF Intact, HeadOK, EndsInRoot
    <3> QED
      BY <1>9, <3>2, <3>3, <3>4, Zenon DEF EndsInRoot
  <2>2. \A i \in 1..Len(s) : s[i] \in Elements(List)
    BY <1>11, Zenon DEF Elements
  <2>3. \A n \in Elements(List) : n \in live /\ node[n].path_live /\ n \in Nodes
    BY <1>2, AllAllocated, HeadIs, Zenon DEF Allocated, Elements
  <2>4. Allocated(node', live, s)
    BY <1>9, <2>2, <2>3, Zenon DEF Allocated
  <2>5. safe' \subseteq Elements(s)
    BY <1>3, <1>6, <1>11, Zenon DEF Intact, HeadOK
  <2> QED
    BY <1>6, <1>11, <1>12, <2>1, <2>4, <2>5, HeadInOrder, Zenon
<1>14. CallOK(t)' /\ UpdateOK(t)'
  BY <1>1, <1>10, Zenon DEF CallOK, UpdateOK
<1>15. RemoveOK(t)'
  BY <1>3, <1>5, <1>6, <1>10, <1>11, <1>12, Zenon DEF RemoveOK
<1>16. Intact'
  BY <1>1, <1>7, <1>10, <1>13, <1>14, <1>15, SoloStep, Zenon
<1> QED
  BY <1>3, <1>9, <1>12, <1>16, Zenon DEF s

\* It frees the mapping it has taken out of the list.
LEMMA FreeMappingStep ==
    ASSUME Intact, NEW t \in Threads, FreeMapping(t)
    PROVE  Intact' /\ List' = List
<1>1. /\ pc[t] = "free" /\ pc[t] \in RemovePc
      /\ curr[t] \in live /\ curr[t] \notin Elements(List)
  BY Zenon DEF Intact, FreeMapping, RemoveOK, RemovePc
<1>2. \A u \in Threads : pc[u] \notin {"set_head", "store"}
  BY <1>1, Solo, Zenon
<1>3. /\ broken' = (broken \/ ~ {curr[t]} \subseteq live) /\ live' = live \ {curr[t]}
      /\ pc' = [pc EXCEPT ![t] = "idle"]
      /\ UNCHANGED <<head, node, calls, op, curr, prev, got, alone, safe, clash>>
  BY Zenon DEF FreeMapping, Uses, Goto
<1>4. /\ pc'[t] = "idle" /\ \A u \in Threads : u # t => pc'[u] = pc[u]
      /\ TypeOK' /\ ~broken'
  BY <1>1, <1>3, Zenon DEF Intact, TypeOK
<1>5. List' = List
  BY <1>3, Zenon DEF List
<1>6. HeadOK'
  <2>1. Linked(node, head, List)' /\ EndsInRoot(node, List)' /\ (safe \subseteq Elements(List))'
    BY <1>3, <1>5, Zenon DEF Intact, HeadOK
  <2>2. Allocated(node, live, List)'
    BY <1>1, <1>2, <1>3, <1>5, AllAllocated, Zenon DEF Allocated, Elements
  <2> QED
    BY <2>1, <2>2, HeadInOrder, Zenon
<1>7. CallOK(t)' /\ UpdateOK(t)' /\ RemoveOK(t)'
  BY <1>4, Zenon DEF CallOK, UpdateOK, RemoveOK
<1> QED
  BY <1>1, <1>4, <1>5, <1>6, <1>7, SoloStep, Zenon

\* An update starts at the head of the list.
LEMMA UpdateReadsHead ==
    ASSUME Intact, NEW t \in Threads, ReadHead(t), pc[t] = "update"
    PROVE  Intact'
<1>1. pc[t] \in UpdatePc /\ op[t].kind = "update" /\ op[t] \in Calls
  BY Zenon DEF Intact, CallOK, AddPc, GetPc, UpdatePc, RemovePc
<1>2. \A u \in Threads : pc[u] \notin {"set_head", "store"}
  BY <1>1, Solo, Zenon
<1>3. /\ curr' = [curr EXCEPT ![t] = head] /\ pc' = [pc EXCEPT ![t] = "update_walk"]
      /\ UNCHANGED <<head, node, live, calls, op, prev, got, broken, alone, safe, clash>>
  BY Zenon DEF ReadHead, Goto
<1>4. /\ pc'[t] = "update_walk" /\ pc'[t] \in UpdatePc /\ op'[t] = op[t] /\ curr'[t] = head
      /\ \A u \in Threads : u # t => pc'[u] = pc[u]
      /\ TypeOK' /\ ~broken'
  BY <1>3, Zenon DEF Intact, TypeOK, UpdatePc
<1>5. HeadOK'
  BY <1>2, <1>3, HeadKept, Zenon
<1>6. CallOK(t)' /\ RemoveOK(t)'
  BY <1>1, <1>4, Zenon DEF CallOK, RemoveOK
<1>7. UpdateOK(t)'
  <2>1. 1 \in 1..(Len(List) + 1) /\ 1..(1 - 1) = {}
    BY HeadIs
  <2>2. Passed(t, 1) /\ head = At(List, 1)
    BY <2>1, HeadIs, Zenon DEF Passed, At
  <2>3. List' = List /\ Passed(t, 1)'
    BY <1>3, <2>2, Steady, Zenon
  <2> QED
    BY <1>4, <2>1, <2>2, <2>3, Zenon DEF UpdateOK
<1> QED
  BY <1>1, <1>4, <1>5, <1>6, <1>7, SoloStep, Zenon

\* One turn of its loop: the path it frees is that of the first mapping that matches.
LEMMA UpdateWalkStep ==
    ASSUME Intact, NEW t \in Threads, UpdateWalk(t)
    PROVE  /\ Intact' /\ List' = List
           /\ \A n \in Nodes : node'[n].ino = node[n].ino /\ node'[n].path = node[n].path
<1>1. /\ pc[t] = "update_walk" /\ pc[t] \in UpdatePc /\ op[t].kind = "update" /\ op[t] \in Calls
  BY Zenon DEF Intact, UpdateWalk, CallOK, AddPc, GetPc, UpdatePc, RemovePc
<1>2. \A u \in Threads : pc[u] \notin {"set_head", "store"}
  BY <1>1, Solo, Zenon
<1>3. PICK k \in 1..(Len(List) + 1) : curr[t] = At(List, k) /\ Passed(t, k)
  BY <1>1, Zenon DEF Intact, UpdateOK
<1>4. UNCHANGED <<head, live, calls, op, prev, got, alone, safe, clash>>
  BY Zenon DEF UpdateWalk
<1>5. \A n : Matches(t, n) <=> node[n].path = op[t].path
  BY <1>1, Zenon DEF Matches
<1>6. CASE curr[t] = NULL
  <2>1. pc' = [pc EXCEPT ![t] = "idle"] /\ UNCHANGED <<broken, curr, node>>
    BY <1>6, Zenon DEF UpdateWalk, Goto
  <2>2. /\ pc'[t] = "idle" /\ \A u \in Threads : u # t => pc'[u] = pc[u]
        /\ TypeOK' /\ ~broken'
    BY <1>4, <2>1, Zenon DEF Intact, TypeOK
  <2>3. CallOK(t)' /\ UpdateOK(t)' /\ RemoveOK(t)'
    BY <2>2, Zenon DEF CallOK, UpdateOK, RemoveOK
  <2>4. HeadOK' /\ List' = List
    BY <1>2, <1>4, <2>1, HeadKept, Zenon DEF List
  <2>5. Intact'
    BY <1>1, <2>2, <2>3, <2>4, SoloStep, Zenon
  <2> QED
    BY <2>1, <2>4, <2>5, Zenon
<1>7. CASE curr[t] # NULL
  <2>1. k \in 1..Len(List) /\ curr[t] = List[k]
    BY <1>3, <1>7, Zenon DEF At
  <2>2. /\ curr[t] \in live /\ node[curr[t]].path_live /\ curr[t] \in Nodes
        /\ node[curr[t]].next = At(List, k + 1)
    BY <1>2, <2>1, AllAllocated, HeadIs, Zenon DEF Allocated
  <2>3. broken' = (broken \/ curr[t] \notin live \/ (op[t].kind # "remove" /\ ~node[curr[t]].path_live))
    BY <1>7, Zenon DEF UpdateWalk, UsesKey
  <2>4. ~broken'
    BY <2>2, <2>3, Zenon DEF Intact
  <2>5. CASE Matches(t, curr[t])
    <3>1. /\ pc' = [pc EXCEPT ![t] = "store"] /\ curr' = curr
          /\ node' = [node EXCEPT ![curr[t]].path_live = FALSE]
      BY <1>5, <1>7, <2>5, Zenon DEF UpdateWalk, Goto
    <3>2. /\ node' \in [Nodes -> NodeType]
          /\ \A n \in Nodes : /\ node'[n].ino = node[n].ino /\ node'[n].path = node[n].path
                              /\ node'[n].next = node[n].next
                              /\ n # curr[t] => node'[n].path_live = node[n].path_live
      <4>1. node \in [Nodes -> NodeType]
        BY Zenon DEF Intact, TypeOK
      <4> QED
        BY <2>2, <3>1, <4>1, Zenon DEF NodeType
    <3>3. /\ pc'[t] = "store" /\ \A u \in Threads : u # t => pc'[u] = pc[u]
          /\ TypeOK' /\ pc'[t] \in UpdatePc
      BY <1>4, <3>1, <3>2, Zenon DEF Intact, TypeOK, UpdatePc
    <3>4. CallOK(t)' /\ RemoveOK(t)'
      BY <1>1, <1>4, <3>3, Zenon DEF CallOK, RemoveOK
    <3>5. Linked(node', head, List)
      BY <3>2, HeadIs, SameLinks, Zenon DEF Intact, HeadOK
    <3>6. List' = List
      BY <1>4, <3>5, ListIs, Zenon DEF List
    <3>7. HeadOK'
      <4>1. EndsInRoot(node', List)
        <5>1. Len(List) \in 1..Len(List)
          BY HeadIs
        <5> QED
          BY <3>2, <5>1, HeadIs, Zenon DEF Intact, HeadOK, EndsInRoot
      <4>2. \A i \in 1..Len(List) : List[i] \in live /\ (List[i] # curr[t] => node'[List[i]].path_live)
        BY <1>2, <3>2, AllAllocated, HeadIs, Zenon DEF Allocated
      <4>3. safe \subseteq Elements(List) /\ safe \subseteq live
        BY Zenon DEF Intact, HeadOK
      <4> QED
        BY <1>4, <3>1, <3>3, <3>5, <3>6, <4>1, <4>2, <4>3, Zenon DEF HeadOK
    <3>8. UpdateOK(t)'
      <4>1. Matches(t, List[k])' /\ curr'[t] = List[k]
        BY <1>1, <1>4, <2>1, <2>2, <2>5, <3>1, <3>2, <3>6, Zenon DEF Matches
      <4>2. Passed(t, k)'
        <5> SUFFICES ASSUME NEW i \in 1..(k - 1) PROVE ~Matches(t, List[i])'
          BY Zenon DEF Passed
        <5>1. i \in 1..Len(List)
          BY <2>1, HeadIs
        <5>2. ~Matches(t, List[i]) /\ List[i] \in Nodes
          BY <1>3, <5>1, HeadIs, Zenon DEF Passed
        <5> QED
          BY <1>1, <1>4, <3>2, <3>6, <5>2, Zenon DEF Matches
      <4> QED
        BY <2>1, <3>3, <3>6, <4>1, <4>2, Zenon DEF UpdateOK
    <3>9. Intact'
      BY <1>1, <2>4, <3>3, <3>4, <3>7, <3>8, SoloStep, Zenon
    <3> QED
      BY <3>2, <3>6, <3>9, Zenon
  <2>6. CASE ~Matches(t, curr[t])
    <3>1. /\ curr' = [curr EXCEPT ![t] = node[curr[t]].next] /\ pc' = pc /\ node' = node
      BY <1>5, <1>7, <2>6, Zenon DEF UpdateWalk
    <3>2. node[curr[t]].next \in Pointers
      BY <2>2, Zenon DEF Intact, TypeOK, NodeType
    <3>3. TypeOK' /\ curr'[t] = At(List, k + 1)
      BY <1>4, <2>2, <3>1, <3>2, Zenon DEF Intact, TypeOK
    <3>4. CallOK(t)' /\ RemoveOK(t)'
      BY <1>1, <1>4, <3>1, Zenon DEF CallOK, RemoveOK
    <3>5. /\ k + 1 \in 1..(Len(List) + 1) /\ (k + 1) - 1 = k
          /\ \A i \in 1..k : i = k \/ i \in 1..(k - 1)
      BY <1>3, <2>1, HeadIs
    <3>6. Passed(t, k + 1)
      BY <1>3, <2>1, <2>6, <3>5, Zenon DEF Passed
    <3>7. List' = List /\ Passed(t, k + 1)'
      BY <1>4, <3>1, <3>6, Steady, Zenon
    <3>8. UpdateOK(t)'
      BY <1>1, <3>1, <3>3, <3>5, <3>7, Zenon DEF UpdateOK
    <3>9. HeadOK'
      BY <1>2, <1>4, <3>1, HeadKept, Zenon
    <3>10. Intact'
      BY <1>1, <2>4, <3>1, <3>3, <3>4, <3>8, <3>9, SoloStep, Zenon
    <3> QED
      BY <3>1, <3>7, <3>10, Zenon
  <2> QED
    BY <2>5, <2>6, Zenon
<1> QED
  BY <1>6, <1>7, Zenon

\* It stores the new path in that mapping, which leaves the rest of the list as it is.
LEMMA StoreStep ==
    ASSUME Intact, NEW t \in Threads, Store(t)
    PROVE  /\ Intact' /\ List' = List
           /\ op[t] \in Calls /\ op[t].kind = "update"
           /\ \E k \in 1..Len(List) :
                /\ Passed(t, k) /\ Matches(t, List[k])
                /\ node'[List[k]].ino = node[List[k]].ino /\ node'[List[k]].path = op[t].new
                /\ \A n \in Nodes \ {List[k]} : node'[n] = node[n]
<1>1. /\ pc[t] = "store" /\ pc[t] \in UpdatePc /\ op[t].kind = "update" /\ op[t] \in Calls
  BY Zenon DEF Intact, Store, CallOK, AddPc, GetPc, UpdatePc, RemovePc
<1>2. \A u \in Threads : u # t => pc[u] = "idle"
  BY <1>1, Solo, Zenon
<1>3. PICK k \in 1..Len(List) : curr[t] = List[k] /\ Passed(t, k) /\ Matches(t, List[k])
  BY <1>1, Zenon DEF Intact, UpdateOK
<1>4. \A i \in 1..Len(List) : List[i] \in live /\ (i # k => node[List[i]].path_live)
  <2>1. \A i \in 1..Len(List) : List[i] \in live
    BY <1>1, <1>2, Zenon DEF Intact, HeadOK
  <2>2. \A i \in 1..Len(List) : i # k => List[i] # curr[t]
    BY <1>3, HeadIs, Zenon
  <2>3. \A i \in 1..Len(List) : i # k => node[List[i]].path_live
    <3> SUFFICES ASSUME NEW i \in 1..Len(List), i # k PROVE node[List[i]].path_live
      BY Zenon
    <3>1. node[List[i]].path_live \/ \E u \in Threads : pc[u] = "store" /\ curr[u] = List[i]
      BY Zenon DEF Intact, HeadOK
    <3> QED
      BY <1>2, <2>2, <3>1, Zenon
  <2> QED
    BY <2>1, <2>3, Zenon
<1>5. /\ broken' = (broken \/ ~ {curr[t]} \subseteq live)
      /\ node' = [node EXCEPT ![curr[t]].path = op[t].new, ![curr[t]].path_live = TRUE]
      /\ pc' = [pc EXCEPT ![t] = "idle"]
      /\ UNCHANGED <<head, live, calls, op, curr, prev, got, alone, safe, clash>>
  BY Zenon DEF Store, Uses, Goto
<1>6. ~broken'
  BY <1>3, <1>4, <1>5, Zenon DEF Intact
<1>7. op[t].new \in Paths
  BY <1>1, Zenon DEF Calls
<1>8. /\ node' \in [Nodes -> NodeType]
      /\ node'[List[k]].ino = node[List[k]].ino /\ node'[List[k]].path = op[t].new
      /\ node'[List[k]].path_live /\ node'[List[k]].next = node[List[k]].next
      /\ \A n \in Nodes \ {List[k]} : node'[n] = node[n]
  <2>1. node \in [Nodes -> NodeType] /\ List[k] \in Nodes
    BY HeadIs, Zenon DEF Intact, TypeOK
  <2> QED
    BY <1>3, <1>5, <1>7, <2>1, Zenon DEF NodeType
<1>9. /\ pc'[t] = "idle" /\ \A u \in Threads : u # t => pc'[u] = pc[u]
      /\ TypeOK'
  BY <1>5, <1>8, Zenon DEF Intact, TypeOK
<1>10. Linked(node', head, List)
  <2>1. \A i \in 1..Len(List) : node'[List[i]].next = node[List[i]].next
    BY <1>8, HeadIs, Zenon
  <2> QED
    BY <2>1, SameLinks, Zenon DEF Intact, HeadOK
<1>11. List' = List
  BY <1>5, <1>10, ListIs, Zenon DEF List
<1>12. HeadOK'
  <2>1. EndsInRoot(node', List)
    <3>1. k < Len(List)
      BY <1>1, <1>3, RootStays, Zenon
    <3>2. Len(List) \in 1..Len(List) /\ Len(List) # k
      BY <3>1, HeadIs
    <3>3. List[Len(List)] \in Nodes \ {List[k]}
      BY <3>2, HeadIs, Zenon
    <3> QED
      BY <1>8, <3>3, Zenon DEF Intact, HeadOK, EndsInRoot
  <2>2. Allocated(node', live, List)
    <3> SUFFICES ASSUME NEW i \in 1..Len(List) PROVE List[i] \in live /\ node'[List[i]].path_live
      BY Zenon DEF Allocated
    <3>1. CASE i = k
      BY <1>4, <1>8, <3>1, Zenon
    <3>2. CASE i # k
      <4>1. List[i] \in Nodes \ {List[k]}
        BY <3>2, HeadIs, Zenon
      <4> QED
        BY <1>4, <1>8, <3>2, <4>1, Zenon
    <3> QED
      BY <3>1, <3>2, Zenon
  <2>3. safe \subseteq Elements(List)
    BY Zenon DEF Intact, HeadOK
  <2> QED
    BY <1>5, <1>10, <1>11, <2>1, <2>2, <2>3, HeadInOrder, Zenon
<1>13. CallOK(t)' /\ UpdateOK(t)' /\ RemoveOK(t)'
  BY <1>9, Zenon DEF CallOK, UpdateOK, RemoveOK
<1>14. Intact'
  BY <1>1, <1>6, <1>9, <1>12, <1>13, SoloStep, Zenon
<1> QED
  BY <1>1, <1>3, <1>8, <1>11, <1>14, Zenon

-----------------------------------------------------------------------------
\* Beside an addition or a look-up there are only additions and look-ups.
LEMMA NoRemoval ==
    ASSUME Intact, NEW t \in Threads, pc[t] \in AddPc \union GetPc
    PROVE  /\ \A u \in Threads : pc[u] \notin RemovePc \union UpdatePc
           /\ \A u \in Threads : pc[u] \notin {"set_head", "store"}
           /\ Allocated(node, live, List)
<1>1. ASSUME NEW u \in Threads PROVE pc[u] \notin RemovePc \union UpdatePc
  <2> SUFFICES ASSUME pc[u] \in RemovePc \union UpdatePc PROVE FALSE
    BY Zenon
  <2>1. u # t /\ pc[t] # "idle"
    BY Zenon DEF AddPc, GetPc, RemovePc, UpdatePc
  <2> QED
    BY <2>1, Solo, Zenon
<1>2. \A u \in Threads : pc[u] \notin {"set_head", "store"}
  BY <1>1, Zenon DEF RemovePc, UpdatePc
<1> QED
  BY <1>1, <1>2, AllAllocated, Zenon

\* What is allocated and does not change in the heap stays what a pointer leads to.
LEMMA KeptList ==
    ASSUME NEW nd, NEW nd2, NEW lv, NEW lv2, NEW p,
           Linked(nd, p, ListFrom(nd, p)), Allocated(nd, lv, ListFrom(nd, p)),
           lv \subseteq lv2, \A n \in lv : nd2[n] = nd[n]
    PROVE  /\ ListFrom(nd2, p) = ListFrom(nd, p)
           /\ Linked(nd2, p, ListFrom(nd2, p)) /\ Allocated(nd2, lv2, ListFrom(nd2, p))
<1> DEFINE s == ListFrom(nd, p)
<1> HIDE DEF s
<1>1. Linked(nd, p, s) /\ Allocated(nd, lv, s)
  BY Zenon DEF s
<1>2. \A i \in 1..Len(s) : nd2[s[i]] = nd[s[i]] /\ s[i] \in lv /\ nd[s[i]].path_live
  BY <1>1, Zenon DEF Allocated
<1>3. Linked(nd2, p, s)
  BY <1>1, <1>2, SameLinks, Zenon
<1>4. Allocated(nd2, lv2, s)
  BY <1>2, Zenon DEF Allocated
<1>5. ListFrom(nd2, p) = s
  BY <1>3, ListIs, Zenon
<1> QED
  BY <1>3, <1>4, <1>5, Zenon DEF s

\* A step of an addition or a look-up does not disturb the others: what is allocated
\* stays as it is, and what may not be lost does not grow.
LEMMA OtherCall ==
    ASSUME Intact, NEW t \in Threads, pc[t] \in AddPc \union GetPc, NEW u \in Threads, u # t,
           pc'[u] = pc[u], op'[u] = op[u], curr'[u] = curr[u], got'[u] = got[u], clash' = clash,
           live \subseteq live', \A n \in live : node'[n] = node[n],
           pc[u] # "idle" => safe' \subseteq safe
    PROVE  /\ CallOK(u)' /\ GetOK(u)' /\ UpdateOK(u)' /\ RemoveOK(u)'
           /\ pc'[u] = "publish" => PublishOK(u)'
<1>1. pc[t] # "idle" /\ pc[u] \notin RemovePc \union UpdatePc
  BY NoRemoval, Zenon DEF AddPc, GetPc
<1>2. pc[u] # "idle" => clash' = "adds" /\ clash' # "none"
  BY <1>1, Zenon DEF Intact, OverlapOK
<1>3. CallOK(u)' /\ UpdateOK(u)' /\ RemoveOK(u)'
  BY <1>1, Zenon DEF Intact, CallOK, UpdateOK, RemoveOK, RemovePc, UpdatePc
<1>4. GetOK(u)'
  <2>1. CASE pc[u] = "get_walk"
    <3>1. Linked(node, curr[u], ListFrom(node, curr[u])) /\ Allocated(node, live, ListFrom(node, curr[u]))
      BY <2>1, Zenon DEF Intact, GetOK
    <3>2. /\ Linked(node', curr[u], ListFrom(node', curr[u]))
          /\ Allocated(node', live', ListFrom(node', curr[u]))
      BY <3>1, KeptList
    <3> QED
      BY <1>2, <2>1, <3>2, Zenon DEF GetOK
  <2>2. CASE pc[u] = "use"
    BY <1>2, <2>2, Zenon DEF Intact, GetOK
  <2>3. CASE pc[u] = "got_none"
    BY <1>2, <2>3, Zenon DEF Intact, GetOK
  <2>4. CASE pc[u] \notin {"get_walk", "use", "got_none"}
    BY <2>4, Zenon DEF GetOK
  <2> QED
    BY <2>1, <2>2, <2>3, <2>4, Zenon
<1>5. ASSUME pc'[u] = "publish" PROVE PublishOK(u)'
  <2> DEFINE s == ListFrom(node, curr[u])
  <2> HIDE DEF s
  <2>1. /\ Linked(node, curr[u], s) /\ EndsInRoot(node, s) /\ Allocated(node, live, s)
        /\ safe \subseteq Elements(s)
    BY <1>5, Zenon DEF Intact, PublishOK, s
  <2>2. ListFrom(node', curr[u]) = s /\ Linked(node', curr[u], s) /\ Allocated(node', live', s)
    BY <2>1, KeptList DEF s
  <2>3. EndsInRoot(node', s)
    <3>1. Len(s) \in 1..Len(s)
      BY <2>1 DEF EndsInRoot, Linked
    <3>2. node'[s[Len(s)]] = node[s[Len(s)]]
      BY <2>1, <3>1, Zenon DEF Allocated
    <3> QED
      BY <2>1, <3>2, Zenon DEF EndsInRoot
  <2>4. safe' \subseteq Elements(s)
    BY <1>5, <2>1, Zenon
  <2> QED
    BY <1>2, <1>5, <2>2, <2>3, <2>4, Zenon DEF PublishOK
<1> QED
  BY <1>3, <1>4, <1>5, Zenon

\* A step of an addition or a look-up.
LEMMA SharedStep ==
    ASSUME Intact, NEW t \in Threads, pc[t] \in AddPc \union GetPc,
           pc'[t] \in AddPc \union GetPc \union {"idle"},
           \A u \in Threads : u # t => pc'[u] = pc[u] /\ curr'[u] = curr[u] /\ got'[u] = got[u],
           UNCHANGED <<op, alone, clash>>,
           live \subseteq live', \A n \in live : node'[n] = node[n],
           \A u \in Threads : u # t /\ pc[u] # "idle" => safe' \subseteq safe,
           TypeOK', ~broken', HeadOK', CallOK(t)', GetOK(t)', pc'[t] = "publish" => PublishOK(t)'
    PROVE  Intact'
<1>1. OverlapOK'
  <2>1. pc[t] # "idle"
    BY Zenon DEF AddPc, GetPc
  <2>2. \A u \in Threads : pc'[u] # "idle" => pc[u] # "idle"
    BY <2>1, Zenon
  <2> QED
    BY <2>2, Zenon DEF Intact, OverlapOK
<1>2. UpdateOK(t)' /\ RemoveOK(t)'
  BY Zenon DEF UpdateOK, RemoveOK, AddPc, GetPc
<1>3. ASSUME NEW u \in Threads, u # t
      PROVE  /\ CallOK(u)' /\ GetOK(u)' /\ UpdateOK(u)' /\ RemoveOK(u)'
             /\ pc'[u] = "publish" => PublishOK(u)'
  BY <1>3, OtherCall, Zenon
<1> QED
  BY <1>1, <1>2, <1>3, Zenon DEF Intact

\* An addition allocates a mapping that no list contains and links it to the head it reads.
LEMMA AddLinkStep ==
    ASSUME Intact, NEW t \in Threads, AddLink(t)
    PROVE  /\ Intact' /\ List' = List
           /\ \A i \in 1..Len(List) : node'[List[i]] = node[List[i]]
<1>1. pc[t] = "add" /\ pc[t] \in AddPc /\ op[t] \in Calls /\ op[t].kind = "add"
  BY Zenon DEF Intact, AddLink, CallOK, AddPc, GetPc, UpdatePc, RemovePc
<1>2. op[t].ino \in Inos \union {Root} /\ op[t].path \in Paths \union {Root}
  BY <1>1, Zenon DEF Calls
<1> DEFINE New == [ino |-> op[t].ino, path |-> op[t].path, path_live |-> TRUE, next |-> head]
<1>3. PICK n \in Nodes \ live :
        /\ node' = [node EXCEPT ![n] = New]
        /\ live' = live \union {n} /\ safe' = safe \ {n} /\ curr' = [curr EXCEPT ![t] = n]
        /\ pc' = [pc EXCEPT ![t] = "publish"]
        /\ UNCHANGED <<head, calls, op, prev, got, broken, alone, clash>>
  BY Zenon DEF AddLink, Goto
<1>4. New \in NodeType
  BY <1>2, Zenon DEF NodeType, Intact, TypeOK
<1>5. /\ node' \in [Nodes -> NodeType] /\ node'[n] = New
      /\ \A m \in Nodes : m # n => node'[m] = node[m]
      /\ \A m \in live : node'[m] = node[m]
  <2> HIDE DEF New
  <2>1. node \in [Nodes -> NodeType] /\ live \in SUBSET Nodes
    BY Zenon DEF Intact, TypeOK
  <2> QED
    BY <1>3, <1>4, <2>1, Zenon
<1>6. /\ pc'[t] = "publish" /\ pc'[t] \in AddPc /\ curr'[t] = n /\ TypeOK' /\ ~broken'
      /\ \A u \in Threads : u # t => pc'[u] = pc[u] /\ curr'[u] = curr[u] /\ got'[u] = got[u]
  <2> HIDE DEF New
  <2> QED
    BY <1>3, <1>5, Zenon DEF Intact, TypeOK, AddPc, Pointers
<1>7. Linked(node, head, ListFrom(node, head)) /\ Allocated(node, live, ListFrom(node, head))
  BY <1>1, NoRemoval, Zenon DEF Intact, HeadOK, List
<1>8. live \subseteq live'
  BY <1>3, Zenon
<1>9. List' = List /\ Linked(node', head, List) /\ Allocated(node', live', List)
  <2>1. /\ ListFrom(node', head) = ListFrom(node, head)
        /\ Linked(node', head, ListFrom(node', head)) /\ Allocated(node', live', ListFrom(node', head))
    BY <1>5, <1>7, <1>8, KeptList
  <2> QED
    BY <1>3, <2>1, Zenon DEF List
<1>10. \A i \in 1..Len(List) : List[i] \in live /\ node'[List[i]] = node[List[i]]
  BY <1>5, <1>7, Zenon DEF Allocated, List
<1>11. EndsInRoot(node', List) /\ safe' \subseteq Elements(List)
  <2>1. Len(List) \in 1..Len(List)
    BY HeadIs
  <2>2. node'[List[Len(List)]] = node[List[Len(List)]]
    BY <1>10, <2>1, Zenon
  <2> QED
    BY <1>3, <2>2, Zenon DEF Intact, HeadOK, EndsInRoot
<1>12. HeadOK'
  BY <1>3, <1>9, <1>11, HeadInOrder, Zenon
<1>13. CallOK(t)' /\ GetOK(t)'
  BY <1>1, <1>3, <1>6, Zenon DEF CallOK, GetOK
<1>14. PublishOK(t)'
  <2> DEFINE s == <<n>> \o List
  <2>1. n \in Nodes \ Elements(List) /\ node'[n].next = head /\ node'[n].path_live
    <3>1. n \notin Elements(List)
      BY <1>10, Zenon DEF Elements
    <3> QED
      BY <1>5, <3>1
  <2>2. /\ Linked(node', n, s) /\ Len(s) = Len(List) + 1 /\ s[1] = n
        /\ \A i \in 1..Len(List) : s[i + 1] = List[i]
        /\ Elements(s) = Elements(List) \union {n}
    BY <1>9, <2>1, Prepended
  <2> HIDE DEF s
  <2>3. ListFrom(node', n) = s
    BY <2>2, ListIs, Zenon
  <2>4. EndsInRoot(node', s)
    <3>1. Len(List) \in 1..Len(List) /\ Len(List) + 1 = Len(s) /\ s # <<>>
      BY <2>2, HeadIs DEF Linked
    <3>2. s[Len(s)] = List[Len(List)]
      BY <2>2, <3>1, Zenon
    <3> QED
      BY <1>11, <3>1, <3>2, Zenon DEF EndsInRoot
  <2>5. Allocated(node', live', s)
    <3>1. \A x \in Elements(s) : x \in live' /\ node'[x].path_live
      <4>1. \A x \in Elements(List) : x \in live' /\ node'[x].path_live
        BY <1>9, Zenon DEF Elements, Allocated
      <4> QED
        BY <1>3, <2>1, <2>2, <4>1, Zenon
    <3> QED
      BY <3>1, Zenon DEF Allocated, Elements
  <2>6. safe' \subseteq Elements(s)
    BY <1>11, <2>2, Zenon
  <2>7. node'[n].next = head' /\ node'[n].ino = op'[t].ino /\ node'[n].path = op'[t].path
    BY <1>3, <1>5, Zenon
  <2> QED
    BY <1>6, <2>2, <2>3, <2>4, <2>5, <2>6, <2>7, Zenon DEF PublishOK
<1>15. safe' \subseteq safe
  BY <1>3, Zenon
<1>16. Intact'
  <2> HIDE DEF New
  <2> QED
    BY <1>1, <1>3, <1>5, <1>6, <1>8, <1>12, <1>13, <1>14, <1>15, SharedStep, Zenon
<1> QED
  BY <1>9, <1>10, <1>16, Zenon

\* It moves the head to its mapping.  What other additions have put before the head it read
\* is lost; what was added by calls nothing overlapped is not.
LEMMA AddPublishStep ==
    ASSUME Intact, NEW t \in Threads, AddPublish(t)
    PROVE  /\ Intact' /\ node' = node /\ op[t] \in Calls /\ op[t].kind = "add"
           /\ clash = "none" => /\ List' = <<curr[t]>> \o List
                                /\ node[curr[t]].ino = op[t].ino /\ node[curr[t]].path = op[t].path
<1>1. pc[t] = "publish" /\ pc[t] \in AddPc /\ op[t] \in Calls /\ op[t].kind = "add" /\ PublishOK(t)
  BY Zenon DEF Intact, AddPublish, CallOK, AddPc, GetPc, UpdatePc, RemovePc
<1>2. /\ head' = curr[t] /\ safe' = IF alone[t] THEN safe \union {curr[t]} ELSE safe
      /\ pc' = [pc EXCEPT ![t] = "idle"]
      /\ UNCHANGED <<node, live, calls, op, curr, prev, got, broken, alone, clash>>
  BY Zenon DEF AddPublish, Goto
<1> DEFINE s == ListFrom(node, curr[t])
<1> HIDE DEF s
<1>3. /\ Linked(node, curr[t], s) /\ EndsInRoot(node, s) /\ Allocated(node, live, s)
      /\ safe \subseteq Elements(s)
      /\ clash = "none" => node[curr[t]].next = head /\ node[curr[t]].ino = op[t].ino
                           /\ node[curr[t]].path = op[t].path
  BY <1>1, Zenon DEF PublishOK, s
<1>4. List' = s
  BY <1>2, Zenon DEF List, s
<1>5. s \in Seq(Nodes) /\ s # <<>> /\ 1 \in 1..Len(s) /\ curr[t] = s[1]
  <2>1. s \in Seq(Nodes) /\ s # <<>> /\ curr[t] = At(s, 1)
    BY <1>3, Zenon DEF Linked, EndsInRoot
  <2>2. 1 \in 1..Len(s)
    BY <2>1
  <2> QED
    BY <2>1, <2>2, Zenon DEF At
<1>6. curr[t] \in Elements(s) /\ curr[t] \in Nodes
  <2>1. s[1] \in Nodes
    BY <1>5
  <2> QED
    BY <1>5, <2>1, Zenon DEF Elements
<1>7. /\ pc'[t] = "idle" /\ TypeOK' /\ ~broken'
      /\ \A u \in Threads : u # t => pc'[u] = pc[u] /\ curr'[u] = curr[u] /\ got'[u] = got[u]
  BY <1>2, <1>6, Zenon DEF Intact, TypeOK, Pointers
<1>8. HeadOK'
  <2>1. safe' \subseteq Elements(s)
    BY <1>2, <1>3, <1>6, Zenon
  <2> QED
    BY <1>2, <1>3, <1>4, <2>1, HeadInOrder, Zenon
<1>9. CallOK(t)' /\ GetOK(t)' /\ pc'[t] # "publish"
  BY <1>7, Zenon DEF CallOK, GetOK
<1>10. ASSUME NEW u \in Threads, u # t, pc[u] # "idle" PROVE safe' \subseteq safe
  <2>1. ~alone[t]
    BY <1>1, <1>10, Zenon DEF Intact, OverlapOK
  <2> QED
    BY <1>2, <2>1, Zenon
<1>11. live \subseteq live' /\ \A n \in live : node'[n] = node[n]
  BY <1>2, Zenon
<1>12. Intact'
  BY <1>1, <1>2, <1>7, <1>8, <1>9, <1>10, <1>11, SharedStep, Zenon
<1>13. ASSUME clash = "none" PROVE List' = <<curr[t]>> \o List
  <2>1. Linked(node, head, Tail(s))
    BY <1>3, <1>5, <1>13, TailLinked
  <2>2. List = Tail(s)
    BY <2>1, ListIs, Zenon DEF List
  <2>3. s = <<s[1]>> \o Tail(s)
    BY <1>5
  <2> QED
    BY <1>4, <1>5, <2>2, <2>3, Zenon
<1> QED
  BY <1>1, <1>2, <1>3, <1>12, <1>13, Zenon

\* A look-up starts at the head of the list.
LEMMA GetReadsHead ==
    ASSUME Intact, NEW t \in Threads, ReadHead(t), pc[t] = "get"
    PROVE  Intact'
<1>1. pc[t] \in GetPc /\ op[t].kind = "get" /\ op[t] \in Calls
  BY Zenon DEF Intact, CallOK, AddPc, GetPc, UpdatePc, RemovePc
<1>2. /\ \A u \in Threads : pc[u] \notin {"set_head", "store"}
      /\ Allocated(node, live, List) /\ Linked(node, head, List)
  BY <1>1, NoRemoval, Zenon DEF Intact, HeadOK
<1>3. /\ curr' = [curr EXCEPT ![t] = head] /\ pc' = [pc EXCEPT ![t] = "get_walk"]
      /\ UNCHANGED <<head, node, live, calls, op, prev, got, broken, alone, safe, clash>>
  BY Zenon DEF ReadHead, Goto
<1>4. /\ pc'[t] = "get_walk" /\ pc'[t] \in GetPc /\ op'[t] = op[t] /\ curr'[t] = head
      /\ \A u \in Threads : u # t => pc'[u] = pc[u] /\ curr'[u] = curr[u] /\ got'[u] = got[u]
      /\ TypeOK' /\ ~broken'
  BY <1>3, Zenon DEF Intact, TypeOK, GetPc
<1>5. HeadOK'
  BY <1>2, <1>3, HeadKept, Zenon
<1>6. CallOK(t)' /\ pc'[t] # "publish"
  BY <1>1, <1>4, Zenon DEF CallOK
<1>7. GetOK(t)'
  <2>1. 1 \in 1..(Len(List) + 1) /\ 1..(1 - 1) = {}
    BY HeadIs
  <2>2. Passed(t, 1) /\ head = At(List, 1)
    BY <2>1, HeadIs, Zenon DEF Passed, At
  <2>3. List' = List /\ Passed(t, 1)'
    BY <1>3, <2>2, Steady, Zenon
  <2>4. /\ Linked(node', curr'[t], ListFrom(node', curr'[t]))
        /\ Allocated(node', live', ListFrom(node', curr'[t]))
    BY <1>2, <1>3, <1>4, Zenon DEF List
  <2> QED
    BY <1>4, <2>1, <2>2, <2>3, <2>4, Zenon DEF GetOK
<1>8. live \subseteq live' /\ (\A n \in live : node'[n] = node[n]) /\ safe' \subseteq safe
  BY <1>3, Zenon
<1> QED
  BY <1>1, <1>3, <1>4, <1>5, <1>6, <1>7, <1>8, SharedStep, Zenon

\* One turn of its loop, along a list that additions may have put aside meanwhile: it stops at
\* the first mapping of the inode number, or at the end.
LEMMA GetWalkStep ==
    ASSUME Intact, NEW t \in Threads, GetWalk(t)
    PROVE  Intact'
<1>1. /\ pc[t] = "get_walk" /\ pc[t] \in GetPc /\ op[t].kind = "get" /\ op[t] \in Calls
  BY Zenon DEF Intact, GetWalk, CallOK, AddPc, GetPc, UpdatePc, RemovePc
<1>2. \A u \in Threads : pc[u] \notin {"set_head", "store"}
  BY <1>1, NoRemoval, Zenon
<1>3. UNCHANGED <<head, node, live, calls, op, prev, alone, safe, clash>>
  BY Zenon DEF GetWalk
<1>4. HeadOK'
  BY <1>2, <1>3, HeadKept, Zenon
<1>5. live \subseteq live' /\ (\A n \in live : node'[n] = node[n]) /\ safe' \subseteq safe
  BY <1>3, Zenon
<1>6. List' = List /\ op'[t] = op[t] /\ \A i : Passed(t, i)' <=> Passed(t, i)
  BY <1>3, Steady, Zenon
<1>7. \A n : (Matches(t, n)' <=> Matches(t, n)) /\ (Matches(t, n) <=> node[n].ino = op[t].ino)
  BY <1>1, <1>3, Steady, Zenon DEF Matches
<1> DEFINE s == ListFrom(node, curr[t])
<1> HIDE DEF s
<1>8. /\ Linked(node, curr[t], s) /\ Allocated(node, live, s)
      /\ clash = "none" => \E k \in 1..(Len(List) + 1) : curr[t] = At(List, k) /\ Passed(t, k)
  BY <1>1, Zenon DEF Intact, GetOK, s
<1>9. CASE curr[t] = NULL
  <2>1. /\ got' = [got EXCEPT ![t] = NULL] /\ pc' = [pc EXCEPT ![t] = "got_none"]
        /\ UNCHANGED <<broken, curr>>
    BY <1>9, Zenon DEF GetWalk, Goto
  <2>2. /\ pc'[t] = "got_none" /\ pc'[t] \in GetPc /\ got'[t] = NULL
        /\ \A u \in Threads : u # t => pc'[u] = pc[u] /\ curr'[u] = curr[u] /\ got'[u] = got[u]
        /\ TypeOK' /\ ~broken'
    BY <1>3, <2>1, Zenon DEF Intact, TypeOK, GetPc
  <2>3. CallOK(t)' /\ pc'[t] # "publish"
    BY <1>1, <1>6, <2>2, Zenon DEF CallOK
  <2>4. GetOK(t)'
    <3>1. ASSUME clash = "none" PROVE Passed(t, Len(List) + 1)
      <4>1. PICK k \in 1..(Len(List) + 1) : curr[t] = At(List, k) /\ Passed(t, k)
        BY <1>8, <3>1, Zenon
      <4>2. k \notin 1..Len(List)
        BY <1>9, <4>1, HeadIs, Zenon DEF At
      <4>3. k = Len(List) + 1
        BY <4>1, <4>2, HeadIs
      <4> QED
        BY <4>1, <4>3, Zenon
    <3> QED
      BY <1>3, <1>6, <2>2, <3>1, Zenon DEF GetOK
  <2> QED
    BY <1>1, <1>3, <1>4, <1>5, <2>2, <2>3, <2>4, SharedStep, Zenon
<1>10. CASE curr[t] # NULL
  <2>1. s \in Seq(Nodes) /\ s # <<>> /\ 1 \in 1..Len(s) /\ curr[t] = s[1]
    <3>1. s \in Seq(Nodes) /\ curr[t] = At(s, 1)
      BY <1>8, Zenon DEF Linked
    <3>2. 1 \in 1..Len(s) /\ curr[t] = s[1]
      BY <1>10, <3>1, Zenon DEF At
    <3> QED
      BY <3>1, <3>2
  <2>2. curr[t] \in live /\ node[curr[t]].path_live /\ curr[t] \in Nodes
    BY <1>8, <2>1, Zenon DEF Allocated, Intact, TypeOK
  <2>3. broken' = (broken \/ ~ {curr[t]} \subseteq live)
    BY <1>10, Zenon DEF GetWalk, Uses
  <2>4. ~broken' /\ node[curr[t]].path \in Paths \union {Root} /\ node[curr[t]].next \in Pointers
    <3>1. ~broken'
      BY <2>2, <2>3, Zenon DEF Intact
    <3> QED
      BY <2>2, <3>1, Zenon DEF Intact, TypeOK, NodeType
  <2>5. ASSUME clash = "none"
        PROVE  \E k \in 1..Len(List) : curr[t] = List[k] /\ Passed(t, k)
    BY <1>8, <1>10, <2>5, Zenon DEF At
  <2>6. CASE Matches(t, curr[t])
    <3>1. /\ got' = [got EXCEPT ![t] = node[curr[t]].path] /\ pc' = [pc EXCEPT ![t] = "use"]
          /\ curr' = curr
      BY <1>7, <1>10, <2>6, Zenon DEF GetWalk, Goto
    <3>2. /\ pc'[t] = "use" /\ pc'[t] \in GetPc /\ got'[t] = node[curr[t]].path
          /\ \A u \in Threads : u # t => pc'[u] = pc[u] /\ curr'[u] = curr[u] /\ got'[u] = got[u]
          /\ TypeOK'
      BY <1>3, <2>4, <3>1, Zenon DEF Intact, TypeOK, GetPc
    <3>3. CallOK(t)' /\ pc'[t] # "publish"
      BY <1>1, <1>6, <3>2, Zenon DEF CallOK
    <3>4. ASSUME clash' = "none"
          PROVE  \E k \in 1..Len(List') : curr'[t] = List'[k] /\ Passed(t, k)' /\ Matches(t, List[k])'
      <4>1. PICK k \in 1..Len(List) : curr[t] = List[k] /\ Passed(t, k)
        BY <1>3, <2>5, <3>4, Zenon
      <4>2. Matches(t, List[k])'
        BY <1>3, <1>6, <2>6, <4>1, Zenon DEF Matches
      <4> QED
        BY <1>6, <3>1, <4>1, <4>2, Zenon
    <3>5. GetOK(t)'
      BY <1>3, <2>2, <3>1, <3>2, <3>4, Zenon DEF GetOK
    <3> QED
      BY <1>1, <1>3, <1>4, <1>5, <2>4, <3>2, <3>3, <3>5, SharedStep, Zenon
  <2>7. CASE ~Matches(t, curr[t])
    <3>1. curr' = [curr EXCEPT ![t] = node[curr[t]].next] /\ pc' = pc /\ got' = got
      BY <1>7, <1>10, <2>7, Zenon DEF GetWalk
    <3>2. /\ curr'[t] = node[curr[t]].next
          /\ \A u \in Threads : u # t => pc'[u] = pc[u] /\ curr'[u] = curr[u] /\ got'[u] = got[u]
          /\ TypeOK'
      BY <1>3, <2>4, <3>1, Zenon DEF Intact, TypeOK
    <3>3. CallOK(t)' /\ pc'[t] # "publish" /\ pc'[t] = "get_walk"
      BY <1>1, <1>6, <3>1, Zenon DEF CallOK
    <3>4. Linked(node', curr'[t], ListFrom(node', curr'[t])) /\ Allocated(node', live', ListFrom(node', curr'[t]))
      <4> DEFINE r == Tail(s)
      <4>1. /\ Linked(node, node[curr[t]].next, r)
            /\ \A i \in 1..Len(r) : i + 1 \in 1..Len(s) /\ r[i] = s[i + 1]
        BY <1>8, <2>1, TailLinked
      <4> HIDE DEF r
      <4>2. ListFrom(node, node[curr[t]].next) = r
        BY <4>1, ListIs, Zenon
      <4>3. Allocated(node, live, r)
        BY <1>8, <4>1, Zenon DEF Allocated
      <4> QED
        BY <1>3, <3>2, <4>1, <4>2, <4>3, Zenon
    <3>5. ASSUME clash' = "none"
          PROVE  \E k \in 1..(Len(List') + 1) : curr'[t] = At(List', k) /\ Passed(t, k)'
      <4>1. PICK k \in 1..Len(List) : curr[t] = List[k] /\ Passed(t, k)
        BY <1>3, <2>5, <3>5, Zenon
      <4>2. /\ k + 1 \in 1..(Len(List) + 1) /\ (k + 1) - 1 = k
            /\ \A i \in 1..k : i = k \/ i \in 1..(k - 1)
        BY <4>1, HeadIs
      <4>3. Passed(t, k + 1)
        BY <2>7, <4>1, <4>2, Zenon DEF Passed
      <4>4. curr'[t] = At(List, k + 1)
        BY <3>2, <4>1, HeadIs, Zenon
      <4> QED
        BY <1>6, <4>2, <4>3, <4>4, Zenon
    <3>6. GetOK(t)'
      BY <3>3, <3>4, <3>5, Zenon DEF GetOK
    <3>7. pc'[t] \in GetPc
      BY <1>1, <3>1, Zenon
    <3> QED
      BY <1>1, <1>3, <1>4, <1>5, <2>4, <3>2, <3>3, <3>6, <3>7, SharedStep, Zenon
  <2> QED
    BY <2>6, <2>7, Zenon
<1> QED
  BY <1>9, <1>10, Zenon

\* The path a look-up returned is still there when it is used.
LEMMA UseStep ==
    ASSUME Intact, NEW t \in Threads, Use(t)
    PROVE  Intact'
<1>1. pc[t] \in {"use", "got_none"} /\ pc[t] \in GetPc
  BY Zenon DEF Use, GetPc
<1>2. \A u \in Threads : pc[u] \notin {"set_head", "store"}
  BY <1>1, NoRemoval, Zenon
<1>3. /\ broken' = (broken \/ (pc[t] = "use" /\
                     (curr[t] \notin live \/ node[curr[t]].path # got[t] \/ ~node[curr[t]].path_live)))
      /\ pc' = [pc EXCEPT ![t] = "idle"]
      /\ UNCHANGED <<head, node, live, calls, op, curr, prev, got, alone, safe, clash>>
  BY Zenon DEF Use, Goto
<1>4. ~broken'
  BY <1>3, Zenon DEF Intact, GetOK
<1>5. /\ pc'[t] = "idle" /\ TypeOK'
      /\ \A u \in Threads : u # t => pc'[u] = pc[u] /\ curr'[u] = curr[u] /\ got'[u] = got[u]
  BY <1>3, <1>4, Zenon DEF Intact, TypeOK
<1>6. HeadOK'
  BY <1>2, <1>3, HeadKept, Zenon
<1>7. CallOK(t)' /\ GetOK(t)' /\ pc'[t] # "publish"
  BY <1>5, Zenon DEF CallOK, GetOK
<1>8. live \subseteq live' /\ (\A n \in live : node'[n] = node[n]) /\ safe' \subseteq safe
  BY <1>3, Zenon
<1> QED
  BY <1>1, <1>3, <1>4, <1>5, <1>6, <1>7, <1>8, SharedStep, Zenon

\* A call may begin beside others; it is only additions and look-ups that may overlap.
LEMMA BeginStep ==
    ASSUME Intact, clash \in {"none", "adds"}, NEW t \in Threads, Begin(t), clash' # "any"
    PROVE  Intact' /\ clash' \in {"none", "adds"}
<1> DEFINE others == {u \in Threads : pc[u] # "idle"}
<1>1. PICK c \in Calls :
        /\ op' = [op EXCEPT ![t] = c] /\ pc' = [pc EXCEPT ![t] = c.kind]
        /\ alone' = [u \in Threads |-> IF u = t THEN others = {} ELSE alone[u] /\ u \notin others]
        /\ clash' = CASE others = {} -> clash
                      [] others # {} /\ {op[u].kind : u \in others} \union {c.kind} \subseteq {"add", "get"} ->
                            IF clash = "any" THEN "any" ELSE "adds"
                      [] OTHER -> "any"
  BY Zenon DEF Begin, Goto
<1>2. /\ pc[t] = "idle" /\ calls' = calls + 1
      /\ UNCHANGED <<head, node, live, curr, prev, got, broken, safe>>
  BY Zenon DEF Begin
<1>3. c.kind \in {"add", "remove", "remove_path", "update", "get"}
  BY InodeCacheThreadsAssumption, Zenon DEF Calls
<1>4. \/ others = {} /\ clash' = clash
      \/ /\ others # {} /\ clash' = "adds" /\ c.kind \in {"add", "get"}
         /\ \A u \in others : op[u].kind \in {"add", "get"}
  <2>1. CASE others = {}
    BY <1>1, <2>1, Zenon
  <2>2. CASE others # {}
    <3>1. {op[u].kind : u \in others} \union {c.kind} \subseteq {"add", "get"}
      BY <1>1, <2>2, Zenon
    <3>2. clash' = "adds"
      BY <1>1, <2>2, <3>1, Zenon
    <3> QED
      BY <2>2, <3>1, <3>2, Zenon
  <2> QED
    BY <2>1, <2>2, Zenon
<1>5. clash' \in {"none", "adds"} /\ (clash' = "none" => clash = "none")
  BY <1>4, Zenon
<1>6. /\ pc'[t] = c.kind /\ op'[t] = c
      /\ \A u \in Threads : u # t => pc'[u] = pc[u] /\ op'[u] = op[u]
  BY <1>1, Zenon DEF Intact, TypeOK
<1>7. TypeOK' /\ ~broken'
  <2>1. calls' \in Nat
    BY <1>2 DEF Intact, TypeOK
  <2>2. alone' \in [Threads -> BOOLEAN]
    BY <1>1, Zenon
  <2>3. c.kind \in AddPc \union GetPc \union UpdatePc \union RemovePc \union {"idle"}
    BY <1>3, Zenon DEF AddPc, GetPc, UpdatePc, RemovePc
  <2>4. op' \in [Threads -> Calls \union {NoCall}]
        /\ pc' \in [Threads -> AddPc \union GetPc \union UpdatePc \union RemovePc \union {"idle"}]
    BY <1>1, <2>3, Zenon DEF Intact, TypeOK
  <2> QED
    BY <1>2, <2>1, <2>2, <2>4, Zenon DEF Intact, TypeOK
<1>8. OverlapOK'
  <2> SUFFICES ASSUME NEW a \in Threads, NEW b \in Threads, a # b, pc'[a] # "idle", pc'[b] # "idle"
               PROVE  clash' = "adds" /\ op'[a].kind \in {"add", "get"} /\ ~alone'[a]
    BY Zenon DEF OverlapOK
  <2>1. others # {}
    BY <1>6, Zenon
  <2>2. CASE a = t
    BY <1>1, <1>4, <1>6, <2>1, <2>2, Zenon
  <2>3. CASE a # t
    <3>1. a \in others
      BY <1>6, <2>3, Zenon
    <3> QED
      BY <1>1, <1>4, <1>6, <2>1, <2>3, <3>1, Zenon
  <2> QED
    BY <2>2, <2>3, Zenon
<1> HIDE DEF others
<1>9. List' = List
  BY <1>2, Zenon DEF List
<1>10. HeadOK'
  <2>1. \A u \in Threads : pc[u] \in {"set_head", "store"} => pc'[u] = pc[u]
    BY <1>2, <1>6, Zenon
  <2>2. HeadOK
    BY Zenon DEF Intact
  <2>3. Linked(node, head, List)' /\ EndsInRoot(node, List)' /\ (safe \subseteq Elements(List) /\ safe \subseteq live)'
    BY <1>2, <1>9, <2>2, Zenon DEF HeadOK
  <2>4. (\A i \in 1..Len(List) : List[i] \in live \/ (i = 1 /\ \E u \in Threads : pc[u] = "set_head"))'
    BY <1>2, <1>9, <2>1, <2>2, Zenon DEF HeadOK
  <2>5. (\A i \in 1..Len(List) : node[List[i]].path_live \/ \E u \in Threads : pc[u] = "store" /\ curr[u] = List[i])'
    <3> SUFFICES ASSUME NEW i \in 1..Len(List), ~node[List[i]].path_live
                 PROVE  \E u \in Threads : pc'[u] = "store" /\ curr[u] = List[i]
      BY <1>2, <1>9, Zenon
    <3>1. PICK u \in Threads : pc[u] = "store" /\ curr[u] = List[i]
      BY <2>2, Zenon DEF HeadOK
    <3>2. pc'[u] = "store"
      BY <2>1, <3>1, Zenon
    <3> QED
      BY <3>1, <3>2, Zenon
  <2> QED
    BY <2>3, <2>4, <2>5, Zenon DEF HeadOK
<1>11. /\ CallOK(t)' /\ GetOK(t)' /\ UpdateOK(t)' /\ RemoveOK(t)' /\ pc'[t] # "publish"
  <2>1. CallOK(t)'
    BY <1>3, <1>6, Zenon DEF CallOK, AddPc, GetPc, UpdatePc, RemovePc
  <2>2. GetOK(t)' /\ UpdateOK(t)' /\ RemoveOK(t)' /\ pc'[t] # "publish"
    BY <1>3, <1>6, Zenon DEF GetOK, UpdateOK, RemoveOK
  <2> QED
    BY <2>1, <2>2, Zenon
<1>12. ASSUME NEW u \in Threads, u # t
       PROVE  /\ CallOK(u)' /\ GetOK(u)' /\ UpdateOK(u)' /\ RemoveOK(u)'
              /\ pc'[u] = "publish" => PublishOK(u)'
  <2>1. pc'[u] = pc[u] /\ op'[u] = op[u]
    BY <1>6, <1>12, Zenon
  <2>2. \A n : Matches(u, n)' <=> Matches(u, n)
    BY <1>2, <2>1, Zenon DEF Matches
  <2>3. \A k : Passed(u, k)' <=> Passed(u, k)
    BY <1>2, <1>9, <2>1, Zenon DEF Passed, Matches
  <2>4. CallOK(u) /\ GetOK(u) /\ UpdateOK(u) /\ RemoveOK(u) /\ (pc[u] = "publish" => PublishOK(u))
    BY Zenon DEF Intact
  <2>5. CallOK(u)'
    BY <2>1, <2>4, Zenon DEF CallOK
  <2>6. Matches(u, head)' <=> Matches(u, head)
    BY <1>2, <2>1, Zenon DEF Matches
  <2>7. \A k \in 1..Len(List) : Matches(u, List[k])' <=> Matches(u, List[k])
    BY <1>2, <1>9, <2>1, Zenon DEF Matches
  <2>8. GetOK(u)'
    <3>1. pc[u] = "get_walk" /\ clash' = "none" =>
            \E k \in 1..(Len(List) + 1) : curr[u] = At(List, k) /\ Passed(u, k)
      BY <1>5, <2>4, Zenon DEF GetOK
    <3>2. pc[u] = "use" /\ clash' = "none" =>
            \E k \in 1..Len(List) : curr[u] = List[k] /\ Passed(u, k) /\ Matches(u, List[k])
      BY <1>5, <2>4, Zenon DEF GetOK
    <3>3. pc[u] = "use" /\ clash' = "none" =>
            \E k \in 1..Len(List) : curr[u] = List[k] /\ Passed(u, k)' /\ Matches(u, List[k])'
      BY <2>3, <2>7, <3>2, Zenon
    <3>4. pc[u] = "got_none" => got[u] = NULL /\ (clash' = "none" => Passed(u, Len(List) + 1)')
      BY <1>5, <1>9, <2>3, <2>4, Zenon DEF GetOK
    <3> QED
      BY <1>2, <1>9, <2>1, <2>3, <2>4, <3>1, <3>3, <3>4, Zenon DEF GetOK
  <2>9. UpdateOK(u)'
    BY <1>2, <1>9, <2>1, <2>3, <2>4, <2>7, Zenon DEF UpdateOK
  <2>10. RemoveOK(u)'
    <3>1. pc[u] = "unlink" => \E k \in 2..Len(List) :
            curr[u] = List[k] /\ prev[u] = List[k - 1] /\ Passed(u, k)' /\ Matches(u, List[k])'
      BY <1>2, <1>9, <2>1, <2>3, <2>4, Zenon DEF RemoveOK, Matches
    <3> QED
      BY <1>2, <1>9, <2>1, <2>3, <2>4, <2>6, <3>1, Zenon DEF RemoveOK
  <2>11. pc'[u] = "publish" => PublishOK(u)'
    BY <1>2, <1>5, <2>1, <2>4, Zenon DEF PublishOK
  <2> QED
    BY <2>5, <2>8, <2>9, <2>10, <2>11, Zenon
<1> QED
  BY <1>5, <1>7, <1>8, <1>10, <1>11, <1>12, Zenon DEF Intact

-----------------------------------------------------------------------------
\* At the start the list is the mapping of the mounted directory.
LEMMA InitList ==
    ASSUME Init
    PROVE  Linked(node, head, List) /\ List = <<head>> /\ head \in Nodes
<1>1. head \in Nodes /\ node[head].next = NULL
  BY Zenon DEF Init
<1> DEFINE s == <<head>>
<1>2. s \in Seq(Nodes)
  BY <1>1
<1>5. Len(s) = 1 /\ s[1] = head
  BY Zenon
<1>6. (\A i \in 1..1 : i = 1) /\ 1 \in 1..1 /\ 1 + 1 \notin 1..1
  OBVIOUS
<1> HIDE DEF s
<1>3. Linked(node, head, s)
  BY <1>1, <1>2, <1>5, <1>6, Zenon DEF Linked, At
<1>4. List = s
  BY <1>3, ListIs, Zenon DEF List
<1> QED
  BY <1>1, <1>3, <1>4, Zenon DEF s

\* The invariant holds at the start ...
LEMMA ListInit == Init => ListInv
<1> SUFFICES ASSUME Init PROVE ListInv
  BY Zenon
<1>1. Linked(node, head, List) /\ List = <<head>> /\ head \in Nodes
  BY InitList, Zenon
<1>2. Len(List) = 1 /\ List[1] = head /\ List # <<>> /\ \A i \in 1..1 : i = 1
  BY <1>1
<1>3. node[head].ino = Root /\ node[head].path = Root /\ node[head].path_live /\ live = {head} /\ safe = live
  BY Zenon DEF Init
<1>4. 1 \in 1..1
  OBVIOUS
<1>5. HeadOK
  <2>1. EndsInRoot(node, List)
    BY <1>2, <1>3, Zenon DEF EndsInRoot
  <2>2. safe \subseteq Elements(List)
    BY <1>2, <1>3, <1>4, Zenon DEF Elements
  <2> QED
    BY <1>1, <1>2, <1>3, <2>1, <2>2, Zenon DEF HeadOK
<1>6. TypeOK
  <2>1. [ino |-> Root, path |-> Root, path_live |-> TRUE, next |-> NULL] \in NodeType
    BY Zenon DEF NodeType, Pointers
  <2>2. node \in [Nodes -> NodeType]
    BY <2>1, Zenon DEF Init
  <2>3. calls \in Nat
    BY Zenon DEF Init
  <2> QED
    BY <1>1, <1>3, <2>2, <2>3, Zenon DEF Init, TypeOK, Pointers
<1>7. OverlapOK /\ ~broken /\ clash = "none"
  BY Zenon DEF Init, OverlapOK
<1>8. \A t \in Threads : pc[t] = "idle"
  BY Zenon DEF Init
<1> QED
  BY <1>5, <1>6, <1>7, <1>8, Zenon DEF ListInv, Intact, CallOK, GetOK, UpdateOK, RemoveOK

\* Every step of every thread keeps the invariant.
LEMMA ListStep == ListInv /\ [Next]_vars => ListInv'
<1> SUFFICES ASSUME ListInv, [Next]_vars PROVE ListInv'
  BY Zenon
<1>1. CASE UNCHANGED vars
  <2>1. Intact => Intact'
    <3> SUFFICES ASSUME Intact PROVE Intact'
      BY Zenon
    <3>1. /\ UNCHANGED <<head, node, live, calls, op, pc, curr, prev, got, broken, alone, safe, clash>>
      BY <1>1, Zenon DEF vars
    <3>2. List' = List
      BY <3>1, Zenon DEF List
    <3>3. TypeOK' /\ OverlapOK'
      BY <3>1, Zenon DEF Intact, TypeOK, OverlapOK
    <3>4. HeadOK'
      BY <3>1, <3>2, Zenon DEF Intact, HeadOK
    <3>5. ASSUME NEW t \in Threads
          PROVE  /\ CallOK(t)' /\ GetOK(t)' /\ UpdateOK(t)' /\ RemoveOK(t)'
                 /\ pc'[t] = "publish" => PublishOK(t)'
      <4>1. CallOK(t)' /\ (pc'[t] = "publish" => PublishOK(t)')
        BY <3>1, Zenon DEF Intact, CallOK, PublishOK
      <4> DEFINE M(n) == Matches(t, n)
      <4>4. \A n : M(n)' <=> M(n)
        BY <3>1, Zenon DEF Matches
      <4>5. \A k : Passed(t, k)' <=> Passed(t, k)
        BY <3>1, <3>2, Zenon DEF Passed, Matches
      <4>6. GetOK(t) /\ UpdateOK(t) /\ RemoveOK(t)
        BY Zenon DEF Intact
      <4>2. GetOK(t)'
        BY <3>1, <3>2, <4>4, <4>5, <4>6, Zenon DEF GetOK
      <4>3. UpdateOK(t)' /\ RemoveOK(t)'
        BY <3>1, <3>2, <4>4, <4>5, <4>6, Zenon DEF UpdateOK, RemoveOK
      <4> QED
        BY <4>1, <4>2, <4>3, Zenon
    <3> QED
      BY <3>1, <3>3, <3>4, <3>5, Zenon DEF Intact
  <2> QED
    BY <1>1, <2>1, Zenon DEF ListInv, vars
<1>2. ASSUME NEW t \in Threads, Begin(t) PROVE ListInv'
  <2>1. CASE clash = "any"
    BY <1>2, <2>1, Zenon DEF Begin, ListInv
  <2>2. CASE clash' = "any"
    BY <2>2, Zenon DEF ListInv
  <2>3. CASE clash # "any" /\ clash' # "any"
    BY <1>2, <2>3, BeginStep, Zenon DEF ListInv
  <2> QED
    BY <2>1, <2>2, <2>3, Zenon
<1>3. ASSUME NEW t \in Threads,
             \/ AddLink(t) \/ AddPublish(t) \/ RemoveFirst(t) \/ ReadSecond(t) \/ FreeHead(t) \/ SetHead(t)
             \/ ReadFirst(t) \/ RemoveWalk(t) \/ Unlink(t) \/ FreeMapping(t)
             \/ ReadHead(t) \/ UpdateWalk(t) \/ Store(t) \/ GetWalk(t) \/ Use(t)
      PROVE  ListInv'
  <2>1. clash' = clash
    BY <1>3, Zenon DEF AddLink, AddPublish, RemoveFirst, ReadSecond, FreeHead, SetHead, ReadFirst,
       RemoveWalk, Unlink, FreeMapping, ReadHead, UpdateWalk, Store, GetWalk, Use
  <2>2. ASSUME Intact PROVE Intact'
    <3>1. ReadHead(t) => pc[t] \in {"update", "get"}
      BY Zenon DEF ReadHead
    <3> QED
      BY <1>3, <2>2, <3>1, AddLinkStep, AddPublishStep, RemoveFirstStep, ReadSecondStep, FreeHeadStep,
         SetHeadStep, ReadFirstStep, RemoveWalkStep, UnlinkStep, FreeMappingStep, UpdateReadsHead,
         GetReadsHead, UpdateWalkStep, StoreStep, GetWalkStep, UseStep, Zenon
  <2> QED
    BY <2>1, <2>2, Zenon DEF ListInv
<1> QED
  BY <1>1, <1>2, <1>3, Zenon DEF Next

\* ... and therefore always.
LEMMA ListInvariant == Spec => []ListInv
BY ListInit, ListStep, PTL DEF Spec

-----------------------------------------------------------------------------
\* A search of the list of mappings finds the first position that has the inode number ...
LEMMA FirstInoIs ==
    ASSUME NEW cache, NEW n \in Nat, DOMAIN cache = 1..n, NEW ino, NEW k \in 1..n,
           cache[k].ino = ino, \A j \in 1..(k - 1) : cache[j].ino # ino
    PROVE  FirstIno(cache, ino) = k /\ k # 0
<1> DEFINE Is(i) == cache[i].ino = ino /\ \A j \in 1..(i - 1) : cache[j].ino # ino
           c == CHOOSE i \in DOMAIN cache : Is(i)
<1>1. c \in 1..n /\ Is(c)
  BY Zenon
<1>2. FirstIno(cache, ino) = c
  BY Zenon DEF FirstIno
<1> HIDE DEF c
<1>3. c < k => c \in 1..(k - 1)
  BY <1>1
<1>4. k < c => k \in 1..(c - 1)
  BY <1>1
<1>5. ~(c < k) /\ ~(k < c)
  BY <1>1, <1>3, <1>4, Zenon
<1>6. c = k /\ k # 0
  BY <1>1, <1>5
<1> QED
  BY <1>2, <1>6, Zenon

\* ... or the path.
LEMMA FirstPathIs ==
    ASSUME NEW cache, NEW n \in Nat, DOMAIN cache = 1..n, NEW path, NEW k \in 1..n,
           cache[k].path = path, \A j \in 1..(k - 1) : cache[j].path # path
    PROVE  FirstPath(cache, path) = k /\ k # 0
<1> DEFINE Is(i) == cache[i].path = path /\ \A j \in 1..(i - 1) : cache[j].path # path
           c == CHOOSE i \in DOMAIN cache : Is(i)
<1>1. c \in 1..n /\ Is(c)
  BY Zenon
<1>2. FirstPath(cache, path) = c
  BY Zenon DEF FirstPath
<1> HIDE DEF c
<1>3. c < k => c \in 1..(k - 1)
  BY <1>1
<1>4. k < c => k \in 1..(c - 1)
  BY <1>1
<1>5. ~(c < k) /\ ~(k < c)
  BY <1>1, <1>3, <1>4, Zenon
<1>6. c = k /\ k # 0
  BY <1>1, <1>5
<1> QED
  BY <1>2, <1>6, Zenon

\* What the list in the heap stands for, position by position.
LEMMA ContentsIs ==
    ASSUME Intact
    PROVE  /\ DOMAIN Contents = 1..Len(List) /\ Len(Contents) = Len(List) /\ DOMAIN List = 1..Len(List)
           /\ \A k \in 1..Len(List) : /\ Contents[k] = Mapping(node[List[k]].ino, node[List[k]].path)
                                      /\ Contents[k].ino = node[List[k]].ino
                                      /\ Contents[k].path = node[List[k]].path
<1>1. List \in Seq(Nodes) /\ Len(List) \in Nat
  BY HeadIs, Zenon
<1>2. DOMAIN List = 1..Len(List)
  BY <1>1
<1>3. Contents = [k \in 1..Len(List) |-> Mapping(node[List[k]].ino, node[List[k]].path)]
  BY <1>2, Zenon DEF Contents
<1>4. DOMAIN Contents = 1..Len(List)
  BY <1>3, Zenon
<1>5. \A k \in 1..Len(List) : Contents[k] = Mapping(node[List[k]].ino, node[List[k]].path)
  BY <1>3, Zenon
<1> DEFINE M == {Contents[k] : k \in 1..Len(List)}
           n == Len(List)
<1>6. Contents \in [1..n -> M]
  BY <1>3, <1>4, Zenon
<1> HIDE DEF M, n
<1>7. n \in Nat
  BY <1>1, Zenon DEF n
<1>8. Contents \in Seq(M)
  BY <1>6, <1>7
<1>9. Len(Contents) = n
  BY <1>4, <1>7, <1>8 DEF n
<1>10. \A k \in 1..Len(List) : Contents[k].ino = node[List[k]].ino /\ Contents[k].path = node[List[k]].path
  <2>1. \A i, p : Mapping(i, p).ino = i /\ Mapping(i, p).path = p
    BY Zenon DEF Mapping
  <2> SUFFICES ASSUME NEW k \in 1..Len(List)
               PROVE  Contents[k].ino = node[List[k]].ino /\ Contents[k].path = node[List[k]].path
    BY Zenon
  <2>2. Contents[k] = Mapping(node[List[k]].ino, node[List[k]].path)
    BY <1>5, Zenon
  <2>3. /\ Mapping(node[List[k]].ino, node[List[k]].path).ino = node[List[k]].ino
        /\ Mapping(node[List[k]].ino, node[List[k]].path).path = node[List[k]].path
    BY <2>1, Zenon
  <2> QED
    BY <2>2, <2>3, Zenon
<1> QED
  BY <1>2, <1>4, <1>5, <1>9, <1>10, Zenon DEF n

\* A step that touches no mapping of the list leaves what it stands for.
LEMMA SameContents ==
    ASSUME Intact, List' = List,
           \A k \in 1..Len(List) : /\ node'[List[k]].ino = node[List[k]].ino
                                   /\ node'[List[k]].path = node[List[k]].path
    PROVE  Contents' = Contents
<1>1. DOMAIN List = 1..Len(List)
  BY ContentsIs, Zenon
<1>2. Contents' = [k \in DOMAIN List |-> Mapping(node'[List[k]].ino, node'[List[k]].path)]
  BY Zenon DEF Contents
<1>3. \A k \in DOMAIN List : Mapping(node'[List[k]].ino, node'[List[k]].path)
                             = Mapping(node[List[k]].ino, node[List[k]].path)
  BY <1>1, Zenon
<1> QED
  BY <1>2, <1>3, Zenon DEF Contents

\* The mapping at which a call's search ends is the one the search of the list ends at.
LEMMA SearchIs ==
    ASSUME Intact, NEW t \in Threads, NEW k \in 1..Len(List), Passed(t, k), Matches(t, List[k])
    PROVE  /\ k # 0
           /\ op[t].kind \in {"remove", "get"} => FirstIno(Contents, op[t].ino) = k
           /\ op[t].kind \notin {"remove", "get"} => FirstPath(Contents, op[t].path) = k
<1>1. /\ DOMAIN Contents = 1..Len(List) /\ Len(List) \in Nat
      /\ \A i \in 1..Len(List) : Contents[i].ino = node[List[i]].ino /\ Contents[i].path = node[List[i]].path
  BY ContentsIs, HeadIs, Zenon
<1>2. \A j \in 1..(k - 1) : j \in 1..Len(List)
  BY <1>1
<1>3. CASE op[t].kind \in {"remove", "get"}
  <2>1. Contents[k].ino = op[t].ino /\ \A j \in 1..(k - 1) : Contents[j].ino # op[t].ino
    BY <1>1, <1>2, <1>3, Zenon DEF Passed, Matches
  <2> QED
    BY <1>1, <1>3, <2>1, FirstInoIs
<1>4. CASE op[t].kind \notin {"remove", "get"}
  <2>1. Contents[k].path = op[t].path /\ \A j \in 1..(k - 1) : Contents[j].path # op[t].path
    BY <1>1, <1>2, <1>4, Zenon DEF Passed, Matches
  <2> QED
    BY <1>1, <1>4, <2>1, FirstPathIs
<1> QED
  BY <1>3, <1>4, Zenon

\* A call's arguments are inode numbers and paths below the mounted directory.
LEMMA CallArguments ==
    ASSUME NEW c \in Calls
    PROVE  /\ c.kind \in {"add", "remove", "get"} => c.ino \in Inos
           /\ c.kind \in {"add", "remove_path", "update"} => c.path \in Paths
           /\ c.kind = "update" => c.new \in Paths
BY Zenon DEF Calls

\* A step that takes the mapping a removal looks for out of the list is a removal.
LEMMA RemovalIs ==
    ASSUME Intact, NEW t \in Threads, op[t] \in Calls, op[t].kind \in {"remove", "remove_path"},
           NEW k \in 1..Len(List), Passed(t, k), Matches(t, List[k]),
           Contents' = DropAt(Contents, k)
    PROVE  Cache!Next
<1>1. CASE op[t].kind = "remove"
  <2>1. FirstIno(Contents, op[t].ino) = k /\ k # 0 /\ op[t].ino \in Inos
    BY <1>1, SearchIs, CallArguments, Zenon
  <2>2. Contents' = remove_inode_mapping_by_inode_number(Contents, op[t].ino)
    BY <2>1, Zenon DEF remove_inode_mapping_by_inode_number
  <2>3. Cache!remove_inode_mapping_by_inode_number(Contents, op[t].ino)
        = remove_inode_mapping_by_inode_number(Contents, op[t].ino)
    BY Zenon DEF Cache!remove_inode_mapping_by_inode_number, remove_inode_mapping_by_inode_number,
                 Cache!FirstIno, FirstIno, Cache!DropAt, DropAt
  <2>4. Cache!RemoveByInode
    BY <2>1, <2>2, <2>3, Zenon DEF Cache!RemoveByInode
  <2> QED
    BY <2>4, Zenon DEF Cache!Next
<1>2. CASE op[t].kind = "remove_path"
  <2>1. FirstPath(Contents, op[t].path) = k /\ k # 0 /\ op[t].path \in Paths
    BY <1>2, SearchIs, CallArguments, Zenon
  <2>2. Contents' = remove_inode_mapping_by_absolute_path(Contents, op[t].path)
    BY <2>1, Zenon DEF remove_inode_mapping_by_absolute_path
  <2>3. Cache!remove_inode_mapping_by_absolute_path(Contents, op[t].path)
        = remove_inode_mapping_by_absolute_path(Contents, op[t].path)
    BY Zenon DEF Cache!remove_inode_mapping_by_absolute_path, remove_inode_mapping_by_absolute_path,
                 Cache!FirstPath, FirstPath, Cache!DropAt, DropAt
  <2>4. Cache!RemoveByPath
    BY <2>1, <2>2, <2>3, Zenon DEF Cache!RemoveByPath
  <2> QED
    BY <2>4, Zenon DEF Cache!Next
<1> QED
  BY <1>1, <1>2, Zenon

\* Moving the head to the second mapping takes the first out of the list.
LEMMA SetHeadIs ==
    ASSUME Intact, NEW t \in Threads, SetHead(t)
    PROVE  Cache!Next
<1>1. Intact' /\ List' = Tail(List)
  BY SetHeadStep, Zenon
<1>2. node' = node /\ pc[t] = "set_head"
  BY Zenon DEF SetHead
<1>3. /\ Matches(t, head) /\ op[t] \in Calls /\ op[t].kind \in {"remove", "remove_path"}
  BY <1>2, Zenon DEF Intact, RemoveOK, CallOK, AddPc, GetPc, UpdatePc
<1>4. /\ List \in Seq(Nodes) /\ 1 \in 1..Len(List) /\ head = List[1] /\ Len(List) \in Nat /\ Len(List) >= 1
  BY HeadIs, Zenon
<1>5. Passed(t, 1)
  BY DEF Passed
<1>6. Contents' = DropAt(Contents, 1)
  <2>1. /\ Len(Contents) = Len(List)
        /\ \A k \in 1..Len(List) : Contents[k] = Mapping(node[List[k]].ino, node[List[k]].path)
    BY ContentsIs, Zenon
  <2> DEFINE T == Tail(List)
  <2>2. Len(T) = Len(List) - 1 /\ DOMAIN T = 1..(Len(List) - 1)
        /\ \A i \in 1..(Len(List) - 1) : T[i] = List[i + 1]
    BY <1>4
  <2>3. \A i \in 1..(Len(List) - 1) : ~(i < 1) /\ i + 1 \in 1..Len(List)
    BY <1>4
  <2> HIDE DEF T
  <2>4. Contents' = [k \in DOMAIN T |-> Mapping(node[T[k]].ino, node[T[k]].path)]
    BY <1>1, <1>2, Zenon DEF T, Contents
  <2>5. Contents' = [k \in 1..(Len(List) - 1) |-> Mapping(node[T[k]].ino, node[T[k]].path)]
    BY <2>2, <2>4, Zenon
  <2>6. \A k \in 1..(Len(List) - 1) :
            Mapping(node[T[k]].ino, node[T[k]].path) = IF k < 1 THEN Contents[k] ELSE Contents[k + 1]
    BY <2>1, <2>2, <2>3, Zenon
  <2> QED
    BY <2>1, <2>5, <2>6, Zenon DEF DropAt
<1> QED
  BY <1>3, <1>4, <1>5, <1>6, RemovalIs, Zenon

\* Linking over a mapping takes it out of the list.
LEMMA UnlinkIs ==
    ASSUME Intact, NEW t \in Threads, Unlink(t)
    PROVE  Cache!Next
<1>1. PICK k \in 2..Len(List) :
        /\ Passed(t, k) /\ Matches(t, List[k]) /\ List' = DropAt(List, k)
        /\ \A n \in Nodes : node'[n].ino = node[n].ino /\ node'[n].path = node[n].path
  BY UnlinkStep, Zenon
<1>2. pc[t] = "unlink"
  BY Zenon DEF Unlink
<1>3. op[t] \in Calls /\ op[t].kind \in {"remove", "remove_path"}
  BY <1>2, Zenon DEF Intact, RemoveOK, CallOK, AddPc, GetPc, UpdatePc
<1>4. Len(List) \in Nat /\ \A i \in 1..Len(List) : List[i] \in Nodes
  BY HeadIs, Zenon
<1>5. k \in 1..Len(List)
  BY <1>4
<1>6. Contents' = DropAt(Contents, k)
  <2>1. /\ Len(Contents) = Len(List)
        /\ \A i \in 1..Len(List) : Contents[i] = Mapping(node[List[i]].ino, node[List[i]].path)
    BY ContentsIs, Zenon
  <2> DEFINE D == DropAt(List, k)
  <2>2. DOMAIN D = 1..(Len(List) - 1)
        /\ \A i \in 1..(Len(List) - 1) : D[i] = IF i < k THEN List[i] ELSE List[i + 1]
    BY Zenon DEF DropAt
  <2>3. \A i \in 1..(Len(List) - 1) : i \in 1..Len(List) /\ i + 1 \in 1..Len(List)
    BY <1>4
  <2> HIDE DEF D
  <2>4. Contents' = [i \in DOMAIN D |-> Mapping(node'[D[i]].ino, node'[D[i]].path)]
    BY <1>1, Zenon DEF D, Contents
  <2>5. Contents' = [i \in 1..(Len(List) - 1) |-> Mapping(node'[D[i]].ino, node'[D[i]].path)]
    BY <2>2, <2>4, Zenon
  <2>6. ASSUME NEW i \in 1..(Len(List) - 1)
        PROVE  Mapping(node'[D[i]].ino, node'[D[i]].path) = IF i < k THEN Contents[i] ELSE Contents[i + 1]
    <3>1. D[i] \in Nodes
      BY <1>4, <2>2, <2>3, Zenon
    <3>2. Mapping(node'[D[i]].ino, node'[D[i]].path) = Mapping(node[D[i]].ino, node[D[i]].path)
      BY <1>1, <3>1, Zenon
    <3> QED
      BY <2>1, <2>2, <2>3, <3>2, Zenon
  <2> QED
    BY <2>1, <2>5, <2>6, Zenon DEF DropAt
<1> QED
  BY <1>1, <1>3, <1>5, <1>6, RemovalIs, Zenon

\* Storing the copy of the new path changes the path of the mapping that was found.
LEMMA StoreIs ==
    ASSUME Intact, NEW t \in Threads, Store(t)
    PROVE  Cache!Next
<1>1. List' = List /\ op[t] \in Calls /\ op[t].kind = "update"
  BY StoreStep, Zenon
<1>2. PICK k \in 1..Len(List) :
        /\ Passed(t, k) /\ Matches(t, List[k])
        /\ node'[List[k]].ino = node[List[k]].ino /\ node'[List[k]].path = op[t].new
        /\ \A n \in Nodes \ {List[k]} : node'[n] = node[n]
  BY StoreStep, Zenon
<1>3. FirstPath(Contents, op[t].path) = k /\ k # 0
  BY <1>1, <1>2, SearchIs, Zenon
<1>4. op[t].path \in Paths /\ op[t].new \in Paths
  BY <1>1, CallArguments, Zenon
<1>5. Contents' = [Contents EXCEPT ![k].path = op[t].new]
  <2>1. /\ DOMAIN Contents = 1..Len(List) /\ DOMAIN List = 1..Len(List)
        /\ \A i \in 1..Len(List) : Contents[i] = Mapping(node[List[i]].ino, node[List[i]].path)
    BY ContentsIs, Zenon
  <2>2. Contents' = [i \in 1..Len(List) |-> Mapping(node'[List[i]].ino, node'[List[i]].path)]
    BY <1>1, <2>1, Zenon DEF Contents
  <2>3. \A i \in 1..Len(List) : i # k => List[i] \in Nodes \ {List[k]}
    BY HeadIs, Zenon
  <2>4. \A i \in 1..Len(List) : i # k => Mapping(node'[List[i]].ino, node'[List[i]].path) = Contents[i]
    BY <1>2, <2>1, <2>3, Zenon
  <2>5. Mapping(node'[List[k]].ino, node'[List[k]].path) = [Contents[k] EXCEPT !.path = op[t].new]
    <3>1. \A i, p, q : [Mapping(i, p) EXCEPT !.path = q] = Mapping(i, q)
      BY DEF Mapping
    <3>2. Contents[k] = Mapping(node[List[k]].ino, node[List[k]].path)
      BY <2>1, Zenon
    <3>3. [Mapping(node[List[k]].ino, node[List[k]].path) EXCEPT !.path = op[t].new]
          = Mapping(node[List[k]].ino, op[t].new)
      BY <3>1, Zenon
    <3>4. Mapping(node'[List[k]].ino, node'[List[k]].path) = Mapping(node[List[k]].ino, op[t].new)
      BY <1>2, Zenon
    <3> QED
      BY <3>2, <3>3, <3>4, Zenon
  <2>6. [Contents EXCEPT ![k].path = op[t].new]
        = [i \in 1..Len(List) |-> IF i = k THEN [Contents[k] EXCEPT !.path = op[t].new] ELSE Contents[i]]
    BY <2>1, Zenon
  <2> QED
    BY <2>2, <2>4, <2>5, <2>6, Zenon
<1>6. Contents' = update_inode_mapping_absolute_path(Contents, op[t].path, op[t].new)
  BY <1>3, <1>5, Zenon DEF update_inode_mapping_absolute_path
<1>7. Cache!update_inode_mapping_absolute_path(Contents, op[t].path, op[t].new)
      = update_inode_mapping_absolute_path(Contents, op[t].path, op[t].new)
  BY Zenon DEF Cache!update_inode_mapping_absolute_path, update_inode_mapping_absolute_path,
               Cache!FirstPath, FirstPath
<1>8. Cache!Update
  BY <1>4, <1>6, <1>7, Zenon DEF Cache!Update
<1> QED
  BY <1>8, Zenon DEF Cache!Next

\* Moving the head to the new mapping adds it to the list.
LEMMA AddPublishIs ==
    ASSUME Intact, NEW t \in Threads, AddPublish(t), clash = "none"
    PROVE  Cache!Next
<1>1. /\ node' = node /\ op[t] \in Calls /\ op[t].kind = "add" /\ List' = <<curr[t]>> \o List
      /\ node[curr[t]].ino = op[t].ino /\ node[curr[t]].path = op[t].path
  BY AddPublishStep, Zenon
<1>2. op[t].ino \in Inos /\ op[t].path \in Paths
  BY <1>1, CallArguments, Zenon
<1>3. Contents' = <<Mapping(op[t].ino, op[t].path)>> \o Contents
  <2>1. /\ Len(Contents) = Len(List) /\ DOMAIN Contents = 1..Len(List)
        /\ \A i \in 1..Len(List) : Contents[i] = Mapping(node[List[i]].ino, node[List[i]].path)
    BY ContentsIs, Zenon
  <2>2. List \in Seq(Nodes) /\ Len(List) \in Nat
    BY HeadIs, Zenon
  <2> DEFINE L == <<curr[t]>> \o List
             n == Len(List)
             m == Mapping(op[t].ino, op[t].path)
             C == Contents
  <2> HIDE DEF m, C
  <2>3. /\ DOMAIN L = 1..(n + 1) /\ L[1] = curr[t] /\ \A i \in 1..(n + 1) : i # 1 => L[i] = List[i - 1]
    BY <2>2
  <2>4. \A i \in 1..(n + 1) : i # 1 => i - 1 \in 1..n
    BY <2>2
  <2> HIDE DEF L
  <2>5. Contents' = [i \in 1..(n + 1) |-> Mapping(node[L[i]].ino, node[L[i]].path)]
    BY <1>1, <2>3, Zenon DEF L, Contents
  <2>6. \A i \in 1..(n + 1) : Mapping(node[L[i]].ino, node[L[i]].path) = IF i = 1 THEN m ELSE C[i - 1]
    BY <1>1, <2>1, <2>3, <2>4, Zenon DEF m, C
  <2>7. C \in Seq({C[i] : i \in 1..n}) /\ Len(C) = n
    <3> DEFINE S == {C[i] : i \in 1..n}
    <3>1. C \in [1..n -> S]
      BY <2>1, Zenon DEF C, Contents
    <3>2. n \in Nat
      BY <2>2, Zenon
    <3> HIDE DEF n, S
    <3>3. C \in Seq(S)
      BY <3>1, <3>2
    <3>4. Len(C) = n
      BY <2>1, Zenon DEF C, n
    <3> QED
      BY <3>3, <3>4, Zenon DEF S
  <2> HIDE DEF n
  <2>8. <<m>> \o C = [i \in 1..(n + 1) |-> IF i = 1 THEN m ELSE C[i - 1]]
    BY <2>7
  <2> QED
    BY <2>5, <2>6, <2>8, Zenon DEF m, C
<1>4. Contents' = Cache!add_inode_mapping(Contents, op[t].ino, op[t].path)
  BY <1>3, Zenon DEF Cache!add_inode_mapping, Cache!Mapping, Mapping
<1>5. Cache!Add
  BY <1>2, <1>4, Zenon DEF Cache!Add
<1> QED
  BY <1>5, Zenon DEF Cache!Next

\* As long as no two calls have overlapped, every step of a thread is a step of the list
\* of mappings or leaves the list as it is.
LEMMA SerialStep ==
    ASSUME Intact, clash = "none", [Next]_vars
    PROVE  Cache!Next \/ UNCHANGED Contents
<1>1. CASE UNCHANGED vars
  <2>1. head' = head /\ node' = node
    BY <1>1, Zenon DEF vars
  <2>2. List' = List
    BY <2>1, Zenon DEF List
  <2> QED
    BY <2>1, <2>2, SameContents, Zenon
<1>2. ASSUME NEW t \in Threads,
             \/ Begin(t) \/ RemoveFirst(t) \/ ReadSecond(t) \/ FreeHead(t) \/ ReadFirst(t) \/ RemoveWalk(t)
             \/ FreeMapping(t) \/ ReadHead(t) \/ GetWalk(t) \/ Use(t)
      PROVE  UNCHANGED Contents
  <2>1. head' = head /\ node' = node
    BY <1>2, Zenon DEF Begin, RemoveFirst, ReadSecond, FreeHead, ReadFirst, RemoveWalk, FreeMapping,
       ReadHead, GetWalk, Use
  <2>2. List' = List
    BY <2>1, Zenon DEF List
  <2> QED
    BY <2>1, <2>2, SameContents, Zenon
<1>3. ASSUME NEW t \in Threads, AddLink(t) \/ UpdateWalk(t) PROVE UNCHANGED Contents
  <2>1. \A k \in 1..Len(List) : List[k] \in Nodes
    BY HeadIs, Zenon
  <2>2. List' = List /\ \A k \in 1..Len(List) : /\ node'[List[k]].ino = node[List[k]].ino
                                                /\ node'[List[k]].path = node[List[k]].path
    BY <1>3, <2>1, AddLinkStep, UpdateWalkStep, Zenon
  <2> QED
    BY <2>2, SameContents, Zenon
<1> QED
  BY <1>1, <1>2, <1>3, AddPublishIs, SetHeadIs, UnlinkIs, StoreIs, Zenon DEF Next

\* At the start both lists hold the mapping of the mounted directory.
LEMMA SerialInit == Init => Cache!Init
<1> SUFFICES ASSUME Init PROVE Contents = <<Mapping(Root, Root)>>
  BY Zenon DEF Cache!Init, Cache!Mapping, Mapping
<1>1. List = <<head>> /\ head \in Nodes
  BY InitList, Zenon
<1>2. node[head].ino = Root /\ node[head].path = Root
  BY <1>1, Zenon DEF Init
<1> DEFINE s == <<head>>
           m == Mapping(Root, Root)
<1>3. Contents = [k \in DOMAIN s |-> Mapping(node[s[k]].ino, node[s[k]].path)]
  BY <1>1, Zenon DEF Contents
<1>4. DOMAIN s = 1..1 /\ \A k \in 1..1 : s[k] = head
  OBVIOUS
<1> HIDE DEF s
<1>5. Contents = [k \in 1..1 |-> m]
  BY <1>2, <1>3, <1>4, Zenon
<1> HIDE DEF m
<1>6. <<m>> = [k \in 1..1 |-> m]
  OBVIOUS
<1> QED
  BY <1>5, <1>6, Zenon DEF m

\* As long as no removal and no update overlaps with another call, no freed memory is
\* used and no mapping that was added undisturbed is lost, however many threads of the
\* TCP server add and look up mappings at the same time.
THEOREM ListSafety == Spec => []SafeUnlessRemovalOverlaps
<1>1. ListInv => SafeUnlessRemovalOverlaps
  <2> SUFFICES ASSUME Intact PROVE ~broken /\ safe \subseteq Reachable
    BY Zenon DEF ListInv, SafeUnlessRemovalOverlaps
  <2>1. ~broken /\ safe \subseteq Elements(List)
    BY Zenon DEF Intact, HeadOK
  <2>2. DOMAIN List = 1..Len(List)
    BY ContentsIs, Zenon
  <2> QED
    BY <2>1, <2>2, Zenon DEF Elements, Reachable
<1> QED
  BY <1>1, ListInvariant, PTL

\* As long as no two calls overlap, a look-up returns the path of the newest mapping of
\* the inode number, and NULL only if there is none.
THEOREM LookupSafety == Spec => []GetReturnsNewest
<1>1. ListInv => GetReturnsNewest
  <2> SUFFICES ASSUME Intact, clash = "none", NEW t \in Threads, pc[t] \in {"use", "got_none"}
               PROVE  got[t] = get_absolute_path_from_inode_number(Contents, op[t].ino)
    BY Zenon DEF ListInv, GetReturnsNewest
  <2>1. op[t].kind = "get" /\ GetOK(t)
    BY Zenon DEF Intact, CallOK, AddPc, GetPc, UpdatePc, RemovePc
  <2>2. /\ DOMAIN Contents = 1..Len(List)
        /\ \A k \in 1..Len(List) : Contents[k].ino = node[List[k]].ino /\ Contents[k].path = node[List[k]].path
    BY ContentsIs, Zenon
  <2>3. CASE pc[t] = "use"
    <3>1. PICK k \in 1..Len(List) : curr[t] = List[k] /\ Passed(t, k) /\ Matches(t, List[k])
      BY <2>1, <2>3, Zenon DEF GetOK
    <3>2. FirstIno(Contents, op[t].ino) = k /\ k # 0
      BY <2>1, <3>1, SearchIs, Zenon
    <3>3. got[t] = Contents[k].path
      BY <2>1, <2>2, <2>3, <3>1, Zenon DEF GetOK
    <3> QED
      BY <3>2, <3>3, Zenon DEF get_absolute_path_from_inode_number
  <2>4. CASE pc[t] = "got_none"
    <3>1. got[t] = NULL /\ Passed(t, Len(List) + 1)
      BY <2>1, <2>4, Zenon DEF GetOK
    <3>2. \A k \in 1..Len(List) : k \in 1..((Len(List) + 1) - 1)
      <4>1. Len(List) \in Nat
        BY HeadIs, Zenon
      <4> QED
        BY <4>1
    <3>3. \A k \in 1..Len(List) : ~Matches(t, List[k])
      BY <3>1, <3>2, Zenon DEF Passed
    <3>4. \A k \in DOMAIN Contents : Contents[k].ino # op[t].ino
      BY <2>1, <2>2, <3>3, Zenon DEF Matches
    <3> QED
      BY <3>1, <3>4, Zenon DEF get_absolute_path_from_inode_number, FirstIno
  <2> QED
    BY <2>3, <2>4, Zenon
<1> QED
  BY <1>1, ListInvariant, PTL

\* As long as no two calls overlap, the linked list implements the list of mappings.
THEOREM SerialRefinement == Spec => SerialLikeList
<1>1. ListInv /\ [Next]_vars => [clash = "none" => Cache!Next \/ UNCHANGED Contents]_vars
  <2> SUFFICES ASSUME ListInv, [Next]_vars, clash = "none" PROVE Cache!Next \/ UNCHANGED Contents
    BY Zenon
  <2>1. Intact
    BY Zenon DEF ListInv
  <2> QED
    BY <2>1, SerialStep, Zenon
<1> QED
  BY <1>1, SerialInit, ListInvariant, PTL DEF Spec, SerialLikeList
=============================================================================
