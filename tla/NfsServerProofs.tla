--------------------------- MODULE NfsServerProofs ---------------------------
(***************************************************************************)
(* For any names, inodes, exports and depth of the tree, and lists of any  *)
(* length: that the procedures keep the exported files a tree, that the    *)
(* handle of a mounted directory leads back to it, and that no procedure   *)
(* but RENAME makes a handle lead to the wrong file.                       *)
(***************************************************************************)
EXTENDS NfsServer, WellFoundedInduction, TLAPS

FileType == {"none", "NFREG", "NFDIR", "NFLNK"}

TypeOK ==
    /\ tree \in [Path -> Inode \cup {NULL}] /\ ftype \in [Inode -> FileType]
    /\ inode_cache \in Seq([ino : Inode, path : Path])
    /\ mount_list \in Seq(Exports)

ServerInv == TypeOK /\ TreeOK

\* No exported directory is below another one.
NoNestedExports == \A d, e \in Exports : Under(d, e) => d = e

\* What is mapped is at or below an export.
CacheBelowExports ==
    \A k \in DOMAIN inode_cache : \E e \in Exports : Under(e, inode_cache[k].path)

\* An exported directory is mapped to no path but its own.
ExportsMapped ==
    \A k \in DOMAIN inode_cache : \A e \in Exports :
        TypeAt(e) = "NFDIR" /\ inode_cache[k].ino = tree[e] => inode_cache[k].path = e

\* A mounted directory is there, and mapped.
MountsMapped ==
    \A j \in DOMAIN mount_list :
        /\ TypeAt(mount_list[j]) = "NFDIR"
        /\ \E k \in DOMAIN inode_cache : inode_cache[k].ino = tree[mount_list[j]]

MountInv == ServerInv /\ CacheBelowExports /\ ExportsMapped /\ MountsMapped

-----------------------------------------------------------------------------
(***************************************************************************)
(* Paths.                                                                  *)
(***************************************************************************)
\* A non-empty set of natural numbers has a least element.
LEMMA LeastElement ==
    ASSUME NEW S \in SUBSET Nat, S # {}
    PROVE  \E x \in S : \A y \in S : x <= y
<1> DEFINE R == {ss \in Nat \X Nat : ss[1] < ss[2]}
<1>1. IsWellFoundedOn(R, Nat)
  BY NatLessThanWellFounded, Zenon DEF OpToRel
<1> HIDE DEF R
<1>2. PICK x \in S : \A y \in S : ~(<<y, x>> \in R)
  BY <1>1, WFMin, Zenon
<1>3. \A y \in S : x <= y
  <2> SUFFICES ASSUME NEW y \in S, y < x PROVE FALSE
    OBVIOUS
  <2>1. <<y, x>> \in R
    BY Zenon DEF R
  <2> QED
    BY <1>2, <2>1, Zenon
<1> QED
  BY <1>3, Zenon

\* The elements of a sequence
LEMMA ElementOf == ASSUME NEW S, NEW s \in Seq(S), NEW k \in 1..Len(s) PROVE s[k] \in S
OBVIOUS

\* Two sequences, one after the other
LEMMA Joined ==
    ASSUME NEW S, NEW s \in Seq(S), NEW t \in Seq(S)
    PROVE  /\ s \o t \in Seq(S) /\ Len(s \o t) = Len(s) + Len(t)
           /\ \A j \in 1..(Len(s) + Len(t)) : (s \o t)[j] = IF j <= Len(s) THEN s[j] ELSE t[j - Len(s)]
<1>1. s \o t \in Seq(S)
  OBVIOUS
<1>2. Len(s \o t) = Len(s) + Len(t)
  OBVIOUS
<1>3. ASSUME NEW j \in 1..(Len(s) + Len(t)) PROVE (s \o t)[j] = IF j <= Len(s) THEN s[j] ELSE t[j - Len(s)]
  OBVIOUS
<1> QED
  BY <1>1, <1>2, <1>3, Zenon

\* Paths are the sequences of at most MaxDepth names.
LEMMA PathIs == \A p : p \in Path <=> p \in Seq(Name) /\ Len(p) <= MaxDepth
<1>1. MaxDepth \in Nat
  BY FileSystemAssumption, Zenon
<1>2. ASSUME NEW p \in Path PROVE p \in Seq(Name) /\ Len(p) <= MaxDepth
  <2>1. PICK n \in 0..MaxDepth : p \in [1..n -> Name]
    BY Zenon DEF Path
  <2>2. n \in Nat
    BY <1>1, <2>1
  <2>3. p \in Seq(Name)
    BY <2>1, <2>2
  <2>4. Len(p) = n
    BY <2>1, <2>2
  <2> QED
    BY <1>1, <2>1, <2>3, <2>4
<1>3. ASSUME NEW p \in Seq(Name), Len(p) <= MaxDepth PROVE p \in Path
  <2>1. Len(p) \in 0..MaxDepth /\ p \in [1..Len(p) -> Name]
    BY <1>1, <1>3
  <2> QED
    BY <2>1, Zenon DEF Path
<1> QED
  BY <1>2, <1>3, Zenon

\* Two sequences with the same elements are equal.
LEMMA SameSequence ==
    ASSUME NEW p \in Seq(Name), NEW q \in Seq(Name), Len(p) = Len(q),
           \A i \in 1..Len(p) : p[i] = q[i]
    PROVE  p = q
OBVIOUS

\* A path is at or below another one if it begins with its names.
LEMMA UnderIs ==
    ASSUME NEW d \in Seq(Name), NEW p \in Seq(Name)
    PROVE  Under(d, p) <=> Len(d) <= Len(p) /\ \A i \in 1..Len(d) : p[i] = d[i]
<1>1. CASE Len(d) <= Len(p)
  <2>1. SubSeq(p, 1, Len(d)) \in Seq(Name) /\ Len(SubSeq(p, 1, Len(d))) = Len(d)
    BY <1>1
  <2>2. \A i \in 1..Len(d) : SubSeq(p, 1, Len(d))[i] = p[i]
    BY <1>1
  <2> HIDE DEF Under
  <2>3. ASSUME \A i \in 1..Len(d) : p[i] = d[i] PROVE SubSeq(p, 1, Len(d)) = d
    BY <2>1, <2>2, <2>3, SameSequence, Zenon
  <2> QED
    BY <1>1, <2>2, <2>3, Zenon DEF Under
<1>2. CASE ~(Len(d) <= Len(p))
  BY <1>2, Zenon DEF Under
<1> QED
  BY <1>1, <1>2, Zenon

Parent(p) == SubSeq(p, 1, Len(p) - 1)

\* A path without its last name
LEMMA ParentIs ==
    ASSUME NEW p \in Seq(Name), p # <<>>
    PROVE  /\ Parent(p) \in Seq(Name) /\ Len(Parent(p)) = Len(p) - 1 /\ Len(p) >= 1
           /\ \A i \in 1..(Len(p) - 1) : Parent(p)[i] = p[i]
<1> DEFINE n == Len(p) - 1
<1>1. n \in Nat /\ n + 1 = Len(p) /\ Len(p) \in Nat
  OBVIOUS
<1>2. Parent(p) = SubSeq(p, 1, n)
  BY Zenon DEF Parent
<1> HIDE DEF n
<1>3. SubSeq(p, 1, n) \in Seq(Name) /\ Len(SubSeq(p, 1, n)) = n
  BY <1>1
<1>4. \A i \in 1..n : SubSeq(p, 1, n)[i] = p[i]
  BY <1>1
<1>5. n = Len(p) - 1 /\ Len(p) >= 1
  BY <1>1
<1> QED
  BY <1>2, <1>3, <1>4, <1>5, Zenon

\* A path with one more name
LEMMA AppendIs ==
    ASSUME NEW d \in Seq(Name), NEW n \in Name
    PROVE  /\ Append(d, n) \in Seq(Name) /\ Append(d, n) # <<>> /\ Len(Append(d, n)) = Len(d) + 1
           /\ \A i \in 1..Len(d) : Append(d, n)[i] = d[i]
           /\ Append(d, n)[Len(d) + 1] = n
           /\ Parent(Append(d, n)) = d /\ Under(d, Append(d, n))
<1> DEFINE c == Append(d, n)
<1>1. c \in Seq(Name) /\ Len(c) = Len(d) + 1 /\ \A i \in 1..Len(d) : c[i] = d[i]
  OBVIOUS
<1>2. c[Len(d) + 1] = n /\ c # <<>>
  BY <1>1
<1> HIDE DEF c
<1>3. Parent(c) = d
  <2>1. /\ Parent(c) \in Seq(Name) /\ Len(Parent(c)) = Len(c) - 1
        /\ \A i \in 1..(Len(c) - 1) : Parent(c)[i] = c[i]
    BY <1>1, <1>2, ParentIs, Zenon
  <2>2. Len(c) - 1 = Len(d)
    BY <1>1
  <2> QED
    BY <1>1, <2>1, <2>2, SameSequence, Zenon
<1>4. Under(d, c)
  BY <1>1, UnderIs
<1> QED
  BY <1>1, <1>2, <1>3, <1>4, Zenon DEF c

\* What is below a path that is below another one is below that one.
LEMMA UnderTransitive ==
    ASSUME NEW d \in Seq(Name), NEW p \in Seq(Name), NEW q \in Seq(Name), Under(d, p), Under(p, q)
    PROVE  Under(d, q)
<1>1. Len(d) <= Len(p) /\ (\A i \in 1..Len(d) : p[i] = d[i])
  BY UnderIs, Zenon
<1>2. Len(p) <= Len(q) /\ (\A i \in 1..Len(p) : q[i] = p[i])
  BY UnderIs, Zenon
<1>3. Len(d) <= Len(q) /\ (\A i \in 1..Len(d) : q[i] = d[i])
  BY <1>1, <1>2
<1> QED
  BY <1>3, UnderIs, Zenon

\* A path is below its ancestors, and what is below a path's parent is no further up.
LEMMA UnderParent ==
    ASSUME NEW d \in Seq(Name), NEW p \in Seq(Name), p # <<>>
    PROVE  /\ Under(d, Parent(p)) => Under(d, p)
           /\ Under(d, p) /\ d # p => Under(d, Parent(p)) /\ Len(d) < Len(p)
<1>1. /\ Parent(p) \in Seq(Name) /\ Len(Parent(p)) = Len(p) - 1 /\ Len(p) >= 1
      /\ \A i \in 1..(Len(p) - 1) : Parent(p)[i] = p[i]
  BY ParentIs, Zenon
<1>2. ASSUME Under(d, Parent(p)) PROVE Under(d, p)
  <2>1. Len(d) <= Len(Parent(p)) /\ (\A i \in 1..Len(d) : Parent(p)[i] = d[i])
    BY <1>1, <1>2, UnderIs, Zenon
  <2>2. Len(d) <= Len(p) /\ (\A i \in 1..Len(d) : p[i] = d[i])
    BY <1>1, <2>1
  <2> QED
    BY <2>2, UnderIs, Zenon
<1>3. ASSUME Under(d, p), d # p PROVE Under(d, Parent(p)) /\ Len(d) < Len(p)
  <2>1. Len(d) <= Len(p) /\ (\A i \in 1..Len(d) : p[i] = d[i])
    BY <1>3, UnderIs, Zenon
  <2>2. Len(d) # Len(p)
    BY <1>3, <2>1, SameSequence, Zenon
  <2>3. Len(d) <= Len(p) - 1 /\ Len(d) < Len(p)
    BY <2>1, <2>2
  <2>4. Len(d) <= Len(Parent(p)) /\ (\A i \in 1..Len(d) : Parent(p)[i] = d[i])
    BY <1>1, <2>1, <2>3
  <2> QED
    BY <1>1, <2>3, <2>4, UnderIs, Zenon
<1> QED
  BY <1>2, <1>3, Zenon

\* Where a path at or below 'to' was before 'from' was moved there.
WasAt(from, to, p, b) ==
    /\ b \in Seq(Name) /\ Len(b) = Len(from) + (Len(p) - Len(to))
    /\ \A i \in 1..Len(from) : b[i] = from[i]
    /\ \A i \in 1..(Len(p) - Len(to)) : b[Len(from) + i] = p[Len(to) + i]
    /\ Len(p) >= Len(to)
    /\ \A i \in 1..Len(to) : p[i] = to[i]
    /\ Under(from, b)

\* That is where it was.
LEMMA BeforeIs ==
    ASSUME NEW from \in Seq(Name), NEW to \in Seq(Name), NEW p \in Seq(Name), Under(to, p)
    PROVE  WasAt(from, to, p, Before(from, to, p))
<1> DEFINE r == SubSeq(p, Len(to) + 1, Len(p))
           m == Len(p) - Len(to)
           b == from \o r
<1>1. Len(to) <= Len(p) /\ (\A i \in 1..Len(to) : p[i] = to[i])
  BY UnderIs, Zenon
<1>2. Len(to) \in Nat /\ Len(p) \in Nat /\ m \in Nat
  BY <1>1
<1>3. r \in Seq(Name) /\ Len(r) = m
  BY <1>1, <1>2
<1>4. \A i \in 1..m : r[i] = p[Len(to) + i]
  BY <1>1, <1>2
<1> HIDE DEF r
<1>5. b \in Seq(Name) /\ Len(b) = Len(from) + Len(r)
  <2>1. b \in Seq(Name)
    BY <1>3
  <2>2. Len(b) = Len(from) + Len(r)
    BY <1>3, Joined, Zenon
  <2> QED
    BY <2>1, <2>2, Zenon
<1>6. (\A i \in 1..Len(from) : b[i] = from[i]) /\ (\A i \in 1..Len(r) : b[Len(from) + i] = r[i])
  BY <1>3
<1>7. Before(from, to, p) = b
  BY Zenon DEF Before, r
<1> HIDE DEF b, m
<1>8. Under(from, b)
  <2>1. Len(from) <= Len(b)
    BY <1>2, <1>3, <1>5
  <2> QED
    BY <1>5, <1>6, <2>1, UnderIs, Zenon
<1>9. \A i \in 1..m : b[Len(from) + i] = p[Len(to) + i]
  BY <1>3, <1>4, <1>6, Zenon
<1> QED
  BY <1>1, <1>3, <1>5, <1>6, <1>7, <1>8, <1>9, Zenon DEF m, WasAt

\* Two paths at or below 'to' that were the same path are the same path.
LEMMA BeforeOnce ==
    ASSUME NEW from \in Seq(Name), NEW to \in Seq(Name), NEW p \in Seq(Name), NEW q \in Seq(Name),
           Under(to, p), Under(to, q), Before(from, to, p) = Before(from, to, q)
    PROVE  p = q
<1> DEFINE m == Len(p) - Len(to)
<1>1. /\ Len(Before(from, to, p)) = Len(from) + m /\ m \in Nat
      /\ \A i \in 1..m : Before(from, to, p)[Len(from) + i] = p[Len(to) + i]
      /\ \A i \in 1..Len(to) : p[i] = to[i]
  <2>1. WasAt(from, to, p, Before(from, to, p))
    BY BeforeIs, Zenon
  <2> QED
    BY <2>1 DEF WasAt
<1>2. /\ Len(Before(from, to, q)) = Len(from) + (Len(q) - Len(to))
      /\ \A i \in 1..(Len(q) - Len(to)) : Before(from, to, q)[Len(from) + i] = q[Len(to) + i]
      /\ \A i \in 1..Len(to) : q[i] = to[i]
  <2>1. WasAt(from, to, q, Before(from, to, q))
    BY BeforeIs, Zenon
  <2> QED
    BY <2>1, Zenon DEF WasAt
<1>3. Len(q) = Len(p) /\ Len(q) - Len(to) = m /\ Len(p) = Len(to) + m
  BY <1>1, <1>2
<1> HIDE DEF m
<1>4. \A i \in 1..m : p[Len(to) + i] = q[Len(to) + i]
  BY <1>1, <1>2, <1>3, Zenon
<1>5. ASSUME NEW i \in 1..Len(p) PROVE p[i] = q[i]
  <2>1. CASE i <= Len(to)
    BY <1>1, <1>2, <2>1
  <2>2. CASE i > Len(to)
    <3>1. i - Len(to) \in 1..m /\ Len(to) + (i - Len(to)) = i
      BY <1>1, <1>3, <2>2
    <3> QED
      BY <1>4, <3>1, Zenon
  <2> QED
    BY <2>1, <2>2
<1> QED
  BY <1>3, <1>5, SameSequence, Zenon

\* A move keeps a path below 'to' below its parent.
LEMMA BeforeParent ==
    ASSUME NEW from \in Seq(Name), NEW to \in Seq(Name), NEW p \in Seq(Name), Under(to, p), p # to
    PROVE  /\ p # <<>> /\ Under(to, Parent(p)) /\ Before(from, to, p) # <<>>
           /\ Parent(Before(from, to, p)) = Before(from, to, Parent(p))
<1> DEFINE b == Before(from, to, p)
           c == Before(from, to, Parent(p))
           m == Len(p) - Len(to)
<1>1. p # <<>>
  <2> SUFFICES ASSUME p = <<>> PROVE FALSE
    BY Zenon
  <2>1. Len(to) <= 0
    BY UnderIs, Zenon
  <2> QED
    BY <2>1
<1>2. Under(to, Parent(p)) /\ Len(to) < Len(p)
  BY <1>1, UnderParent, Zenon
<1>3. /\ Parent(p) \in Seq(Name) /\ Len(Parent(p)) = Len(p) - 1
      /\ \A i \in 1..(Len(p) - 1) : Parent(p)[i] = p[i]
  BY <1>1, ParentIs, Zenon
<1>4. /\ b \in Seq(Name) /\ Len(b) = Len(from) + m /\ \A i \in 1..Len(from) : b[i] = from[i]
      /\ \A i \in 1..m : b[Len(from) + i] = p[Len(to) + i]
  <2>1. WasAt(from, to, p, b)
    BY BeforeIs, Zenon
  <2> QED
    BY <2>1, Zenon DEF WasAt
<1>5. /\ c \in Seq(Name) /\ Len(c) = Len(from) + (Len(Parent(p)) - Len(to))
      /\ \A i \in 1..Len(from) : c[i] = from[i]
      /\ \A i \in 1..(Len(Parent(p)) - Len(to)) : c[Len(from) + i] = Parent(p)[Len(to) + i]
  <2>1. WasAt(from, to, Parent(p), c)
    BY <1>2, <1>3, BeforeIs, Zenon
  <2> QED
    BY <2>1, Zenon DEF WasAt
<1>6. m \in Nat /\ m >= 1 /\ Len(p) = Len(to) + m /\ Len(Parent(p)) - Len(to) = m - 1
  BY <1>2, <1>3
<1> HIDE DEF b, c, m
<1>7. b # <<>>
  BY <1>4, <1>6
<1>8. /\ Parent(b) \in Seq(Name) /\ Len(Parent(b)) = Len(b) - 1
      /\ \A i \in 1..(Len(b) - 1) : Parent(b)[i] = b[i]
  BY <1>4, <1>7, ParentIs, Zenon
<1>9. Len(Parent(b)) = Len(from) + (m - 1) /\ Len(c) = Len(from) + (m - 1)
  <2>1. Len(Parent(b)) = Len(from) + (m - 1)
    BY <1>4, <1>6, <1>8
  <2>2. Len(c) = Len(from) + (m - 1)
    BY <1>5, <1>6, Zenon
  <2> QED
    BY <2>1, <2>2, Zenon
<1>10. ASSUME NEW i \in 1..Len(c) PROVE Parent(b)[i] = c[i]
  <2>1. Parent(b)[i] = b[i]
    BY <1>4, <1>6, <1>8, <1>9, Zenon
  <2>2. CASE i <= Len(from)
    BY <1>4, <1>5, <2>1, <2>2
  <2>3. CASE i > Len(from)
    <3> DEFINE j == i - Len(from)
    <3>1. j \in 1..(m - 1) /\ j \in 1..m /\ Len(from) + j = i /\ Len(to) + j \in 1..(Len(p) - 1)
      BY <1>6, <1>9, <2>3
    <3> HIDE DEF j
    <3> QED
      BY <1>3, <1>4, <1>5, <1>6, <2>1, <3>1, Zenon
  <2> QED
    BY <2>2, <2>3
<1>11. Parent(b) = c
  BY <1>5, <1>8, <1>9, <1>10, SameSequence, Zenon
<1> QED
  BY <1>1, <1>2, <1>7, <1>11, Zenon DEF b, c

-----------------------------------------------------------------------------
(***************************************************************************)
(* What one request does.                                                  *)
(***************************************************************************)
\* A name in a directory that a handle stands for
InMappedDirectory(c) ==
    \E k \in DOMAIN inode_cache, n \in Name :
        c = Append(inode_cache[k].path, n) /\ TypeAt(inode_cache[k].path) = "NFDIR"

Mounts(p) ==
    /\ p \in Exports /\ TypeAt(p) = "NFDIR"
    /\ inode_cache' = add_inode_mapping(inode_cache, tree[p], p)
    /\ mount_list' = <<p>> \o mount_list
    /\ UNCHANGED <<tree, ftype>>

Maps(c) ==
    /\ c \in Path /\ InMappedDirectory(c) /\ tree[c] # NULL /\ ~IsCached(inode_cache, tree[c])
    /\ inode_cache' = add_inode_mapping(inode_cache, tree[c], c)
    /\ UNCHANGED <<tree, ftype, mount_list>>

Makes(c, i, type) ==
    /\ c \in Path /\ InMappedDirectory(c) /\ tree[c] = NULL
    /\ i \in FreeInode /\ type \in FileType \ {"none"} /\ MakeNode(c, i, type)
    /\ inode_cache' \in {inode_cache, add_inode_mapping(inode_cache, i, c)}
    /\ UNCHANGED mount_list

Links(c, p) ==
    /\ c \in Path /\ InMappedDirectory(c) /\ tree[c] = NULL
    /\ p \in Path /\ TypeAt(p) = "NFREG" /\ MakeLink(c, tree[p])
    /\ UNCHANGED <<inode_cache, mount_list>>

Drops(c) ==
    /\ c \in Path /\ InMappedDirectory(c) /\ tree[c] # NULL
    /\ TypeAt(c) = "NFDIR" => IsEmptyDirectory(c)
    /\ DropName(c)
    /\ inode_cache' = remove_inode_mapping_by_absolute_path(inode_cache, c)
    /\ UNCHANGED mount_list

Moves(from, to) ==
    /\ from \in Path /\ InMappedDirectory(from) /\ tree[from] # NULL
    /\ to \in Path /\ InMappedDirectory(to)
    /\ RenameErrno(from, to) = "0" /\ MoveName(from, to)
    /\ inode_cache' = update_inode_mapping_absolute_path(inode_cache, from, to)
    /\ UNCHANGED mount_list
    /\ reply'.proc = "RENAME"

Effect ==
    \/ UNCHANGED <<tree, ftype, inode_cache, mount_list>>
    \/ \E p \in Path : Mounts(p) \/ Maps(p) \/ Drops(p)
    \/ \E c \in Path, i \in Inode, type \in FileType : Makes(c, i, type)
    \/ \E c, p \in Path : Links(c, p) \/ Moves(c, p)

\* The first of the checks that fails decides.
LEMMA BothPass == \A s, t : (s ?? t) = "NFS_OK" => s = "NFS_OK" /\ t = "NFS_OK"
BY Zenon DEF ??

\* Every mapping has an inode number and a path.
LEMMA CacheTyped ==
    ASSUME TypeOK
    PROVE  /\ Len(inode_cache) \in Nat /\ DOMAIN inode_cache = 1..Len(inode_cache)
           /\ \A k \in DOMAIN inode_cache : inode_cache[k].ino \in Inode /\ inode_cache[k].path \in Path
<1> SUFFICES ASSUME NEW cache \in Seq([ino : Inode, path : Path])
             PROVE  /\ Len(cache) \in Nat /\ DOMAIN cache = 1..Len(cache)
                    /\ \A k \in DOMAIN cache : cache[k].ino \in Inode /\ cache[k].path \in Path
  BY Zenon DEF TypeOK
<1>1. Len(cache) \in Nat /\ DOMAIN cache = 1..Len(cache)
  OBVIOUS
<1>2. \A k \in DOMAIN cache : cache[k] \in [ino : Inode, path : Path]
  BY <1>1, ElementOf, Zenon
<1> QED
  BY <1>1, <1>2, Zenon

\* A handle with a mapping stands for the path of one.
LEMMA MappedResolves ==
    ASSUME TypeOK, NEW fh, \E k \in DOMAIN inode_cache : inode_cache[k].ino = fh
    PROVE  \E k \in DOMAIN inode_cache : inode_cache[k].ino = fh /\ PathOf(fh) = inode_cache[k].path
<1> DEFINE S == {k \in DOMAIN inode_cache : inode_cache[k].ino = fh}
           first == FirstIno(inode_cache, fh)
<1>1. DOMAIN inode_cache = 1..Len(inode_cache) /\ Len(inode_cache) \in Nat
  BY CacheTyped, Zenon
<1>2. PICK x \in S : \A y \in S : x <= y
  <2>1. S \in SUBSET Nat /\ S # {}
    BY <1>1
  <2> QED
    BY <2>1, LeastElement, Zenon
<1>3. x \in DOMAIN inode_cache /\ inode_cache[x].ino = fh /\ \A j \in 1..(x-1) : inode_cache[j].ino # fh
  BY <1>1, <1>2
<1>4. first \in DOMAIN inode_cache /\ inode_cache[first].ino = fh
  BY <1>3, Zenon DEF FirstIno
<1>5. first # 0
  BY <1>1, <1>4
<1> QED
  BY <1>4, <1>5, Zenon DEF PathOf, get_absolute_path_from_inode_number

\* A handle that resolves has a mapping.
LEMMA PathOfCached ==
    ASSUME TypeOK, NEW fh, PathOf(fh) # NULL
    PROVE  \E k \in DOMAIN inode_cache : inode_cache[k].ino = fh /\ PathOf(fh) = inode_cache[k].path
<1>1. FirstIno(inode_cache, fh) # 0
  BY Zenon DEF PathOf, get_absolute_path_from_inode_number
<1>2. \E k \in DOMAIN inode_cache : inode_cache[k].ino = fh
  BY <1>1, Zenon DEF FirstIno
<1> QED
  BY <1>2, MappedResolves, Zenon

\* A legal name in a directory that a handle stands for
LEMMA MappedChild ==
    ASSUME TypeOK, NEW fh, NEW n \in AnyName, DirectoryChecks(fh) = "NFS_OK", n # LongName
    PROVE  /\ InMappedDirectory(Child(PathOf(fh), n)) /\ Child(PathOf(fh), n) \in Seq(Name)
           /\ Len(PathOf(fh)) < MaxDepth => Child(PathOf(fh), n) \in Path
<1>1. PathOf(fh) # NULL /\ TypeAt(PathOf(fh)) = "NFDIR"
  BY Zenon DEF DirectoryChecks, FileChecks, Check, ??
<1>2. PICK k \in DOMAIN inode_cache : PathOf(fh) = inode_cache[k].path
  BY <1>1, PathOfCached, Zenon
<1>3. n \in Name
  BY Zenon DEF AnyName
<1>4. PathOf(fh) \in Path
  BY <1>2, CacheTyped, Zenon
<1>5. PathOf(fh) \in Seq(Name)
  BY <1>4, PathIs, Zenon
<1>6. Child(PathOf(fh), n) = Append(PathOf(fh), n)
  BY <1>1, Zenon DEF Child
<1>7. Append(PathOf(fh), n) \in Seq(Name) /\ Len(Append(PathOf(fh), n)) = Len(PathOf(fh)) + 1
  BY <1>3, <1>5
<1>8. ASSUME Len(PathOf(fh)) < MaxDepth PROVE Append(PathOf(fh), n) \in Path
  <2>1. Len(Append(PathOf(fh), n)) <= MaxDepth
    BY <1>5, <1>7, <1>8, FileSystemAssumption
  <2> QED
    BY <1>7, <2>1, PathIs, Zenon
<1>9. InMappedDirectory(Append(PathOf(fh), n))
  BY <1>1, <1>2, <1>3, Zenon DEF InMappedDirectory
<1> QED
  BY <1>6, <1>7, <1>8, <1>9, Zenon

\* The file a procedure is about is in a mapped directory.
LEMMA ChildPasses ==
    ASSUME TypeOK, NEW fh, NEW n \in AnyName, ChildChecks(fh, n) = "NFS_OK"
    PROVE  /\ Child(PathOf(fh), n) \in Path /\ InMappedDirectory(Child(PathOf(fh), n))
           /\ tree[Child(PathOf(fh), n)] # NULL
           /\ lstat(Child(PathOf(fh), n)) = tree[Child(PathOf(fh), n)]
<1>1. DirectoryChecks(fh) = "NFS_OK" /\ n # LongName /\ lstat(Child(PathOf(fh), n)) # NULL
  BY Zenon DEF ChildChecks, Check, ??
<1>2. Child(PathOf(fh), n) \in Path /\ lstat(Child(PathOf(fh), n)) = tree[Child(PathOf(fh), n)]
  BY <1>1, Zenon DEF lstat
<1> QED
  BY <1>1, <1>2, MappedChild, Zenon

\* The name of a new file is free in a mapped directory.
LEMMA NewChildPasses ==
    ASSUME TypeOK, NEW fh, NEW n \in AnyName, NewChildChecks(fh, n) = "NFS_OK", Fits(fh)
    PROVE  /\ Child(PathOf(fh), n) \in Path /\ InMappedDirectory(Child(PathOf(fh), n))
           /\ tree[Child(PathOf(fh), n)] = NULL
<1>1. DirectoryChecks(fh) = "NFS_OK" /\ n # LongName /\ lstat(Child(PathOf(fh), n)) = NULL
  BY Zenon DEF NewChildChecks, Check, ??
<1>2. PathOf(fh) # NULL
  BY <1>1, Zenon DEF DirectoryChecks, FileChecks, Check, ??
<1>3. Child(PathOf(fh), n) \in Path /\ InMappedDirectory(Child(PathOf(fh), n))
  BY <1>1, <1>2, MappedChild, Zenon DEF Fits
<1> QED
  BY <1>1, <1>3, Zenon DEF lstat

\* A system call that fails is reported.
LEMMA SysCallPasses ==
    ASSUME NEW errno, NEW mapped,
           mapped \subseteq {"EIO", "ENXIO", "ENOENT", "ENOSPC", "EROFS", "ENAMETOOLONG",
                             "ENOTEMPTY", "EDQUOT", "EFBIG", "EINVAL"},
           SysCall(errno, mapped) = "NFS_OK"
    PROVE  errno = "0"
BY Zenon DEF SysCall, StatusOf

\* MNT answers or mounts an exported directory.
LEMMA MntEffect ==
    ASSUME TypeOK, NEW p \in Path, Mnt(p) PROVE Effect
<1>1. CASE Answer("MNT", MntChecks(p))
  BY <1>1, Zenon DEF Answer, Effect
<1>2. CASE MntChecks(p) = "NFS_OK" /\ ~Answer("MNT", MntChecks(p))
  <2>1. TypeAt(p) = "NFDIR" /\ p \in Exports
    BY <1>2, Zenon DEF MntChecks, Check, ??
  <2>2. lstat(p) = tree[p]
    BY Zenon DEF lstat
  <2>3. Mounts(p)
    BY <1>2, <2>1, <2>2, Zenon DEF Mnt, Mounts
  <2> QED
    BY <2>3, Zenon DEF Effect
<1> QED
  BY <1>1, <1>2, Zenon DEF Mnt

\* LOOKUP answers or adds the mapping of a file that has none.
LEMMA LookupEffect ==
    ASSUME TypeOK, NEW fh \in Inode, NEW n \in AnyName, Lookup(fh, n) PROVE Effect
<1> DEFINE c == Child(PathOf(fh), n)
<1>1. PICK granted \in BOOLEAN :
         LET stat == LookupChecks(fh, n, granted)
         IN  \/ stat # "NFS_OK" /\ Answer("LOOKUP", stat)
             \/ /\ stat = "NFS_OK"
                /\ \/ IsCached(inode_cache, lstat(c)) /\ UNCHANGED inode_cache
                   \/ /\ ~IsCached(inode_cache, lstat(c))
                      /\ inode_cache' = add_inode_mapping(inode_cache, lstat(c), c)
                /\ UNCHANGED <<tree, ftype, mount_list>>
  BY Zenon DEF Lookup
<1>2. CASE UNCHANGED <<tree, ftype, inode_cache, mount_list>>
  BY <1>2, Zenon DEF Effect
<1>3. CASE ~UNCHANGED <<tree, ftype, inode_cache, mount_list>>
  <2>1. LookupChecks(fh, n, granted) = "NFS_OK"
    BY <1>1, <1>3, Zenon DEF Answer
  <2>2. ChildChecks(fh, n) = "NFS_OK"
    BY <2>1, Zenon DEF LookupChecks, ??
  <2>3. c \in Path /\ InMappedDirectory(c) /\ tree[c] # NULL /\ lstat(c) = tree[c]
    BY <2>2, ChildPasses, Zenon
  <2> HIDE DEF c
  <2>4. Maps(c)
    BY <1>1, <1>3, <2>1, <2>3, Zenon DEF Maps
  <2> QED
    BY <2>3, <2>4, Zenon DEF Effect
<1> QED
  BY <1>2, <1>3, Zenon

\* A node is made, with or without a mapping.
LEMMA MakeEffect ==
    ASSUME NEW c \in Path, InMappedDirectory(c), tree[c] = NULL, NEW type \in FileType \ {"none"},
           \/ \E i \in FreeInode : MakeNode(c, i, type) /\ UNCHANGED <<inode_cache, mount_list>>
           \/ \E i \in FreeInode : /\ MakeNode(c, i, type) /\ UNCHANGED mount_list
                                   /\ inode_cache' = add_inode_mapping(inode_cache, i, c)
    PROVE  Effect
<1>1. PICK i \in FreeInode :
         /\ MakeNode(c, i, type) /\ UNCHANGED mount_list
         /\ inode_cache' \in {inode_cache, add_inode_mapping(inode_cache, i, c)}
  BY Zenon
<1>2. i \in Inode
  BY Zenon DEF FreeInode
<1>3. Makes(c, i, type)
  BY <1>1, Zenon DEF Makes
<1> QED
  BY <1>2, <1>3, Zenon DEF Effect

\* CREATE answers or makes a regular file.
LEMMA CreateEffect ==
    ASSUME TypeOK, NEW fh \in Inode, NEW n \in AnyName, Create(fh, n) PROVE Effect
<1> DEFINE c == Child(PathOf(fh), n)
<1>1. PICK granted \in BOOLEAN, e \in Errno \cup {"0"} :
         LET stat == CreateChecks(fh, n, granted)
                       ?? SysCall(e, {"EIO", "ENAMETOOLONG", "ENOSPC", "ENXIO"})
         IN  \/ stat # "NFS_OK" /\ Answer("CREATE", stat)
             \/ /\ stat = "NFS_OK" /\ Fits(fh)
                /\ LeaveUnfinished("CREATE", "SYSTEM_ERR", c, "NFREG") \/ Finish("CREATE", c, "NFREG")
  BY Zenon DEF Create
<1>2. CASE UNCHANGED <<tree, ftype, inode_cache, mount_list>>
  BY <1>2, Zenon DEF Effect
<1>3. CASE ~UNCHANGED <<tree, ftype, inode_cache, mount_list>>
  <2>1. /\ CreateChecks(fh, n, granted) = "NFS_OK" /\ Fits(fh)
        /\ LeaveUnfinished("CREATE", "SYSTEM_ERR", c, "NFREG") \/ Finish("CREATE", c, "NFREG")
    BY <1>1, <1>3, BothPass, Zenon DEF Answer
  <2>2. NewChildChecks(fh, n) = "NFS_OK"
    BY <2>1, BothPass, Zenon DEF CreateChecks
  <2>3. c \in Path /\ InMappedDirectory(c) /\ tree[c] = NULL
    BY <2>1, <2>2, NewChildPasses, Zenon
  <2> HIDE DEF c
  <2>4. \/ \E i \in FreeInode : MakeNode(c, i, "NFREG") /\ UNCHANGED <<inode_cache, mount_list>>
        \/ \E i \in FreeInode : /\ MakeNode(c, i, "NFREG") /\ UNCHANGED mount_list
                                /\ inode_cache' = add_inode_mapping(inode_cache, i, c)
    BY <2>1, Zenon DEF LeaveUnfinished, Finish
  <2>5. "NFREG" \in FileType \ {"none"}
    BY Zenon DEF FileType
  <2> QED
    BY <2>3, <2>4, <2>5, MakeEffect, Zenon
<1> QED
  BY <1>2, <1>3, Zenon

\* MKDIR answers or makes a directory.
LEMMA MkdirEffect ==
    ASSUME TypeOK, NEW fh \in Inode, NEW n \in AnyName, Mkdir(fh, n) PROVE Effect
<1> DEFINE c == Child(PathOf(fh), n)
<1>1. PICK granted \in BOOLEAN, e \in Errno \cup {"0"} :
         LET stat == MkdirChecks(fh, n, granted)
                       ?? SysCall(e, {"EDQUOT", "ENAMETOOLONG", "ENOSPC", "EROFS"})
         IN  \/ stat # "NFS_OK" /\ Answer("MKDIR", stat)
             \/ /\ stat = "NFS_OK" /\ Fits(fh)
                /\ \/ \E s \in {"SYSTEM_ERR", "NFSERR_ISDIR"} : LeaveUnfinished("MKDIR", s, c, "NFDIR")
                   \/ Finish("MKDIR", c, "NFDIR")
  BY Zenon DEF Mkdir
<1>2. CASE UNCHANGED <<tree, ftype, inode_cache, mount_list>>
  BY <1>2, Zenon DEF Effect
<1>3. CASE ~UNCHANGED <<tree, ftype, inode_cache, mount_list>>
  <2>1. /\ MkdirChecks(fh, n, granted) = "NFS_OK" /\ Fits(fh)
        /\ \/ \E s \in {"SYSTEM_ERR", "NFSERR_ISDIR"} : LeaveUnfinished("MKDIR", s, c, "NFDIR")
           \/ Finish("MKDIR", c, "NFDIR")
    BY <1>1, <1>3, BothPass, Zenon DEF Answer
  <2>2. NewChildChecks(fh, n) = "NFS_OK"
    BY <2>1, BothPass, Zenon DEF MkdirChecks
  <2>3. c \in Path /\ InMappedDirectory(c) /\ tree[c] = NULL
    BY <2>1, <2>2, NewChildPasses, Zenon
  <2> HIDE DEF c
  <2>4. \/ \E i \in FreeInode : MakeNode(c, i, "NFDIR") /\ UNCHANGED <<inode_cache, mount_list>>
        \/ \E i \in FreeInode : /\ MakeNode(c, i, "NFDIR") /\ UNCHANGED mount_list
                                /\ inode_cache' = add_inode_mapping(inode_cache, i, c)
    BY <2>1, Zenon DEF LeaveUnfinished, Finish
  <2>5. "NFDIR" \in FileType \ {"none"}
    BY Zenon DEF FileType
  <2> QED
    BY <2>3, <2>4, <2>5, MakeEffect, Zenon
<1> QED
  BY <1>2, <1>3, Zenon

\* SYMLINK answers or makes a symbolic link.
LEMMA SymlinkEffect ==
    ASSUME TypeOK, NEW fh \in Inode, NEW n \in AnyName, Symlink(fh, n) PROVE Effect
<1> DEFINE c == Child(PathOf(fh), n)
<1>1. PICK granted \in BOOLEAN, e \in Errno \cup {"0"} :
         LET stat == SymlinkChecks(fh, n, granted)
                       ?? SysCall(e, {"EIO", "ENAMETOOLONG", "ENOENT", "ENOSPC", "EROFS"})
         IN  \/ stat # "NFS_OK" /\ Answer("SYMLINK", stat)
             \/ /\ stat = "NFS_OK" /\ Fits(fh)
                /\ \E i \in FreeInode : MakeNode(c, i, "NFLNK")
                /\ UNCHANGED <<inode_cache, mount_list>>
  BY Zenon DEF Symlink
<1>2. CASE UNCHANGED <<tree, ftype, inode_cache, mount_list>>
  BY <1>2, Zenon DEF Effect
<1>3. CASE ~UNCHANGED <<tree, ftype, inode_cache, mount_list>>
  <2>1. /\ SymlinkChecks(fh, n, granted) = "NFS_OK" /\ Fits(fh)
        /\ \E i \in FreeInode : MakeNode(c, i, "NFLNK")
        /\ UNCHANGED <<inode_cache, mount_list>>
    BY <1>1, <1>3, BothPass, Zenon DEF Answer
  <2>2. NewChildChecks(fh, n) = "NFS_OK"
    BY <2>1, BothPass, Zenon DEF SymlinkChecks
  <2>3. c \in Path /\ InMappedDirectory(c) /\ tree[c] = NULL
    BY <2>1, <2>2, NewChildPasses, Zenon
  <2> HIDE DEF c
  <2>4. \E i \in FreeInode : MakeNode(c, i, "NFLNK") /\ UNCHANGED <<inode_cache, mount_list>>
    BY <2>1, Zenon
  <2>5. "NFLNK" \in FileType \ {"none"}
    BY Zenon DEF FileType
  <2> QED
    BY <2>3, <2>4, <2>5, MakeEffect, Zenon
<1> QED
  BY <1>2, <1>3, Zenon

\* LINK answers or links a regular file.
LEMMA LinkEffect ==
    ASSUME TypeOK, NEW target \in Inode, NEW fh \in Inode, NEW n \in AnyName, Link(target, fh, n)
    PROVE  Effect
<1> DEFINE c == Child(PathOf(fh), n)
           p == PathOf(target)
<1>1. PICK granted \in BOOLEAN, e \in Errno \cup {"0"} :
         LET stat == LinkChecks(target, fh, n, granted)
                       ?? SysCall(e, {"EDQUOT", "EIO", "ENAMETOOLONG", "ENOENT", "ENOSPC", "EROFS"})
         IN  \/ stat # "NFS_OK" /\ Answer("LINK", stat)
             \/ /\ stat = "NFS_OK" /\ Fits(fh) /\ MakeLink(c, lstat(p))
                /\ UNCHANGED <<inode_cache, mount_list>>
  BY Zenon DEF Link
<1>2. CASE UNCHANGED <<tree, ftype, inode_cache, mount_list>>
  BY <1>2, Zenon DEF Effect
<1>3. CASE ~UNCHANGED <<tree, ftype, inode_cache, mount_list>>
  <2>1. /\ LinkChecks(target, fh, n, granted) = "NFS_OK" /\ Fits(fh) /\ MakeLink(c, lstat(p))
        /\ UNCHANGED <<inode_cache, mount_list>>
    BY <1>1, <1>3, BothPass, Zenon DEF Answer
  <2>2. /\ FileChecks(target) = "NFS_OK" /\ NewChildChecks(fh, n) = "NFS_OK"
        /\ Check(TypeAt(p) # "NFREG", "NFSERR_ISDIR") = "NFS_OK"
    BY <2>1, BothPass DEF LinkChecks
  <2>3. TypeAt(p) = "NFREG"
    BY <2>2, Zenon DEF Check
  <2>4. p \in Path /\ lstat(p) = tree[p]
    BY <2>3, Zenon DEF TypeAt, lstat
  <2>5. c \in Path /\ InMappedDirectory(c) /\ tree[c] = NULL
    BY <2>1, <2>2, NewChildPasses, Zenon
  <2> HIDE DEF c, p
  <2>6. Links(c, p)
    BY <2>1, <2>3, <2>4, <2>5, Zenon DEF Links
  <2> QED
    BY <2>4, <2>5, <2>6, Zenon DEF Effect
<1> QED
  BY <1>2, <1>3, Zenon

\* A name goes, and with it a mapping.
LEMMA ForgetEffect ==
    ASSUME NEW proc, NEW c \in Path, InMappedDirectory(c), tree[c] # NULL,
           TypeAt(c) = "NFDIR" => IsEmptyDirectory(c), Forget(proc, c)
    PROVE  Effect
<1>1. Drops(c)
  BY Zenon DEF Forget, Drops
<1> QED
  BY <1>1, Zenon DEF Effect

\* REMOVE answers or drops the name of something that is no directory.
LEMMA RemoveEffect ==
    ASSUME TypeOK, NEW fh \in Inode, NEW n \in AnyName, Remove(fh, n) PROVE Effect
<1> DEFINE c == Child(PathOf(fh), n)
<1>1. PICK granted \in BOOLEAN, e \in Errno \cup {"0"} :
         LET stat == RemoveChecks(fh, n, granted) ?? SysCall(e, {"EIO", "ENAMETOOLONG", "EROFS"})
         IN  \/ stat # "NFS_OK" /\ Answer("REMOVE", stat)
             \/ stat = "NFS_OK" /\ Forget("REMOVE", c)
  BY Zenon DEF Remove
<1>2. CASE UNCHANGED <<tree, ftype, inode_cache, mount_list>>
  BY <1>2, Zenon DEF Effect
<1>3. CASE ~UNCHANGED <<tree, ftype, inode_cache, mount_list>>
  <2>1. RemoveChecks(fh, n, granted) = "NFS_OK" /\ Forget("REMOVE", c)
    BY <1>1, <1>3, BothPass, Zenon DEF Answer
  <2>2. ChildChecks(fh, n) = "NFS_OK" /\ Check(TypeAt(c) = "NFDIR", "NFSERR_ISDIR") = "NFS_OK"
    BY <2>1, BothPass DEF RemoveChecks
  <2>3. c \in Path /\ InMappedDirectory(c) /\ tree[c] # NULL
    BY <2>2, ChildPasses, Zenon
  <2>4. TypeAt(c) # "NFDIR"
    BY <2>2, Zenon DEF Check
  <2> HIDE DEF c
  <2> QED
    BY <2>1, <2>3, <2>4, ForgetEffect, Zenon
<1> QED
  BY <1>2, <1>3, Zenon

\* RMDIR answers or drops an empty directory.
LEMMA RmdirEffect ==
    ASSUME TypeOK, NEW fh \in Inode, NEW n \in AnyName, Rmdir(fh, n) PROVE Effect
<1> DEFINE c == Child(PathOf(fh), n)
<1>1. PICK granted \in BOOLEAN, e \in Errno \cup {"0"} :
         LET stat == RmdirChecks(fh, n, granted)
                       ?? Check(~IsEmptyDirectory(c), "NFSERR_NOTEMPTY")
                       ?? SysCall(e, {"ENAMETOOLONG", "EROFS"})
         IN  \/ stat # "NFS_OK" /\ Answer("RMDIR", stat)
             \/ stat = "NFS_OK" /\ Forget("RMDIR", c)
  BY Zenon DEF Rmdir
<1>2. CASE UNCHANGED <<tree, ftype, inode_cache, mount_list>>
  BY <1>2, Zenon DEF Effect
<1>3. CASE ~UNCHANGED <<tree, ftype, inode_cache, mount_list>>
  <2>1. /\ RmdirChecks(fh, n, granted) = "NFS_OK" /\ Forget("RMDIR", c)
        /\ Check(~IsEmptyDirectory(c), "NFSERR_NOTEMPTY") = "NFS_OK"
    BY <1>1, <1>3, BothPass DEF Answer
  <2>2. ChildChecks(fh, n) = "NFS_OK"
    BY <2>1, BothPass, Zenon DEF RmdirChecks
  <2>3. c \in Path /\ InMappedDirectory(c) /\ tree[c] # NULL
    BY <2>2, ChildPasses, Zenon
  <2>4. IsEmptyDirectory(c)
    BY <2>1, Zenon DEF Check
  <2> HIDE DEF c
  <2> QED
    BY <2>1, <2>3, <2>4, ForgetEffect, Zenon
<1> QED
  BY <1>2, <1>3, Zenon

\* RENAME answers or moves a name, when rename(2) allows it.
LEMMA RenameEffect ==
    ASSUME TypeOK, NEW f \in Inode, NEW n \in AnyName, NEW t \in Inode, NEW m \in AnyName,
           Rename(f, n, t, m)
    PROVE  Effect
<1> DEFINE from == Child(PathOf(f), n)
           to == Child(PathOf(t), m)
           mapped == {"EDQUOT", "EINVAL", "ENAMETOOLONG", "ENOENT", "ENOSPC", "ENOTEMPTY", "EROFS"}
<1>1. PICK granted \in BOOLEAN, e \in Errno \cup {"0"} :
         LET errno == IF e # "0" THEN e ELSE RenameErrno(from, to)
             stat  == RenameChecks(f, n, t, granted) ?? SysCall(errno, mapped)
         IN  \/ stat # "NFS_OK" /\ Answer("RENAME", stat)
             \/ /\ stat = "NFS_OK" /\ MoveFits(from, to) /\ MoveName(from, to)
                /\ inode_cache' = update_inode_mapping_absolute_path(inode_cache, from, to)
                /\ Reply("RENAME", "NFS_OK", NULL)
                /\ UNCHANGED mount_list
  BY Zenon DEF Rename
<1>2. CASE UNCHANGED <<tree, ftype, inode_cache, mount_list>>
  BY <1>2, Zenon DEF Effect
<1>3. CASE ~UNCHANGED <<tree, ftype, inode_cache, mount_list>>
  <2> DEFINE errno == IF e # "0" THEN e ELSE RenameErrno(from, to)
  <2>1. /\ RenameChecks(f, n, t, granted) = "NFS_OK" /\ SysCall(errno, mapped) = "NFS_OK"
        /\ MoveFits(from, to) /\ MoveName(from, to)
        /\ inode_cache' = update_inode_mapping_absolute_path(inode_cache, from, to)
        /\ Reply("RENAME", "NFS_OK", NULL)
        /\ UNCHANGED mount_list
    <3> HIDE DEF from, to, mapped
    <3> QED
      BY <1>1, <1>3, BothPass, Zenon DEF Answer
  <2>2. errno = "0"
    <3> HIDE DEF errno
    <3> QED
      BY <2>1, SysCallPasses, Zenon
  <2>3. RenameErrno(from, to) = "0"
    BY <2>2, Zenon
  <2>4. ChildChecks(f, n) = "NFS_OK" /\ DirectoryChecks(t) = "NFS_OK"
    BY <2>1, BothPass DEF RenameChecks
  <2>5. from \in Path /\ InMappedDirectory(from) /\ tree[from] # NULL /\ lstat(from) = tree[from]
    BY <2>4, ChildPasses, Zenon
  <2>6. m # LongName
    <3> SUFFICES ASSUME m = LongName PROVE FALSE
      BY Zenon
    <3>1. PathOf(t) # NULL
      BY <2>4, Zenon DEF DirectoryChecks, FileChecks, Check, ??
    <3>2. PICK k \in DOMAIN inode_cache : PathOf(t) = inode_cache[k].path
      BY <3>1, PathOfCached, Zenon
    <3>3. PathOf(t) \in Seq(Name)
      BY <3>2, CacheTyped, PathIs, Zenon
    <3>4. to = Append(PathOf(t), m)
      BY <3>1, Zenon DEF Child
    <3>5. to[Len(to)] = m
      BY <3>3, <3>4
    <3> HIDE DEF to, from
    <3>6. RenameErrno(from, to) = "ENAMETOOLONG"
      BY <3>5, Zenon DEF RenameErrno
    <3> QED
      BY <2>3, <3>6, Zenon
  <2>7. InMappedDirectory(to) /\ to \in Seq(Name)
    BY <2>4, <2>6, MappedChild, Zenon
  <2>8. to \in Path
    <3> HIDE DEF from, to
    <3>1. from \in Seq(Name)
      BY <2>5, PathIs, Zenon
    <3>2. Under(from, from)
      BY <3>1, UnderIs
    <3>3. Len(to) + Len(from) - Len(from) <= MaxDepth
      BY <2>1, <2>5, <3>2, Zenon DEF MoveFits
    <3>4. Len(to) <= MaxDepth
      BY <2>7, <3>1, <3>3, FileSystemAssumption
    <3> QED
      BY <2>7, <3>4, PathIs, Zenon
  <2>9. reply'.proc = "RENAME"
    BY <2>1, Zenon DEF Reply
  <2> HIDE DEF from, to
  <2>10. Moves(from, to)
    BY <2>1, <2>3, <2>5, <2>7, <2>8, <2>9, Zenon DEF Moves
  <2> QED
    BY <2>5, <2>8, <2>10, Zenon DEF Effect
<1> QED
  BY <1>2, <1>3, Zenon

\* Every request does one of a few things, to a name in a directory a handle stands for.
LEMMA NextEffect == TypeOK /\ [Next]_vars => Effect
<1> SUFFICES ASSUME TypeOK, [Next]_vars PROVE Effect
  BY Zenon
<1> USE DEF Answer
<1>1. CASE UNCHANGED <<tree, ftype, inode_cache, mount_list>>
  BY <1>1, Zenon DEF Effect
<1>2. CASE Null \/ Malformed
  BY <1>1, <1>2, Zenon DEF Null, Malformed
<1>3. ASSUME NEW p \in Path, Mnt(p) PROVE Effect
  BY <1>3, MntEffect, Zenon
<1>4. ASSUME NEW fh \in Inode,
             \/ Getattr(fh) \/ Setattr(fh) \/ Readlink(fh) \/ Read(fh)
             \/ Write(fh) \/ Readdir(fh) \/ Statfs(fh)
      PROVE  Effect
  BY <1>1, <1>4, Zenon DEF Getattr, Setattr, Readlink, Read, Write, Readdir, Statfs
<1>5. ASSUME NEW fh \in Inode, NEW n \in AnyName,
             \/ Lookup(fh, n) \/ Create(fh, n) \/ Mkdir(fh, n) \/ Symlink(fh, n)
             \/ Remove(fh, n) \/ Rmdir(fh, n)
      PROVE  Effect
  BY <1>5, LookupEffect, CreateEffect, MkdirEffect, SymlinkEffect, RemoveEffect, RmdirEffect, Zenon
<1>6. ASSUME NEW t \in Inode, NEW fh \in Inode, NEW n \in AnyName, Link(t, fh, n) PROVE Effect
  BY <1>6, LinkEffect, Zenon
<1>7. ASSUME NEW f \in Inode, NEW t \in Inode, NEW n \in AnyName, NEW m \in AnyName,
             Rename(f, n, t, m)
      PROVE  Effect
  BY <1>7, RenameEffect, Zenon
<1>8. CASE UNCHANGED vars
  BY <1>1, <1>8, Zenon DEF vars
<1> QED
  BY <1>2, <1>3, <1>4, <1>5, <1>6, <1>7, <1>8, Zenon DEF Next

-----------------------------------------------------------------------------
(***************************************************************************)
(* The files stay a tree.                                                  *)
(***************************************************************************)
\* TreeOK for the names t and the types types.
IsTree(t, types) ==
    /\ t \in [Path -> Inode \cup {NULL}] /\ types \in [Inode -> FileType]
    /\ t[<<>>] = RootIno /\ types[RootIno] = "NFDIR"
    /\ \A p \in Path : p # <<>> /\ t[p] # NULL
                         => Parent(p) \in Path /\ t[Parent(p)] # NULL /\ types[t[Parent(p)]] = "NFDIR"
    /\ \A p, q \in Path : t[p] = t[q] /\ t[p] # NULL /\ types[t[p]] = "NFDIR" => p = q
    /\ \A p \in Path : t[p] # NULL => types[t[p]] # "none"

\* The root is a path.
LEMMA RootPath == <<>> \in Path
<1>1. <<>> \in Seq(Name) /\ Len(<<>>) = 0
  OBVIOUS
<1>2. Len(<<>>) <= MaxDepth
  BY <1>1, FileSystemAssumption
<1> QED
  BY <1>1, <1>2, PathIs, Zenon

\* The parent of a path is a path.
LEMMA ParentPath ==
    ASSUME NEW p \in Path, p # <<>>
    PROVE  Parent(p) \in Path
<1>1. p \in Seq(Name) /\ Len(p) <= MaxDepth
  BY PathIs, Zenon
<1>2. Parent(p) \in Seq(Name) /\ Len(Parent(p)) = Len(p) - 1
  BY <1>1, ParentIs, Zenon
<1>3. Len(Parent(p)) <= MaxDepth
  BY <1>1, <1>2, FileSystemAssumption
<1> QED
  BY <1>2, <1>3, PathIs, Zenon

\* TreeOK says that the names are a tree.
LEMMA TreeIs == ServerInv => IsTree(tree, ftype)
<1> SUFFICES ASSUME ServerInv PROVE IsTree(tree, ftype)
  BY Zenon
<1>1. NULL \notin Inode /\ "NFDIR" # "none"
  BY FileSystemAssumption, Zenon
<1>2. tree \in [Path -> Inode \cup {NULL}] /\ ftype \in [Inode -> FileType]
  BY Zenon DEF ServerInv, TypeOK
<1>3. tree[<<>>] = RootIno /\ ftype[RootIno] = "NFDIR"
  BY Zenon DEF ServerInv, TreeOK
<1>4. ASSUME NEW p \in Path, p # <<>>, tree[p] # NULL
      PROVE  Parent(p) \in Path /\ tree[Parent(p)] # NULL /\ ftype[tree[Parent(p)]] = "NFDIR"
  <2>1. TypeAt(Parent(p)) = "NFDIR"
    BY <1>4, Zenon DEF ServerInv, TreeOK, Parent
  <2> QED
    BY <1>4, <2>1, ParentPath, Zenon DEF TypeAt, lstat
<1>5. ASSUME NEW p \in Path, NEW q \in Path, tree[p] = tree[q], tree[p] # NULL, ftype[tree[p]] = "NFDIR"
      PROVE  p = q
  <2>1. TypeAt(p) = "NFDIR"
    BY <1>5, Zenon DEF TypeAt, lstat
  <2> QED
    BY <1>5, <2>1, Zenon DEF ServerInv, TreeOK
<1>6. ASSUME NEW p \in Path, tree[p] # NULL PROVE ftype[tree[p]] # "none"
  <2>1. tree[p] \in Inode /\ tree[p] \notin FreeInode
    BY <1>2, <1>6, Zenon DEF FreeInode
  <2> QED
    BY <2>1, Zenon DEF ServerInv, TreeOK
<1> QED
  BY <1>2, <1>3, <1>4, <1>5, <1>6, Zenon DEF IsTree

\* A tree with the inodes no name is linked to freed is as TreeOK has it.
LEMMA BecomeTree ==
    ASSUME NEW t, NEW types, IsTree(t, types), Become(t, types)
    PROVE  /\ tree' \in [Path -> Inode \cup {NULL}] /\ ftype' \in [Inode -> FileType]
           /\ TreeOK'
<1>1. NULL \notin Inode /\ RootIno \in Inode /\ <<>> \in Path
  BY FileSystemAssumption, RootPath, Zenon
<1>2. tree' = t /\ ftype' = [i \in Inode |-> IF \E p \in Path : t[p] = i THEN types[i] ELSE "none"]
  BY Zenon DEF Become
<1>3. t \in [Path -> Inode \cup {NULL}] /\ types \in [Inode -> FileType]
  BY Zenon DEF IsTree
<1>4. ftype' \in [Inode -> FileType]
  BY <1>2, <1>3, Zenon DEF FileType
<1>5. ASSUME NEW p \in Path, t[p] # NULL PROVE t[p] \in Inode /\ ftype'[t[p]] = types[t[p]]
  BY <1>2, <1>3, <1>5, Zenon
<1>6. ASSUME NEW p \in Path PROVE TypeAt(p)' = IF t[p] = NULL THEN "none" ELSE types[t[p]]
  BY <1>2, <1>5, <1>6, Zenon DEF TypeAt, lstat
<1>7. tree'[<<>>] = RootIno /\ ftype'[RootIno] = "NFDIR"
  BY <1>1, <1>2, <1>5, Zenon DEF IsTree
<1>8. ASSUME NEW p \in Path, p # <<>>, tree'[p] # NULL PROVE TypeAt(SubSeq(p, 1, Len(p) - 1))' = "NFDIR"
  <2>1. Parent(p) \in Path /\ t[Parent(p)] # NULL /\ types[t[Parent(p)]] = "NFDIR"
    BY <1>2, <1>8, Zenon DEF IsTree
  <2>2. TypeAt(Parent(p))' = "NFDIR"
    BY <1>6, <2>1, Zenon
  <2> QED
    BY <2>2, Zenon DEF Parent
<1>9. ASSUME NEW p \in Path, NEW q \in Path, tree'[p] = tree'[q], TypeAt(p)' = "NFDIR" PROVE p = q
  <2>1. t[p] # NULL /\ types[t[p]] = "NFDIR"
    BY <1>6, <1>9, Zenon
  <2> QED
    BY <1>2, <1>9, <2>1, Zenon DEF IsTree
<1>10. ASSUME NEW i \in Inode PROVE ftype'[i] = "none" <=> i \in FreeInode'
  <2>1. CASE \E p \in Path : t[p] = i
    <3>1. PICK p \in Path : t[p] = i
      BY <2>1, Zenon
    <3>2. ftype'[i] # "none"
      BY <1>1, <1>5, <3>1, Zenon DEF IsTree
    <3> QED
      BY <1>2, <3>1, <3>2, Zenon DEF FreeInode
  <2>2. CASE ~(\E p \in Path : t[p] = i)
    BY <1>2, <2>2, Zenon DEF FreeInode
  <2> QED
    BY <2>1, <2>2, Zenon
<1>11. TreeOK'
  BY <1>7, <1>8, <1>9, <1>10, Zenon DEF TreeOK
<1> QED
  BY <1>2, <1>3, <1>4, <1>11, Zenon

\* The directory of a name in a mapped directory
LEMMA InDirectory ==
    ASSUME TypeOK, NEW c \in Path, InMappedDirectory(c)
    PROVE  /\ c # <<>> /\ Parent(c) \in Path /\ tree[Parent(c)] # NULL /\ ftype[tree[Parent(c)]] = "NFDIR"
           /\ \E k \in DOMAIN inode_cache : Parent(c) = inode_cache[k].path
<1>1. PICK k \in DOMAIN inode_cache, n \in Name :
         c = Append(inode_cache[k].path, n) /\ TypeAt(inode_cache[k].path) = "NFDIR"
  BY Zenon DEF InMappedDirectory
<1>2. inode_cache[k].path \in Path
  BY CacheTyped, Zenon
<1>3. inode_cache[k].path \in Seq(Name)
  BY <1>2, PathIs, Zenon
<1>4. c # <<>> /\ Parent(c) = inode_cache[k].path
  BY <1>1, <1>3, AppendIs, Zenon
<1>5. TypeAt(Parent(c)) = "NFDIR" /\ Parent(c) \in Path
  BY <1>1, <1>2, <1>4, Zenon
<1> QED
  BY <1>4, <1>5, Zenon DEF TypeAt, lstat

\* A node with a new inode in a directory
LEMMA MakesTree ==
    ASSUME ServerInv, NEW c \in Path, NEW i \in Inode, NEW type \in FileType, Makes(c, i, type)
    PROVE  IsTree([tree EXCEPT ![c] = i], [ftype EXCEPT ![i] = type])
<1> DEFINE t == [tree EXCEPT ![c] = i]
           types == [ftype EXCEPT ![i] = type]
<1>1. IsTree(tree, ftype) /\ TypeOK /\ NULL \notin Inode
  BY TreeIs, FileSystemAssumption, Zenon DEF ServerInv
<1>2. InMappedDirectory(c) /\ tree[c] = NULL /\ type # "none" /\ (\A p \in Path : tree[p] # i)
  BY Zenon DEF Makes, FreeInode
<1>3. c # <<>> /\ Parent(c) \in Path /\ tree[Parent(c)] # NULL /\ ftype[tree[Parent(c)]] = "NFDIR"
  BY <1>1, <1>2, InDirectory, Zenon
<1>4. tree \in [Path -> Inode \cup {NULL}] /\ ftype \in [Inode -> FileType]
  BY <1>1, Zenon DEF TypeOK
<1>5. t \in [Path -> Inode \cup {NULL}] /\ types \in [Inode -> FileType] /\ t[c] = i /\ types[i] = type
  BY <1>4, Zenon
<1>6. \A p \in Path : p # c => t[p] = tree[p]
  BY <1>4, Zenon
<1>7. \A p \in Path : tree[p] # NULL => p # c /\ tree[p] \in Inode /\ types[tree[p]] = ftype[tree[p]]
  BY <1>2, <1>4, Zenon
<1> HIDE DEF t, types
<1>8. t[<<>>] = RootIno /\ types[RootIno] = "NFDIR"
  BY <1>1, <1>3, <1>6, <1>7, RootPath, FileSystemAssumption, Zenon DEF IsTree
<1>9. ASSUME NEW p \in Path, p # <<>>, t[p] # NULL
      PROVE  Parent(p) \in Path /\ t[Parent(p)] # NULL /\ types[t[Parent(p)]] = "NFDIR"
  <2>1. Parent(p) \in Path /\ tree[Parent(p)] # NULL /\ ftype[tree[Parent(p)]] = "NFDIR"
    BY <1>1, <1>3, <1>6, <1>9, Zenon DEF IsTree
  <2> QED
    BY <1>6, <1>7, <2>1, Zenon
<1>10. ASSUME NEW p \in Path, NEW q \in Path, t[p] = t[q], t[p] # NULL, types[t[p]] = "NFDIR"
       PROVE  p = q
  BY <1>1, <1>2, <1>5, <1>6, <1>7, <1>10 DEF IsTree
<1>11. ASSUME NEW p \in Path, t[p] # NULL PROVE types[t[p]] # "none"
  BY <1>1, <1>2, <1>5, <1>6, <1>7, <1>11 DEF IsTree
<1>12. IsTree(t, types)
  BY <1>5, <1>8, <1>9, <1>10, <1>11, Zenon DEF IsTree
<1> QED
  BY <1>12, Zenon DEF t, types

\* A second name for a regular file
LEMMA LinksTree ==
    ASSUME ServerInv, NEW c \in Path, NEW p \in Path, Links(c, p)
    PROVE  IsTree([tree EXCEPT ![c] = tree[p]], ftype)
<1> DEFINE t == [tree EXCEPT ![c] = tree[p]]
<1>1. IsTree(tree, ftype) /\ TypeOK /\ NULL \notin Inode
  BY TreeIs, FileSystemAssumption, Zenon DEF ServerInv
<1>2. InMappedDirectory(c) /\ tree[c] = NULL /\ tree[p] # NULL /\ ftype[tree[p]] = "NFREG"
  BY Zenon DEF Links, TypeAt, lstat
<1>3. c # <<>> /\ Parent(c) \in Path /\ tree[Parent(c)] # NULL /\ ftype[tree[Parent(c)]] = "NFDIR"
  BY <1>1, <1>2, InDirectory, Zenon
<1>4. tree \in [Path -> Inode \cup {NULL}] /\ ftype \in [Inode -> FileType]
  BY <1>1, Zenon DEF TypeOK
<1>5. t \in [Path -> Inode \cup {NULL}] /\ t[c] = tree[p]
  BY <1>4, Zenon
<1>6. \A q \in Path : q # c => t[q] = tree[q]
  BY <1>4, Zenon
<1>7. \A q \in Path : tree[q] # NULL => t[q] = tree[q]
  BY <1>2, <1>6, Zenon
<1> HIDE DEF t
<1>8. t[<<>>] = RootIno
  BY <1>1, <1>3, <1>6, RootPath, Zenon DEF IsTree
<1>9. ASSUME NEW q \in Path, q # <<>>, t[q] # NULL
      PROVE  Parent(q) \in Path /\ t[Parent(q)] # NULL /\ ftype[t[Parent(q)]] = "NFDIR"
  <2>1. Parent(q) \in Path /\ tree[Parent(q)] # NULL /\ ftype[tree[Parent(q)]] = "NFDIR"
    BY <1>1, <1>3, <1>6, <1>9, Zenon DEF IsTree
  <2> QED
    BY <1>7, <2>1, Zenon
<1>10. ASSUME NEW q \in Path, NEW r \in Path, t[q] = t[r], t[q] # NULL, ftype[t[q]] = "NFDIR"
       PROVE  q = r
  <2>1. q # c /\ r # c
    BY <1>2, <1>5, <1>10, Zenon
  <2> QED
    BY <1>1, <1>6, <1>10, <2>1, Zenon DEF IsTree
<1>11. ASSUME NEW q \in Path, t[q] # NULL PROVE ftype[t[q]] # "none"
  BY <1>1, <1>2, <1>5, <1>6, <1>11, Zenon DEF IsTree
<1>12. IsTree(t, ftype)
  BY <1>1, <1>5, <1>8, <1>9, <1>10, <1>11, Zenon DEF IsTree
<1> QED
  BY <1>12, Zenon DEF t

\* A name less: a file, or a directory with nothing below it
LEMMA DropsTree ==
    ASSUME ServerInv, NEW c \in Path, Drops(c)
    PROVE  IsTree([tree EXCEPT ![c] = NULL], ftype)
<1> DEFINE t == [tree EXCEPT ![c] = NULL]
<1>1. IsTree(tree, ftype) /\ TypeOK /\ NULL \notin Inode
  BY TreeIs, FileSystemAssumption, Zenon DEF ServerInv
<1>2. InMappedDirectory(c) /\ tree[c] # NULL /\ (TypeAt(c) = "NFDIR" => IsEmptyDirectory(c))
  BY Zenon DEF Drops
<1>3. c # <<>>
  BY <1>1, <1>2, InDirectory, Zenon
<1>4. tree \in [Path -> Inode \cup {NULL}] /\ ftype \in [Inode -> FileType]
  BY <1>1, Zenon DEF TypeOK
<1>5. t \in [Path -> Inode \cup {NULL}] /\ t[c] = NULL
  BY <1>4, Zenon
<1>6. \A q \in Path : t[q] # NULL => q # c /\ t[q] = tree[q]
  BY <1>4, Zenon
<1>7. \A q \in Path : q # c => t[q] = tree[q]
  BY <1>4, Zenon
<1> HIDE DEF t
<1>8. t[<<>>] = RootIno
  BY <1>1, <1>3, <1>7, RootPath, Zenon DEF IsTree
<1>9. ASSUME NEW q \in Path, q # <<>>, t[q] # NULL
      PROVE  Parent(q) \in Path /\ t[Parent(q)] # NULL /\ ftype[t[Parent(q)]] = "NFDIR"
  <2>1. /\ Parent(q) \in Path /\ tree[Parent(q)] # NULL /\ ftype[tree[Parent(q)]] = "NFDIR"
        /\ tree[q] # NULL
    BY <1>1, <1>6, <1>9, Zenon DEF IsTree
  <2>2. ASSUME Parent(q) = c PROVE FALSE
    <3>1. TypeAt(c) = "NFDIR"
      BY <2>1, <2>2, Zenon DEF TypeAt, lstat
    <3>2. q \in Seq(Name)
      BY PathIs, Zenon
    <3>3. Len(q) \in Nat /\ Len(q) >= 1
      BY <1>9, <3>2
    <3>4. q[Len(q)] \in Name
      BY <3>2, <3>3
    <3>5. q = Append(c, q[Len(q)])
      BY <1>9, <2>2, <3>2, <3>3 DEF Parent
    <3>6. lstat(q) = NULL
      BY <1>2, <3>1, <3>4, <3>5, Zenon DEF IsEmptyDirectory
    <3> QED
      BY <2>1, <3>6, Zenon DEF lstat
  <2> QED
    BY <1>7, <2>1, <2>2, Zenon
<1>10. ASSUME NEW q \in Path, NEW r \in Path, t[q] = t[r], t[q] # NULL, ftype[t[q]] = "NFDIR"
       PROVE  q = r
  BY <1>1, <1>6, <1>10, Zenon DEF IsTree
<1>11. ASSUME NEW q \in Path, t[q] # NULL PROVE ftype[t[q]] # "none"
  BY <1>1, <1>6, <1>11, Zenon DEF IsTree
<1>12. IsTree(t, ftype)
  BY <1>1, <1>5, <1>8, <1>9, <1>10, <1>11, Zenon DEF IsTree
<1> QED
  BY <1>12, Zenon DEF t

\* What a name is below is a directory, and not an empty one.
LEMMA Ancestors ==
    ASSUME ServerInv, NEW d \in Path, NEW p \in Path, Under(d, p), d # p, tree[p] # NULL
    PROVE  TypeAt(d) = "NFDIR" /\ ~IsEmptyDirectory(d) /\ tree[d] # NULL
<1> DEFINE Below(q) == Under(d, q) /\ d # q /\ tree[q] # NULL
           S == {m \in Nat : \E q \in Path : Len(q) = m /\ Below(q)}
<1>1. IsTree(tree, ftype)
  BY TreeIs, Zenon
<1>2. \A q \in Path : q \in Seq(Name) /\ Len(q) \in Nat
  BY PathIs
<1>3. Len(p) \in S
  BY <1>2, Zenon
<1>4. S \in SUBSET Nat /\ S # {}
  BY <1>3, Zenon
<1> HIDE DEF S
<1>5. PICK m \in S : \A k \in S : m <= k
  BY <1>4, LeastElement, Zenon
<1>6. PICK q \in Path : Len(q) = m /\ Below(q)
  BY <1>5, Zenon DEF S
<1>7. q # <<>>
  <2> SUFFICES ASSUME q = <<>> PROVE FALSE
    BY Zenon
  <2>1. Len(d) <= 0 /\ d \in Seq(Name)
    BY <1>2, <1>6, UnderIs, Zenon
  <2>2. d = <<>>
    BY <2>1
  <2> QED
    BY <1>6, <2>2, Zenon
<1>8. Parent(q) \in Path /\ tree[Parent(q)] # NULL /\ ftype[tree[Parent(q)]] = "NFDIR"
  BY <1>1, <1>6, <1>7, Zenon DEF IsTree
<1>9. Under(d, Parent(q)) /\ Len(Parent(q)) = Len(q) - 1
  BY <1>2, <1>6, <1>7, UnderParent, ParentIs, Zenon
<1>10. d = Parent(q)
  <2> SUFFICES ASSUME d # Parent(q) PROVE FALSE
    BY Zenon
  <2>1. Len(Parent(q)) \in S
    BY <1>2, <1>8, <1>9, Zenon DEF S
  <2>2. m <= Len(Parent(q))
    BY <1>5, <2>1, Zenon
  <2> QED
    BY <1>2, <1>6, <1>9, <2>2
<1>11. TypeAt(d) = "NFDIR" /\ tree[d] # NULL
  BY <1>8, <1>10, Zenon DEF TypeAt, lstat
<1>12. ~IsEmptyDirectory(d)
  <2>1. q \in Seq(Name) /\ Len(q) >= 1
    BY <1>2, <1>7
  <2>2. q[Len(q)] \in Name
    BY <2>1
  <2>3. q = Append(d, q[Len(q)])
    BY <1>7, <1>10, <2>1 DEF Parent
  <2>4. lstat(q) # NULL
    BY <1>6, Zenon DEF lstat
  <2> QED
    BY <2>2, <2>3, <2>4, Zenon DEF IsEmptyDirectory
<1> QED
  BY <1>11, <1>12, Zenon

\* rename(2) refuses to move a directory below itself, and to replace one that is not empty.
LEMMA MovesApart ==
    ASSUME ServerInv, NEW from \in Path, NEW to \in Path, Moves(from, to), tree[from] # tree[to]
    PROVE  ~Under(from, to) /\ ~Under(to, from)
<1>1. InMappedDirectory(to) /\ tree[from] # NULL /\ RenameErrno(from, to) = "0" /\ TypeOK
  BY Zenon DEF Moves, ServerInv
<1>2. lstat(from) = tree[from] /\ lstat(to) = tree[to] /\ from # to
  BY Zenon DEF lstat
<1>3. /\ ~(TypeAt(from) = "NFDIR" /\ Under(from, to))
      /\ tree[to] # NULL => /\ TypeAt(from) # "NFDIR" => TypeAt(to) # "NFDIR"
                            /\ TypeAt(from) = "NFDIR" => IsEmptyDirectory(to)
  BY <1>1, <1>2, Zenon DEF RenameErrno
<1>4. ASSUME Under(from, to) PROVE FALSE
  <2>1. to # <<>> /\ Parent(to) \in Path /\ tree[Parent(to)] # NULL /\ ftype[tree[Parent(to)]] = "NFDIR"
    BY <1>1, InDirectory, Zenon
  <2>2. from \in Seq(Name) /\ to \in Seq(Name)
    BY PathIs, Zenon
  <2>3. Under(from, Parent(to))
    BY <1>2, <1>4, <2>1, <2>2, UnderParent, Zenon
  <2>4. TypeAt(from) = "NFDIR"
    <3>1. CASE from = Parent(to)
      BY <2>1, <3>1, Zenon DEF TypeAt, lstat
    <3>2. CASE from # Parent(to)
      BY <2>1, <2>3, <3>2, Ancestors, Zenon
    <3> QED
      BY <3>1, <3>2, Zenon
  <2> QED
    BY <1>3, <1>4, <2>4, Zenon
<1>5. ASSUME Under(to, from) PROVE FALSE
  <2>1. TypeAt(to) = "NFDIR" /\ ~IsEmptyDirectory(to) /\ tree[to] # NULL
    BY <1>1, <1>2, <1>5, Ancestors, Zenon
  <2> QED
    BY <1>3, <2>1, Zenon
<1> QED
  BY <1>4, <1>5, Zenon

Moved(from, to) ==
    [p \in Path |-> IF Under(to, p) THEN lstat(Before(from, to, p))
                    ELSE IF Under(from, p) THEN NULL
                    ELSE tree[p]]

\* What a move leaves in place, and what it puts below 'to'
LEMMA MovedIs ==
    ASSUME ServerInv, NEW from \in Path, NEW to \in Path, Moves(from, to), tree[from] # tree[to],
           NEW p \in Path, Moved(from, to)[p] # NULL
    PROVE  \/ /\ ~Under(to, p) /\ ~Under(from, p) /\ Moved(from, to)[p] = tree[p]
           \/ /\ Under(to, p) /\ Before(from, to, p) \in Path /\ Under(from, Before(from, to, p))
              /\ Moved(from, to)[p] = tree[Before(from, to, p)]
<1>1. from \in Seq(Name) /\ to \in Seq(Name) /\ p \in Seq(Name)
  BY PathIs, Zenon
<1>2. Moved(from, to)[p] = IF Under(to, p) THEN lstat(Before(from, to, p))
                           ELSE IF Under(from, p) THEN NULL ELSE tree[p]
  BY Zenon DEF Moved
<1>3. CASE Under(to, p)
  <2>1. Under(from, Before(from, to, p))
    BY <1>1, <1>3, BeforeIs, Zenon DEF WasAt
  <2>2. lstat(Before(from, to, p)) # NULL
    BY <1>2, <1>3, Zenon
  <2> QED
    BY <1>2, <1>3, <2>1, <2>2, Zenon DEF lstat
<1>4. CASE ~Under(to, p)
  BY <1>2, <1>4, Zenon
<1> QED
  BY <1>3, <1>4, Zenon

\* A file or a directory, with all below it, under another name
LEMMA MovesTree ==
    ASSUME ServerInv, NEW from \in Path, NEW to \in Path, Moves(from, to), tree[from] # tree[to]
    PROVE  IsTree(Moved(from, to), ftype)
<1> DEFINE t == Moved(from, to)
<1>1. IsTree(tree, ftype) /\ TypeOK /\ NULL \notin Inode
  BY TreeIs, FileSystemAssumption, Zenon DEF ServerInv
<1>2. InMappedDirectory(from) /\ InMappedDirectory(to) /\ tree[from] # NULL
  BY Zenon DEF Moves
<1>3. /\ from # <<>> /\ to # <<>> /\ Parent(to) \in Path
      /\ tree[Parent(to)] # NULL /\ ftype[tree[Parent(to)]] = "NFDIR"
  BY <1>1, <1>2, InDirectory, Zenon
<1>4. ~Under(from, to) /\ ~Under(to, from)
  BY MovesApart, Zenon
<1>5. \A p \in Path : p \in Seq(Name)
  BY PathIs, Zenon
<1>6. tree \in [Path -> Inode \cup {NULL}]
  BY <1>1, Zenon DEF TypeOK
<1>7. \A p : lstat(p) \in Inode \cup {NULL}
  BY <1>6, Zenon DEF lstat
<1>8. t \in [Path -> Inode \cup {NULL}]
  BY <1>6, <1>7, Zenon DEF Moved
<1>9. \A p \in Path : ~Under(to, p) /\ ~Under(from, p) => t[p] = tree[p]
  BY Zenon DEF Moved
<1>10. \A p \in Path : Under(to, p) => t[p] = lstat(Before(from, to, p))
  BY Zenon DEF Moved
<1>11. \A p \in Path : t[p] # NULL =>
          \/ /\ ~Under(to, p) /\ ~Under(from, p) /\ t[p] = tree[p]
          \/ /\ Under(to, p) /\ Before(from, to, p) \in Path /\ Under(from, Before(from, to, p))
             /\ t[p] = tree[Before(from, to, p)]
  BY MovedIs, Zenon
<1> HIDE DEF t
<1>12. t[<<>>] = RootIno
  <2>1. ASSUME NEW d \in Path, d # <<>> PROVE ~Under(d, <<>>)
    <3>1. Len(d) # 0 /\ Len(d) \in Nat
      BY <1>5, <2>1
    <3> QED
      BY <3>1 DEF Under
  <2>2. t[<<>>] = tree[<<>>]
    BY <1>3, <1>9, <2>1, RootPath, Zenon
  <2> QED
    BY <1>1, <2>2, Zenon DEF IsTree
<1>13. ASSUME NEW p \in Path, p # <<>>, t[p] # NULL
       PROVE  Parent(p) \in Path /\ t[Parent(p)] # NULL /\ ftype[t[Parent(p)]] = "NFDIR"
  <2>0. Parent(p) \in Path
    BY <1>13, ParentPath, Zenon
  <2>1. CASE ~Under(to, p)
    <3>1. ~Under(from, p) /\ t[p] = tree[p]
      BY <1>11, <1>13, <2>1, Zenon
    <3>2. ~Under(to, Parent(p)) /\ ~Under(from, Parent(p))
      BY <1>5, <1>13, <2>1, <3>1, UnderParent, Zenon
    <3>3. t[Parent(p)] = tree[Parent(p)]
      BY <1>9, <2>0, <3>2, Zenon
    <3> QED
      BY <1>1, <1>13, <3>1, <3>3, Zenon DEF IsTree
  <2>2. CASE p = to
    <3>1. ~Under(from, Parent(to))
      BY <1>3, <1>4, <1>5, UnderParent, Zenon
    <3>2. ~Under(to, Parent(to))
      <4>1. Len(Parent(to)) = Len(to) - 1 /\ Len(to) \in Nat
        BY <1>3, <1>5, ParentIs
      <4> QED
        BY <4>1 DEF Under
    <3>3. t[Parent(to)] = tree[Parent(to)]
      BY <1>3, <1>9, <3>1, <3>2, Zenon
    <3> QED
      BY <1>3, <2>2, <3>3, Zenon
  <2>3. CASE Under(to, p) /\ p # to
    <3> DEFINE b == Before(from, to, p)
    <3>0. from \in Seq(Name) /\ to \in Seq(Name) /\ p \in Seq(Name) /\ Under(to, p) /\ p # to
      BY <1>5, <2>3, Zenon
    <3>1. Under(to, Parent(p)) /\ b # <<>> /\ Parent(b) = Before(from, to, Parent(p))
      BY <3>0, BeforeParent
    <3>2. b \in Path /\ tree[b] # NULL
      BY <1>11, <1>13, <2>3, Zenon
    <3>3. Parent(b) \in Path /\ tree[Parent(b)] # NULL /\ ftype[tree[Parent(b)]] = "NFDIR"
      BY <1>1, <3>1, <3>2, Zenon DEF IsTree
    <3>4. t[Parent(p)] = tree[Parent(b)]
      BY <1>10, <2>0, <3>1, <3>3, Zenon DEF lstat
    <3> QED
      BY <2>0, <3>3, <3>4, Zenon
  <2> QED
    BY <2>1, <2>2, <2>3, Zenon
<1>14. ASSUME NEW p \in Path, NEW q \in Path, t[p] = t[q], t[p] # NULL, ftype[t[p]] = "NFDIR"
       PROVE  p = q
  <2>1. CASE Under(to, p) /\ Under(to, q)
    <3>1. Before(from, to, p) = Before(from, to, q)
      BY <1>1, <1>11, <1>14, <2>1 DEF IsTree
    <3> QED
      BY <1>5, <2>1, <3>1, BeforeOnce, Zenon
  <2>2. CASE ~Under(to, p) /\ ~Under(to, q)
    BY <1>1, <1>11, <1>14, <2>2 DEF IsTree
  <2>3. CASE Under(to, p) /\ ~Under(to, q)
    <3>1. Before(from, to, p) = q
      BY <1>1, <1>11, <1>14, <2>3 DEF IsTree
    <3> QED
      BY <1>11, <1>14, <2>3, <3>1, Zenon
  <2>4. CASE ~Under(to, p) /\ Under(to, q)
    <3>1. Before(from, to, q) = p
      BY <1>1, <1>11, <1>14, <2>4, Zenon DEF IsTree
    <3> QED
      BY <1>11, <1>14, <2>4, <3>1, Zenon
  <2> QED
    BY <2>1, <2>2, <2>3, <2>4, Zenon
<1>15. ASSUME NEW p \in Path, t[p] # NULL PROVE ftype[t[p]] # "none"
  BY <1>1, <1>11, <1>15, Zenon DEF IsTree
<1>16. IsTree(t, ftype)
  BY <1>1, <1>8, <1>12, <1>13, <1>14, <1>15, Zenon DEF IsTree
<1> QED
  BY <1>16, Zenon DEF t

-----------------------------------------------------------------------------
(***************************************************************************)
(* The list of mappings.                                                   *)
(***************************************************************************)
MappingSet == [ino : Inode, path : Path]

\* A list with one more mapping in front
IsLonger(added, cache, i, p) ==
    /\ added \in Seq(MappingSet) /\ Len(added) = Len(cache) + 1
    /\ added[1] = [ino |-> i, path |-> p]
    /\ \A k \in DOMAIN cache : k + 1 \in DOMAIN added /\ added[k + 1] = cache[k]
    /\ \A j \in DOMAIN added : j # 1 => j - 1 \in DOMAIN cache /\ added[j] = cache[j - 1]

\* add_inode_mapping puts the new mapping in front.
LEMMA AddedMapping ==
    ASSUME NEW cache \in Seq(MappingSet), NEW i \in Inode, NEW p \in Path
    PROVE  IsLonger(add_inode_mapping(cache, i, p), cache, i, p)
<1> DEFINE m == [ino |-> i, path |-> p]
           added == <<m>> \o cache
<1>1. m \in MappingSet
  BY Zenon DEF MappingSet
<1>2. add_inode_mapping(cache, i, p) = added
  BY Zenon DEF add_inode_mapping, Mapping
<1> HIDE DEF m, MappingSet
<1>3. <<m>> \in Seq(MappingSet) /\ Len(<<m>>) = 1 /\ <<m>>[1] = m
  BY <1>1
<1>4. /\ added \in Seq(MappingSet) /\ Len(added) = 1 + Len(cache)
      /\ \A j \in 1..(1 + Len(cache)) : added[j] = IF j <= 1 THEN <<m>>[j] ELSE cache[j - 1]
  <2>1. /\ added \in Seq(MappingSet) /\ Len(added) = Len(<<m>>) + Len(cache)
        /\ \A j \in 1..(Len(<<m>>) + Len(cache)) :
              added[j] = IF j <= Len(<<m>>) THEN <<m>>[j] ELSE cache[j - Len(<<m>>)]
    BY <1>3, Joined, Zenon
  <2> QED
    BY <1>3, <2>1, Zenon
<1> HIDE DEF added
<1>5. /\ DOMAIN added = 1..Len(added) /\ DOMAIN cache = 1..Len(cache) /\ Len(cache) \in Nat
      /\ Len(added) = Len(cache) + 1
  BY <1>4
<1>6. added[1] = m
  BY <1>3, <1>4, <1>5
<1>7. \A k \in DOMAIN cache : k + 1 \in DOMAIN added /\ added[k + 1] = cache[k]
  BY <1>4, <1>5
<1>8. \A j \in DOMAIN added : j # 1 => j - 1 \in DOMAIN cache /\ added[j] = cache[j - 1]
  <2> SUFFICES ASSUME NEW j \in DOMAIN added, j # 1
               PROVE  j - 1 \in DOMAIN cache /\ added[j] = cache[j - 1]
    BY Zenon
  <2>1. j \in 1..(1 + Len(cache)) /\ ~(j <= 1) /\ j - 1 \in 1..Len(cache)
    BY <1>5
  <2> QED
    BY <1>4, <1>5, <2>1, Zenon
<1> QED
  BY <1>2, <1>4, <1>5, <1>6, <1>7, <1>8, Zenon DEF m, IsLonger

\* The first mapping to a path
LEMMA FirstPathIs ==
    ASSUME NEW cache \in Seq(MappingSet), NEW p
    PROVE  LET x == FirstPath(cache, p)
           IN  IF \E k \in DOMAIN cache : cache[k].path = p
               THEN x \in DOMAIN cache /\ x # 0 /\ cache[x].path = p
               ELSE x = 0
<1> DEFINE S == {k \in DOMAIN cache : cache[k].path = p}
<1>1. DOMAIN cache = 1..Len(cache) /\ Len(cache) \in Nat
  OBVIOUS
<1>2. CASE \E k \in DOMAIN cache : cache[k].path = p
  <2>1. S \in SUBSET Nat /\ S # {}
    BY <1>1, <1>2
  <2>2. PICK x \in S : \A y \in S : x <= y
    BY <2>1, LeastElement, Zenon
  <2>3. x \in DOMAIN cache /\ cache[x].path = p /\ \A j \in 1..(x-1) : cache[j].path # p
    BY <1>1, <2>2
  <2>4. FirstPath(cache, p) \in DOMAIN cache /\ cache[FirstPath(cache, p)].path = p
    BY <1>2, <2>3, Zenon DEF FirstPath
  <2> QED
    BY <1>1, <1>2, <2>4
<1>3. CASE ~(\E k \in DOMAIN cache : cache[k].path = p)
  BY <1>3, Zenon DEF FirstPath
<1> QED
  BY <1>2, <1>3, Zenon

\* The list without the mapping at x
IsShorter(removed, cache, x) ==
    /\ \A k \in DOMAIN cache \ {x} : \E j \in DOMAIN removed : removed[j] = cache[k]
    /\ \E f \in [DOMAIN removed -> DOMAIN cache \ {x}] :
          /\ \A j \in DOMAIN removed : removed[j] = cache[f[j]]
          /\ \A j, k \in DOMAIN removed : f[j] = f[k] => j = k

\* Removing by path takes out one mapping to the path, if there is one.
LEMMA RemovedMapping ==
    ASSUME NEW cache \in Seq(MappingSet), NEW p
    PROVE  LET removed == remove_inode_mapping_by_absolute_path(cache, p)
           IN  /\ removed \in Seq(MappingSet)
               /\ \/ removed = cache /\ \A k \in DOMAIN cache : cache[k].path # p
                  \/ \E x \in DOMAIN cache : cache[x].path = p /\ IsShorter(removed, cache, x)
<1> DEFINE x == FirstPath(cache, p)
           r == remove_inode_mapping_by_absolute_path(cache, p)
<1>1. DOMAIN cache = 1..Len(cache) /\ Len(cache) \in Nat
  OBVIOUS
<1>2. CASE ~(\E k \in DOMAIN cache : cache[k].path = p)
  <2>1. x = 0
    BY <1>2, FirstPathIs, Zenon
  <2>2. remove_inode_mapping_by_absolute_path(cache, p) = cache
    BY <2>1, Zenon DEF remove_inode_mapping_by_absolute_path
  <2> QED
    BY <1>2, <2>2, Zenon
<1>3. CASE \E k \in DOMAIN cache : cache[k].path = p
  <2>1. x \in DOMAIN cache /\ x # 0 /\ cache[x].path = p
    BY <1>3, FirstPathIs, Zenon
  <2>2. r = DropAt(cache, x)
    BY <2>1, Zenon DEF remove_inode_mapping_by_absolute_path
  <2>3. r = [j \in 1..(Len(cache) - 1) |-> IF j < x THEN cache[j] ELSE cache[j + 1]]
    BY <2>2, Zenon DEF DropAt
  <2> HIDE DEF x, r
  <2> DEFINE n == Len(cache) - 1
  <2>4. n \in Nat /\ Len(cache) = n + 1 /\ x \in 1..(n + 1) /\ DOMAIN cache = 1..(n + 1)
    BY <1>1, <2>1
  <2>5. r = [j \in 1..n |-> IF j < x THEN cache[j] ELSE cache[j + 1]]
    BY <2>3, Zenon
  <2> HIDE DEF n
  <2> DEFINE f == [j \in 1..n |-> IF j < x THEN j ELSE j + 1]
  <2>6. DOMAIN r = 1..n /\ \A j \in 1..n : r[j] = IF j < x THEN cache[j] ELSE cache[j + 1]
    BY <2>5, Zenon
  <2>7. f \in [1..n -> (1..(n + 1)) \ {x}] /\ \A j \in 1..n : f[j] = IF j < x THEN j ELSE j + 1
    BY <2>4
  <2> HIDE DEF f
  <2>8. \A j \in 1..n : r[j] = cache[f[j]]
    BY <2>6, <2>7, Zenon
  <2>9. \A j, k \in 1..n : f[j] = f[k] => j = k
    BY <2>4, <2>7
  <2>10. \A k \in (1..(n + 1)) \ {x} : \E j \in 1..n : f[j] = k
    <3> SUFFICES ASSUME NEW k \in (1..(n + 1)) \ {x} PROVE \E j \in 1..n : f[j] = k
      BY Zenon
    <3>1. CASE k < x
      BY <2>4, <2>7, <3>1
    <3>2. CASE k > x
      <4>1. k - 1 \in 1..n /\ ~(k - 1 < x) /\ k - 1 + 1 = k
        BY <2>4, <3>2
      <4> QED
        BY <2>7, <4>1, Zenon
    <3> QED
      BY <2>4, <3>1, <3>2
  <2>11. \A j \in 1..(n + 1) : cache[j] \in MappingSet
    BY <2>4, ElementOf, Zenon
  <2>12. \A j \in 1..n : r[j] \in MappingSet
    BY <2>7, <2>8, <2>11, Zenon
  <2>13. r \in [1..n -> MappingSet]
    BY <2>5, <2>6, <2>12, Zenon
  <2>14. r \in Seq(MappingSet)
    BY <2>4, <2>13
  <2>15. \A k \in DOMAIN cache \ {x} : \E j \in DOMAIN r : r[j] = cache[k]
    <3>1. \A k \in (1..(n + 1)) \ {x} : \E j \in 1..n : r[j] = cache[k]
      BY <2>8, <2>10
    <3> QED
      BY <2>4, <2>6, <3>1, Zenon
  <2>16. f \in [DOMAIN r -> DOMAIN cache \ {x}]
    BY <2>4, <2>6, <2>7, Zenon
  <2>17. \E g \in [DOMAIN r -> DOMAIN cache \ {x}] :
            /\ \A j \in DOMAIN r : r[j] = cache[g[j]]
            /\ \A j, k \in DOMAIN r : g[j] = g[k] => j = k
    <3>1. /\ \A j \in DOMAIN r : r[j] = cache[f[j]]
          /\ \A j, k \in DOMAIN r : f[j] = f[k] => j = k
      BY <2>6, <2>8, <2>9, Zenon
    <3> QED
      BY <2>16, <3>1, Zenon
  <2>18. IsShorter(r, cache, x)
    BY <2>15, <2>17, Zenon DEF IsShorter
  <2> QED
    BY <2>1, <2>14, <2>18, Zenon DEF r
<1> QED
  BY <1>2, <1>3, Zenon

\* Updating by path gives one mapping to the path the new path, if there is one.
LEMMA UpdatedMapping ==
    ASSUME NEW cache \in Seq(MappingSet), NEW p, NEW new \in Path
    PROVE  LET updated == update_inode_mapping_absolute_path(cache, p, new)
           IN  /\ updated \in Seq(MappingSet) /\ DOMAIN updated = DOMAIN cache
               /\ \A k \in DOMAIN cache : updated[k].ino = cache[k].ino
               /\ \/ updated = cache /\ \A k \in DOMAIN cache : cache[k].path # p
                  \/ \E x \in DOMAIN cache :
                        /\ cache[x].path = p /\ updated[x].path = new
                        /\ \A k \in DOMAIN cache \ {x} : updated[k] = cache[k]
<1> DEFINE x == FirstPath(cache, p)
<1>1. DOMAIN cache = 1..Len(cache) /\ Len(cache) \in Nat
  OBVIOUS
<1>2. CASE ~(\E k \in DOMAIN cache : cache[k].path = p)
  <2>1. x = 0
    BY <1>2, FirstPathIs, Zenon
  <2>2. update_inode_mapping_absolute_path(cache, p, new) = cache
    BY <2>1, Zenon DEF update_inode_mapping_absolute_path
  <2> QED
    BY <1>2, <2>2, Zenon
<1>3. CASE \E k \in DOMAIN cache : cache[k].path = p
  <2>1. x \in DOMAIN cache /\ x # 0 /\ cache[x].path = p
    BY <1>3, FirstPathIs, Zenon
  <2> DEFINE u == [cache EXCEPT ![x].path = new]
  <2>2. update_inode_mapping_absolute_path(cache, p, new) = u
    BY <2>1, Zenon DEF update_inode_mapping_absolute_path
  <2> HIDE DEF x
  <2>3. \A j \in DOMAIN cache : cache[j] \in MappingSet
    BY <1>1, ElementOf, Zenon
  <2>4. DOMAIN u = DOMAIN cache /\ \A k \in DOMAIN cache \ {x} : u[k] = cache[k]
    BY Zenon
  <2>5. u[x] = [cache[x] EXCEPT !.path = new]
    BY <2>1, Zenon
  <2>6. u[x].ino = cache[x].ino /\ u[x].path = new /\ u[x] \in MappingSet
    BY <2>1, <2>3, <2>5, Zenon DEF MappingSet
  <2> HIDE DEF u
  <2>7. \A k \in DOMAIN cache : u[k] \in MappingSet /\ u[k].ino = cache[k].ino
    BY <2>3, <2>4, <2>6, Zenon
  <2>8. u = [k \in 1..Len(cache) |-> u[k]]
    BY <1>1, <2>4, Zenon DEF u
  <2>9. u \in [1..Len(cache) -> MappingSet]
    BY <1>1, <2>7, <2>8, Zenon
  <2>10. u \in Seq(MappingSet)
    BY <1>1, <2>9
  <2> QED
    BY <2>1, <2>2, <2>4, <2>6, <2>7, <2>10, Zenon
<1> QED
  BY <1>2, <1>3, Zenon

\* rename(2) moves the name, or does nothing when both names are links to one file.
LEMMA MovedTo ==
    ASSUME ServerInv, NEW from \in Path, NEW to \in Path, Moves(from, to)
    PROVE  /\ tree[from] = tree[to] => tree' = tree /\ Become(tree, ftype)
           /\ tree[from] # tree[to] => tree' = Moved(from, to) /\ Become(Moved(from, to), ftype)
<1>1. MoveName(from, to) /\ lstat(from) = tree[from] /\ lstat(to) = tree[to]
  BY Zenon DEF Moves, lstat
<1>2. Become(IF tree[from] = tree[to] THEN tree ELSE Moved(from, to), ftype)
  BY <1>1, Zenon DEF MoveName, Moved
<1> QED
  BY <1>2, Zenon DEF Become

\* What a request does keeps the files a tree.
LEMMA TreeStep ==
    ASSUME ServerInv, Effect
    PROVE  TreeOK' /\ tree' \in [Path -> Inode \cup {NULL}] /\ ftype' \in [Inode -> FileType]
<1>1. TypeOK /\ TreeOK /\ IsTree(tree, ftype)
  BY TreeIs, Zenon DEF ServerInv
<1>2. CASE UNCHANGED <<tree, ftype>>
  <2>1. TreeOK'
    BY <1>1, <1>2 DEF TreeOK, TypeAt, lstat, FreeInode
  <2> QED
    BY <1>1, <1>2, <2>1, Zenon DEF TypeOK
<1>3. ASSUME NEW c \in Path, NEW i \in Inode, NEW type \in FileType, Makes(c, i, type)
      PROVE  TreeOK' /\ tree' \in [Path -> Inode \cup {NULL}] /\ ftype' \in [Inode -> FileType]
  <2>1. Become([tree EXCEPT ![c] = i], [ftype EXCEPT ![i] = type])
    BY <1>3, Zenon DEF Makes, MakeNode
  <2>2. IsTree([tree EXCEPT ![c] = i], [ftype EXCEPT ![i] = type])
    BY <1>3, MakesTree, Zenon
  <2> QED
    BY <2>1, <2>2, BecomeTree, Zenon
<1>4. ASSUME NEW c \in Path, NEW p \in Path, Links(c, p)
      PROVE  TreeOK' /\ tree' \in [Path -> Inode \cup {NULL}] /\ ftype' \in [Inode -> FileType]
  <2>1. Become([tree EXCEPT ![c] = tree[p]], ftype)
    BY <1>4, Zenon DEF Links, MakeLink
  <2>2. IsTree([tree EXCEPT ![c] = tree[p]], ftype)
    BY <1>4, LinksTree, Zenon
  <2> QED
    BY <2>1, <2>2, BecomeTree, Zenon
<1>5. ASSUME NEW c \in Path, Drops(c)
      PROVE  TreeOK' /\ tree' \in [Path -> Inode \cup {NULL}] /\ ftype' \in [Inode -> FileType]
  <2>1. Become([tree EXCEPT ![c] = NULL], ftype)
    BY <1>5, Zenon DEF Drops, DropName
  <2>2. IsTree([tree EXCEPT ![c] = NULL], ftype)
    BY <1>5, DropsTree, Zenon
  <2> QED
    BY <2>1, <2>2, BecomeTree, Zenon
<1>6. ASSUME NEW c \in Path, NEW p \in Path, Moves(c, p)
      PROVE  TreeOK' /\ tree' \in [Path -> Inode \cup {NULL}] /\ ftype' \in [Inode -> FileType]
  <2>1. CASE tree[c] = tree[p]
    BY <1>1, <1>6, <2>1, MovedTo, BecomeTree, Zenon
  <2>2. CASE tree[c] # tree[p]
    <3>1. Become(Moved(c, p), ftype)
      BY <1>6, <2>2, MovedTo, Zenon
    <3>2. IsTree(Moved(c, p), ftype)
      BY <1>6, <2>2, MovesTree, Zenon
    <3> QED
      BY <3>1, <3>2, BecomeTree, Zenon
  <2> QED
    BY <2>1, <2>2, Zenon
<1>7. ASSUME NEW p \in Path, Mounts(p) \/ Maps(p) PROVE UNCHANGED <<tree, ftype>>
  BY <1>7, Zenon DEF Mounts, Maps
<1> QED
  BY <1>2, <1>3, <1>4, <1>5, <1>6, <1>7, Zenon DEF Effect

\* The invariant is inductive: one step of any procedure keeps it.
LEMMA ServerStep == ServerInv /\ [Next]_vars => ServerInv'
<1> SUFFICES ASSUME ServerInv, [Next]_vars PROVE ServerInv'
  BY Zenon
<1>1. TypeOK /\ Effect
  BY NextEffect, Zenon DEF ServerInv
<1>2. TreeOK' /\ tree' \in [Path -> Inode \cup {NULL}] /\ ftype' \in [Inode -> FileType]
  BY <1>1, TreeStep, Zenon
<1>3. tree \in [Path -> Inode \cup {NULL}] /\ inode_cache \in Seq(MappingSet) /\ mount_list \in Seq(Exports)
  BY <1>1, Zenon DEF TypeOK, MappingSet
<1>4. inode_cache' \in Seq(MappingSet) /\ mount_list' \in Seq(Exports)
  <2>1. CASE UNCHANGED <<inode_cache, mount_list>>
    BY <1>3, <2>1, Zenon
  <2>2. ASSUME NEW p \in Path, Mounts(p) PROVE inode_cache' \in Seq(MappingSet) /\ mount_list' \in Seq(Exports)
    <3>1. tree[p] # NULL /\ p \in Exports
      BY <2>2, Zenon DEF Mounts, TypeAt, lstat
    <3>2. tree[p] \in Inode
      BY <1>3, <3>1, Zenon
    <3>3. inode_cache' \in Seq(MappingSet)
      BY <1>3, <2>2, <3>2, AddedMapping, Zenon DEF Mounts, IsLonger
    <3>4. mount_list' = <<p>> \o mount_list
      BY <2>2, Zenon DEF Mounts
    <3>5. <<p>> \in Seq(Exports)
      BY <3>1
    <3>6. mount_list' \in Seq(Exports)
      BY <1>3, <3>4, <3>5, Joined, Zenon
    <3> QED
      BY <3>3, <3>6, Zenon
  <2>3. ASSUME NEW c \in Path, Maps(c) PROVE inode_cache' \in Seq(MappingSet) /\ mount_list' \in Seq(Exports)
    <3>1. tree[c] \in Inode
      BY <1>3, <2>3, Zenon DEF Maps
    <3> QED
      BY <1>3, <2>3, <3>1, AddedMapping, Zenon DEF Maps, IsLonger
  <2>4. ASSUME NEW c \in Path, NEW i \in Inode, NEW type \in FileType, Makes(c, i, type)
        PROVE  inode_cache' \in Seq(MappingSet) /\ mount_list' \in Seq(Exports)
    <3>1. add_inode_mapping(inode_cache, i, c) \in Seq(MappingSet)
      BY <1>3, AddedMapping, Zenon DEF IsLonger
    <3> QED
      BY <1>3, <2>4, <3>1, Zenon DEF Makes
  <2>5. ASSUME NEW c \in Path, Drops(c) PROVE inode_cache' \in Seq(MappingSet) /\ mount_list' \in Seq(Exports)
    BY <1>3, <2>5, RemovedMapping, Zenon DEF Drops
  <2>6. ASSUME NEW c \in Path, NEW p \in Path, Moves(c, p)
        PROVE  inode_cache' \in Seq(MappingSet) /\ mount_list' \in Seq(Exports)
    BY <1>3, <2>6, UpdatedMapping, Zenon DEF Moves
  <2>7. ASSUME NEW c \in Path, NEW p \in Path, Links(c, p) PROVE UNCHANGED <<inode_cache, mount_list>>
    BY <2>7, Zenon DEF Links
  <2> QED
    BY <1>1, <2>1, <2>2, <2>3, <2>4, <2>5, <2>6, <2>7, Zenon DEF Effect
<1> QED
  BY <1>2, <1>4, Zenon DEF ServerInv, TypeOK, MappingSet

\* The invariant holds at first.
LEMMA ServerInit == Init => ServerInv
<1> SUFFICES ASSUME Init PROVE ServerInv
  BY Zenon
<1>1. NULL \notin Inode /\ RootIno \in Inode /\ <<>> \in Path /\ RootIno # NULL
  BY FileSystemAssumption, RootPath, Zenon
<1>2. /\ tree = [p \in Path |-> IF p = <<>> THEN RootIno ELSE NULL]
      /\ ftype = [i \in Inode |-> IF i = RootIno THEN "NFDIR" ELSE "none"]
      /\ inode_cache = <<>> /\ mount_list = <<>>
  BY Zenon DEF Init, FileSystemInit
<1>3. TypeOK
  BY <1>1, <1>2 DEF TypeOK, FileType
<1>4. \A p \in Path : tree[p] # NULL => p = <<>>
  BY <1>2, Zenon
<1>5. tree[<<>>] = RootIno /\ ftype[RootIno] = "NFDIR"
  BY <1>1, <1>2, Zenon
<1>6. \A p, q \in Path : tree[p] = tree[q] /\ TypeAt(p) = "NFDIR" => p = q
  BY <1>4, Zenon DEF TypeAt, lstat
<1>7. \A i \in Inode : ftype[i] = "none" <=> i \in FreeInode
  BY <1>1, <1>2, Zenon DEF FreeInode
<1>8. TreeOK
  BY <1>4, <1>5, <1>6, <1>7, Zenon DEF TreeOK
<1> QED
  BY <1>3, <1>8, Zenon DEF ServerInv

\* What the procedures ask of the file system keeps the files a tree, whatever the
\* requests: the checks made before link, unlink, rmdir and rename leave no name
\* without a directory above it and give no directory a second name.
THEOREM TreeSafety == Spec => []TreeOK
<1>1. ServerInv => TreeOK
  BY Zenon DEF ServerInv
<1> QED
  BY ServerInit, ServerStep, <1>1, PTL DEF Spec

-----------------------------------------------------------------------------
(***************************************************************************)
(* Mounted directories.                                                    *)
(***************************************************************************)
\* A name in a mapped directory is below an export, and no export is at or below it.
LEMMA BelowExports ==
    ASSUME NoNestedExports, TypeOK, CacheBelowExports, NEW c \in Path, InMappedDirectory(c)
    PROVE  (\E e \in Exports : Under(e, c)) /\ \A e \in Exports : ~Under(c, e)
<1>1. PICK k \in DOMAIN inode_cache : Parent(c) = inode_cache[k].path
  BY InDirectory, Zenon
<1>2. PICK e \in Exports : Under(e, Parent(c))
  BY <1>1, Zenon DEF CacheBelowExports
<1>3. c \in Seq(Name) /\ c # <<>> /\ \A d \in Exports : d \in Seq(Name)
  BY InDirectory, PathIs, NfsServerAssumption, Zenon
<1>4. Under(e, c)
  BY <1>2, <1>3, UnderParent, Zenon
<1>5. ASSUME NEW d \in Exports, Under(c, d) PROVE FALSE
  <2>1. Under(e, d)
    BY <1>3, <1>4, <1>5, UnderTransitive, Zenon
  <2>2. e = d
    BY <2>1, Zenon DEF NoNestedExports
  <2>3. Parent(c) \in Seq(Name) /\ Len(Parent(c)) = Len(c) - 1
    BY <1>3, ParentIs, Zenon
  <2>4. Len(e) <= Len(c) - 1 /\ Len(c) <= Len(e)
    BY <1>2, <1>5, <2>2, <2>3, Zenon DEF Under
  <2> QED
    BY <1>3, <2>4
<1> QED
  BY <1>4, <1>5, Zenon

\* No request changes what is at an export.
LEMMA ExportsStay ==
    ASSUME NoNestedExports, ServerInv, CacheBelowExports, Effect, NEW e \in Exports
    PROVE  tree'[e] = tree[e] /\ TypeAt(e)' = TypeAt(e)
<1>1. TypeOK /\ e \in Path /\ e \in Seq(Name) /\ NULL \notin Inode
  BY NfsServerAssumption, FileSystemAssumption, PathIs, Zenon DEF ServerInv
<1>2. tree \in [Path -> Inode \cup {NULL}] /\ ftype \in [Inode -> FileType]
  BY <1>1, Zenon DEF TypeOK
<1>3. \A c \in Path : InMappedDirectory(c) => ~Under(c, e) /\ c # e
  <2>1. Under(e, e)
    BY <1>1, UnderIs
  <2> QED
    BY <1>1, <2>1, BelowExports, Zenon
<1>4. ASSUME NEW t, NEW types, Become(t, types), t[e] = tree[e],
             tree[e] # NULL => types[tree[e]] = ftype[tree[e]]
      PROVE  tree'[e] = tree[e] /\ TypeAt(e)' = TypeAt(e)
  <2>1. tree' = t /\ ftype' = [i \in Inode |-> IF \E p \in Path : t[p] = i THEN types[i] ELSE "none"]
    BY <1>4, Zenon DEF Become
  <2>2. tree[e] # NULL => ftype'[tree[e]] = ftype[tree[e]]
    BY <1>1, <1>2, <1>4, <2>1, Zenon
  <2> QED
    BY <1>1, <1>4, <2>1, <2>2, Zenon DEF TypeAt, lstat
<1>5. CASE UNCHANGED <<tree, ftype>>
  BY <1>5, Zenon DEF TypeAt, lstat
<1>6. ASSUME NEW c \in Path, NEW i \in Inode, NEW type \in FileType, Makes(c, i, type)
      PROVE  tree'[e] = tree[e] /\ TypeAt(e)' = TypeAt(e)
  <2> DEFINE t == [tree EXCEPT ![c] = i]
             types == [ftype EXCEPT ![i] = type]
  <2>1. Become(t, types) /\ c # e /\ tree[e] # i
    BY <1>1, <1>3, <1>6, Zenon DEF Makes, MakeNode, FreeInode
  <2>2. t[e] = tree[e] /\ (tree[e] # NULL => types[tree[e]] = ftype[tree[e]])
    BY <1>1, <1>2, <2>1, Zenon
  <2> HIDE DEF t, types
  <2> QED
    BY <1>4, <2>1, <2>2, Zenon
<1>7. ASSUME NEW c \in Path, NEW p \in Path, Links(c, p)
      PROVE  tree'[e] = tree[e] /\ TypeAt(e)' = TypeAt(e)
  <2> DEFINE t == [tree EXCEPT ![c] = tree[p]]
  <2>1. Become(t, ftype) /\ c # e
    BY <1>3, <1>7, Zenon DEF Links, MakeLink
  <2>2. t[e] = tree[e]
    BY <1>1, <1>2, <2>1, Zenon
  <2> HIDE DEF t
  <2> QED
    BY <1>4, <2>1, <2>2, Zenon
<1>8. ASSUME NEW c \in Path, Drops(c) PROVE tree'[e] = tree[e] /\ TypeAt(e)' = TypeAt(e)
  <2> DEFINE t == [tree EXCEPT ![c] = NULL]
  <2>1. Become(t, ftype) /\ c # e
    BY <1>3, <1>8, Zenon DEF Drops, DropName
  <2>2. t[e] = tree[e]
    BY <1>1, <1>2, <2>1, Zenon
  <2> HIDE DEF t
  <2> QED
    BY <1>4, <2>1, <2>2, Zenon
<1>9. ASSUME NEW c \in Path, NEW p \in Path, Moves(c, p)
      PROVE  tree'[e] = tree[e] /\ TypeAt(e)' = TypeAt(e)
  <2>1. ~Under(c, e) /\ ~Under(p, e)
    BY <1>3, <1>9, Zenon DEF Moves
  <2>2. Moved(c, p)[e] = tree[e]
    BY <1>1, <2>1, Zenon DEF Moved
  <2>3. Become(tree, ftype) \/ Become(Moved(c, p), ftype)
    BY <1>9, MovedTo, Zenon
  <2> QED
    BY <1>4, <2>2, <2>3, Zenon
<1>10. ASSUME NEW p \in Path, Mounts(p) \/ Maps(p) PROVE UNCHANGED <<tree, ftype>>
  BY <1>10, Zenon DEF Mounts, Maps
<1> QED
  BY <1>5, <1>6, <1>7, <1>8, <1>9, <1>10, Zenon DEF Effect

\* There is a new mapping in front of the others.
Adds(i, p) == inode_cache' = add_inode_mapping(inode_cache, i, p)

\* The mappings after one is added
LEMMA AddsIs ==
    ASSUME TypeOK, NEW i \in Inode, NEW p \in Path, Adds(i, p)
    PROVE  /\ 1 \in DOMAIN inode_cache' /\ inode_cache'[1].ino = i /\ inode_cache'[1].path = p
           /\ \A k \in DOMAIN inode_cache : k + 1 \in DOMAIN inode_cache' /\ inode_cache'[k + 1] = inode_cache[k]
           /\ \A j \in DOMAIN inode_cache' :
                 j # 1 => j - 1 \in DOMAIN inode_cache /\ inode_cache'[j] = inode_cache[j - 1]
<1> DEFINE added == add_inode_mapping(inode_cache, i, p)
<1>1. inode_cache \in Seq(MappingSet)
  BY Zenon DEF TypeOK, MappingSet
<1>2. IsLonger(added, inode_cache, i, p)
  BY <1>1, AddedMapping, Zenon
<1>3. inode_cache' = added
  BY Zenon DEF Adds
<1> HIDE DEF added
<1>4. 1 \in DOMAIN added
  <2>1. DOMAIN added = 1..Len(added) /\ Len(inode_cache) \in Nat
    BY <1>1, <1>2 DEF IsLonger
  <2> QED
    BY <1>2, <2>1 DEF IsLonger
<1>5. added[1].ino = i /\ added[1].path = p
  BY <1>2 DEF IsLonger
<1> QED
  BY <1>2, <1>3, <1>4, <1>5, Zenon DEF IsLonger

\* The mappings are still at or below the exports.
LEMMA CacheBelowStep ==
    ASSUME NoNestedExports, TypeOK, CacheBelowExports, Effect
    PROVE  CacheBelowExports'
<1>1. inode_cache \in Seq(MappingSet)
  BY Zenon DEF TypeOK, MappingSet
<1>2. CASE UNCHANGED inode_cache
  BY <1>2, Zenon DEF CacheBelowExports
<1>3. ASSUME NEW i \in Inode, NEW p \in Path, Adds(i, p), \E e \in Exports : Under(e, p)
      PROVE  CacheBelowExports'
  <2> SUFFICES ASSUME NEW j \in DOMAIN inode_cache' PROVE \E e \in Exports : Under(e, inode_cache'[j].path)
    BY Zenon DEF CacheBelowExports
  <2>1. CASE j = 1
    BY <1>3, <2>1, AddsIs, Zenon
  <2>2. CASE j # 1
    <3>1. j - 1 \in DOMAIN inode_cache /\ inode_cache'[j] = inode_cache[j - 1]
      BY <1>3, <2>2, AddsIs, Zenon
    <3> QED
      BY <3>1, Zenon DEF CacheBelowExports
  <2> QED
    BY <2>1, <2>2, Zenon
<1>4. ASSUME NEW p \in Path, Mounts(p) PROVE CacheBelowExports'
  <2>1. p \in Exports /\ tree[p] \in Inode /\ Adds(tree[p], p)
    BY <1>4, Zenon DEF Mounts, Adds, TypeAt, lstat, TypeOK
  <2>2. Under(p, p)
    BY UnderIs, PathIs
  <2> QED
    BY <1>3, <2>1, <2>2, Zenon
<1>5. ASSUME NEW c \in Path, Maps(c) PROVE CacheBelowExports'
  <2>1. InMappedDirectory(c) /\ tree[c] \in Inode /\ Adds(tree[c], c)
    BY <1>5, Zenon DEF Maps, Adds, TypeOK
  <2>2. \E e \in Exports : Under(e, c)
    BY <2>1, BelowExports, Zenon
  <2> QED
    BY <1>3, <2>1, <2>2, Zenon
<1>6. ASSUME NEW c \in Path, NEW i \in Inode, NEW type \in FileType, Makes(c, i, type)
      PROVE  CacheBelowExports'
  <2>1. InMappedDirectory(c) /\ (UNCHANGED inode_cache \/ Adds(i, c))
    BY <1>6, Zenon DEF Makes, Adds
  <2>2. \E e \in Exports : Under(e, c)
    BY <2>1, BelowExports, Zenon
  <2> QED
    BY <1>2, <1>3, <2>1, <2>2, Zenon
<1>7. ASSUME NEW c \in Path, Drops(c) PROVE CacheBelowExports'
  <2>1. inode_cache' = remove_inode_mapping_by_absolute_path(inode_cache, c)
    BY <1>7, Zenon DEF Drops
  <2>2. \A j \in DOMAIN inode_cache' : \E k \in DOMAIN inode_cache : inode_cache'[j] = inode_cache[k]
    BY <1>1, <2>1, RemovedMapping DEF IsShorter
  <2> QED
    BY <2>2, Zenon DEF CacheBelowExports
<1>8. ASSUME NEW c \in Path, NEW p \in Path, Moves(c, p) PROVE CacheBelowExports'
  <2>1. InMappedDirectory(p) /\ inode_cache' = update_inode_mapping_absolute_path(inode_cache, c, p)
    BY <1>8, Zenon DEF Moves
  <2>2. \E e \in Exports : Under(e, p)
    BY <2>1, BelowExports, Zenon
  <2>3. \A j \in DOMAIN inode_cache' : /\ j \in DOMAIN inode_cache
                                       /\ inode_cache'[j].path = p \/ inode_cache'[j] = inode_cache[j]
    BY <1>1, <2>1, UpdatedMapping
  <2> QED
    BY <2>2, <2>3, Zenon DEF CacheBelowExports
<1>9. ASSUME NEW c \in Path, NEW p \in Path, Links(c, p) PROVE UNCHANGED inode_cache
  BY <1>9, Zenon DEF Links
<1> QED
  BY <1>2, <1>4, <1>5, <1>6, <1>7, <1>8, <1>9, Zenon DEF Effect

\* An exported directory is still mapped to its own path only.
LEMMA ExportsMappedStep ==
    ASSUME NoNestedExports, ServerInv, CacheBelowExports, ExportsMapped, Effect
    PROVE  ExportsMapped'
<1>1. TypeOK /\ IsTree(tree, ftype) /\ inode_cache \in Seq(MappingSet) /\ NULL \notin Inode
  BY TreeIs, FileSystemAssumption, Zenon DEF ServerInv, TypeOK, MappingSet
<1> SUFFICES ASSUME NEW j \in DOMAIN inode_cache', NEW e \in Exports,
                    TypeAt(e)' = "NFDIR", inode_cache'[j].ino = tree'[e]
             PROVE  inode_cache'[j].path = e
  BY Zenon DEF ExportsMapped
<1>2. tree'[e] = tree[e] /\ TypeAt(e) = "NFDIR" /\ e \in Path
  BY ExportsStay, NfsServerAssumption, Zenon
<1>3. tree[e] \in Inode /\ ftype[tree[e]] = "NFDIR"
  BY <1>1, <1>2, Zenon DEF TypeAt, lstat, TypeOK
<1>4. \A k \in DOMAIN inode_cache : inode_cache'[j] = inode_cache[k] => inode_cache'[j].path = e
  BY <1>2, Zenon DEF ExportsMapped
<1>5. CASE UNCHANGED inode_cache
  BY <1>4, <1>5, Zenon
<1>6. ASSUME NEW i \in Inode, NEW p \in Path, Adds(i, p), i = tree[e] => p = e
      PROVE  inode_cache'[j].path = e
  <2>1. CASE j = 1
    BY <1>1, <1>2, <1>6, <2>1, AddsIs, Zenon
  <2>2. CASE j # 1
    <3>1. j - 1 \in DOMAIN inode_cache /\ inode_cache'[j] = inode_cache[j - 1]
      BY <1>1, <1>6, <2>2, AddsIs, Zenon
    <3> QED
      BY <1>4, <3>1, Zenon
  <2> QED
    BY <2>1, <2>2, Zenon
<1>7. ASSUME NEW p \in Path, Mounts(p) \/ Maps(p) PROVE inode_cache'[j].path = e
  <2>1. tree[p] \in Inode /\ Adds(tree[p], p)
    BY <1>1, <1>7, Zenon DEF Mounts, Maps, Adds, TypeAt, lstat, TypeOK
  <2>2. tree[p] = tree[e] => p = e
    BY <1>1, <1>2, <1>3, <2>1, Zenon DEF IsTree
  <2> QED
    BY <1>6, <2>1, <2>2, Zenon
<1>8. ASSUME NEW c \in Path, NEW i \in Inode, NEW type \in FileType, Makes(c, i, type)
      PROVE  inode_cache'[j].path = e
  <2>1. (UNCHANGED inode_cache \/ Adds(i, c)) /\ i # tree[e]
    BY <1>2, <1>8, Zenon DEF Makes, Adds, FreeInode
  <2> QED
    BY <1>5, <1>6, <2>1, Zenon
<1>9. ASSUME NEW c \in Path, Drops(c) PROVE inode_cache'[j].path = e
  <2>1. inode_cache' = remove_inode_mapping_by_absolute_path(inode_cache, c)
    BY <1>9, Zenon DEF Drops
  <2>2. \E k \in DOMAIN inode_cache : inode_cache'[j] = inode_cache[k]
    BY <1>1, <2>1, RemovedMapping DEF IsShorter
  <2> QED
    BY <1>4, <2>2, Zenon
<1>10. ASSUME NEW c \in Path, NEW p \in Path, Moves(c, p) PROVE inode_cache'[j].path = e
  <2>1. InMappedDirectory(c) /\ inode_cache' = update_inode_mapping_absolute_path(inode_cache, c, p)
    BY <1>10, Zenon DEF Moves
  <2>2. /\ j \in DOMAIN inode_cache /\ inode_cache[j].ino = inode_cache'[j].ino
        /\ inode_cache[j].path = c \/ inode_cache'[j] = inode_cache[j]
    BY <1>1, <2>1, UpdatedMapping
  <2>3. inode_cache[j].path = e
    BY <1>2, <2>2, Zenon DEF ExportsMapped
  <2>4. ~Under(c, e)
    BY <1>1, <2>1, BelowExports, Zenon
  <2>5. Under(e, e)
    BY <1>2, UnderIs, PathIs
  <2> QED
    BY <2>2, <2>3, <2>4, <2>5, Zenon
<1>11. ASSUME NEW c \in Path, NEW p \in Path, Links(c, p) PROVE UNCHANGED inode_cache
  BY <1>11, Zenon DEF Links
<1> QED
  BY <1>5, <1>7, <1>8, <1>9, <1>10, <1>11, Zenon DEF Effect

\* A mapping to an export stays.
LEMMA ExportKept ==
    ASSUME NoNestedExports, ServerInv, CacheBelowExports, ExportsMapped, Effect,
           NEW e \in Exports, TypeAt(e) = "NFDIR",
           NEW k \in DOMAIN inode_cache, inode_cache[k].ino = tree[e]
    PROVE  \E j \in DOMAIN inode_cache' : inode_cache'[j].ino = tree[e]
<1>1. TypeOK /\ inode_cache \in Seq(MappingSet) /\ e \in Path
  BY NfsServerAssumption, Zenon DEF ServerInv, TypeOK, MappingSet
<1>2. inode_cache[k].path = e
  BY Zenon DEF ExportsMapped
<1>3. CASE UNCHANGED inode_cache
  BY <1>3, Zenon
<1>4. ASSUME NEW i \in Inode, NEW p \in Path, Adds(i, p)
      PROVE  \E j \in DOMAIN inode_cache' : inode_cache'[j].ino = tree[e]
  BY <1>1, <1>4, AddsIs
<1>5. ASSUME NEW p \in Path, Mounts(p) \/ Maps(p)
      PROVE  \E j \in DOMAIN inode_cache' : inode_cache'[j].ino = tree[e]
  <2>1. tree[p] \in Inode /\ Adds(tree[p], p)
    BY <1>1, <1>5, Zenon DEF Mounts, Maps, Adds, TypeAt, lstat, TypeOK
  <2> QED
    BY <1>4, <2>1, Zenon
<1>6. ASSUME NEW c \in Path, NEW i \in Inode, NEW type \in FileType, Makes(c, i, type)
      PROVE  \E j \in DOMAIN inode_cache' : inode_cache'[j].ino = tree[e]
  BY <1>3, <1>4, <1>6, Zenon DEF Makes, Adds
<1>7. ASSUME NEW c \in Path, Drops(c)
      PROVE  \E j \in DOMAIN inode_cache' : inode_cache'[j].ino = tree[e]
  <2>1. InMappedDirectory(c) /\ inode_cache' = remove_inode_mapping_by_absolute_path(inode_cache, c)
    BY <1>7, Zenon DEF Drops
  <2>2. ~Under(c, e) /\ Under(e, e)
    BY <1>1, <2>1, BelowExports, UnderIs, PathIs
  <2>3. \A l \in DOMAIN inode_cache : inode_cache[l].path # c =>
           \E j \in DOMAIN inode_cache' : inode_cache'[j] = inode_cache[l]
    BY <1>1, <2>1, RemovedMapping DEF IsShorter
  <2>4. e # c
    BY <2>2, Zenon
  <2> QED
    BY <1>2, <2>3, <2>4, Zenon
<1>8. ASSUME NEW c \in Path, NEW p \in Path, Moves(c, p)
      PROVE  \E j \in DOMAIN inode_cache' : inode_cache'[j].ino = tree[e]
  <2>1. inode_cache' = update_inode_mapping_absolute_path(inode_cache, c, p)
    BY <1>8, Zenon DEF Moves
  <2>2. k \in DOMAIN inode_cache' /\ inode_cache[k].ino = inode_cache'[k].ino
    BY <1>1, <2>1, UpdatedMapping
  <2> QED
    BY <2>2, Zenon
<1>9. ASSUME NEW c \in Path, NEW p \in Path, Links(c, p) PROVE UNCHANGED inode_cache
  BY <1>9, Zenon DEF Links
<1> QED
  BY <1>3, <1>5, <1>6, <1>7, <1>8, <1>9, Zenon DEF Effect

\* Mounted directories stay there and stay mapped.
LEMMA MountsMappedStep ==
    ASSUME NoNestedExports, MountInv, Effect
    PROVE  MountsMapped'
<1>1. /\ ServerInv /\ TypeOK /\ CacheBelowExports /\ ExportsMapped /\ MountsMapped
      /\ mount_list \in Seq(Exports)
  BY Zenon DEF MountInv, ServerInv, TypeOK
<1>2. ASSUME NEW e \in Exports, TypeAt(e) = "NFDIR",
             \E k \in DOMAIN inode_cache : inode_cache[k].ino = tree[e]
      PROVE  /\ TypeAt(e)' = "NFDIR"
             /\ \E k \in DOMAIN inode_cache' : inode_cache'[k].ino = tree'[e]
  <2>1. tree'[e] = tree[e] /\ TypeAt(e)' = "NFDIR"
    BY <1>1, <1>2, ExportsStay, Zenon
  <2>2. \E j \in DOMAIN inode_cache' : inode_cache'[j].ino = tree[e]
    BY <1>1, <1>2, ExportKept, Zenon
  <2> QED
    BY <2>1, <2>2, Zenon
<1>3. \A j \in DOMAIN mount_list : mount_list[j] \in Exports
  BY <1>1
<1>4. CASE UNCHANGED mount_list
  BY <1>1, <1>2, <1>3, <1>4, Zenon DEF MountsMapped
<1>5. ASSUME NEW p \in Path, Mounts(p) PROVE MountsMapped'
  <2>1. /\ p \in Exports /\ TypeAt(p) = "NFDIR" /\ mount_list' = <<p>> \o mount_list
        /\ tree' = tree /\ TypeAt(p)' = TypeAt(p) /\ tree[p] \in Inode /\ Adds(tree[p], p)
    BY <1>1, <1>5, Zenon DEF Mounts, Adds, TypeAt, lstat, TypeOK
  <2>2. 1 \in DOMAIN inode_cache' /\ inode_cache'[1].ino = tree'[p]
    BY <1>1, <2>1, AddsIs, Zenon
  <2>3. ASSUME NEW j \in DOMAIN mount_list'
        PROVE  mount_list'[j] = p \/ \E k \in DOMAIN mount_list : mount_list'[j] = mount_list[k]
    <3>1. /\ <<p>> \in Seq(Exports) /\ Len(<<p>>) = 1 /\ <<p>>[1] = p
          /\ Len(mount_list) \in Nat /\ DOMAIN mount_list = 1..Len(mount_list)
      BY <1>1, <2>1
    <3>2. /\ mount_list' \in Seq(Exports) /\ Len(mount_list') = Len(<<p>>) + Len(mount_list)
          /\ \A l \in 1..(Len(<<p>>) + Len(mount_list)) :
                mount_list'[l] = IF l <= Len(<<p>>) THEN <<p>>[l] ELSE mount_list[l - Len(<<p>>)]
      BY <1>1, <2>1, <3>1, Joined, Zenon
    <3>3. j \in 1..(1 + Len(mount_list))
      BY <3>1, <3>2
    <3>4. mount_list'[j] = IF j <= 1 THEN <<p>>[j] ELSE mount_list[j - 1]
      BY <3>1, <3>2, <3>3, Zenon
    <3> QED
      BY <3>1, <3>3, <3>4
  <2> QED
    BY <1>1, <1>2, <1>3, <2>1, <2>2, <2>3 DEF MountsMapped
<1>6. ASSUME NEW c \in Path, NEW p \in Path, NEW i \in Inode, NEW type \in FileType,
             Maps(c) \/ Makes(c, i, type) \/ Links(c, p) \/ Drops(c) \/ Moves(c, p)
      PROVE  UNCHANGED mount_list
  BY <1>6, Zenon DEF Maps, Makes, Links, Drops, Moves
<1>7. "none" \in FileType /\ RootIno \in Inode
  BY FileSystemAssumption, Zenon DEF FileType
<1> QED
  BY <1>4, <1>5, <1>6, <1>7, Zenon DEF Effect

\* The invariant about mounted directories is inductive.
LEMMA MountStep ==
    ASSUME NoNestedExports PROVE MountInv /\ [Next]_vars => MountInv'
<1> SUFFICES ASSUME MountInv, [Next]_vars PROVE MountInv'
  BY Zenon
<1>1. ServerInv /\ TypeOK /\ CacheBelowExports /\ ExportsMapped
  BY Zenon DEF MountInv, ServerInv
<1>2. Effect
  BY <1>1, NextEffect, Zenon
<1>3. ServerInv'
  BY <1>1, ServerStep, Zenon
<1>4. CacheBelowExports'
  BY <1>1, <1>2, CacheBelowStep, Zenon
<1>5. ExportsMapped'
  BY <1>1, <1>2, ExportsMappedStep, Zenon
<1>6. MountsMapped'
  BY <1>2, MountsMappedStep, Zenon
<1> QED
  BY <1>3, <1>4, <1>5, <1>6, Zenon DEF MountInv

\* The host may have any tree of files when the server starts.
HostInit == ServerInv /\ inode_cache = <<>> /\ mount_list = <<>>

\* It holds before the first request.
LEMMA HostMountInit == HostInit => MountInv
<1> SUFFICES ASSUME HostInit PROVE MountInv
  BY Zenon
<1>1. ServerInv /\ inode_cache = <<>> /\ mount_list = <<>>
  BY Zenon DEF HostInit
<1>2. DOMAIN inode_cache = {} /\ DOMAIN mount_list = {}
  BY <1>1
<1> QED
  BY <1>1, <1>2, Zenon DEF MountInv, CacheBelowExports, ExportsMapped, MountsMapped

\* The server of the specification starts on one of these trees.
LEMMA MountInit == Init => HostInit /\ MountInv
<1>1. Init => HostInit
  BY ServerInit, Zenon DEF Init, HostInit
<1> QED
  BY <1>1, HostMountInit, Zenon

\* The first mapping of a mounted directory's inode number is to its own path.
LEMMA MountInvResolves == MountInv => MountedResolves
<1> SUFFICES ASSUME MountInv PROVE MountedResolves
  BY Zenon
<1>1. TypeOK /\ ExportsMapped /\ MountsMapped /\ mount_list \in Seq(Exports)
  BY Zenon DEF MountInv, ServerInv, TypeOK
<1> SUFFICES ASSUME NEW j \in DOMAIN mount_list
             PROVE  /\ lstat(mount_list[j]) # NULL
                    /\ PathOf(lstat(mount_list[j])) = mount_list[j]
  BY Zenon DEF MountedResolves
<1> DEFINE e == mount_list[j]
<1>2. e \in Exports /\ TypeAt(e) = "NFDIR" /\ \E k \in DOMAIN inode_cache : inode_cache[k].ino = tree[e]
  BY <1>1 DEF MountsMapped
<1> HIDE DEF e
<1>3. e \in Path
  BY <1>2, NfsServerAssumption, Zenon
<1>4. lstat(e) = tree[e] /\ lstat(e) # NULL
  BY <1>2, <1>3, Zenon DEF TypeAt, lstat
<1>5. PICK k \in DOMAIN inode_cache : inode_cache[k].ino = tree[e] /\ PathOf(tree[e]) = inode_cache[k].path
  BY <1>1, <1>2, MappedResolves, Zenon
<1>6. inode_cache[k].path = e
  BY <1>1, <1>2, <1>5, Zenon DEF ExportsMapped
<1> QED
  BY <1>4, <1>5, <1>6, Zenon DEF e

\* As long as no exported directory is below another one, the handle of a mounted
\* directory leads back to it, whatever the clients ask for: no request changes what
\* is at an export, and the list of mappings has an export under its own path only.
THEOREM MountSafety ==
    ASSUME NoNestedExports PROVE Spec => []MountedResolves
<1>1. MountInv /\ [Next]_vars => MountInv'
  BY MountStep, Zenon
<1> QED
  BY MountInit, MountInvResolves, <1>1, PTL DEF Spec

-----------------------------------------------------------------------------
(***************************************************************************)
(* Handles that lead to the wrong file.                                    *)
(***************************************************************************)
\* CacheSound for the mappings of cache and the names t.
IsSound(cache, t) ==
    /\ \A k \in DOMAIN cache : t[cache[k].path] = cache[k].ino
    /\ \A j, k \in DOMAIN cache :
          cache[j].ino = cache[k].ino => j = k \/ cache[j].path \in Exports \/ cache[k].path \in Exports

\* CacheSound, before and after a step
LEMMA SoundIs == (CacheSound <=> IsSound(inode_cache, tree)) /\ (CacheSound' <=> IsSound(inode_cache', tree'))
<1>1. CacheSound <=> IsSound(inode_cache, tree)
  BY Zenon DEF CacheSound, IsSound, Mappings
<1>2. CacheSound' <=> IsSound(inode_cache', tree')
  BY Zenon DEF CacheSound, IsSound, Mappings
<1> QED
  BY <1>1, <1>2, Zenon

\* A mapping of a file that has none, or of an export, is added.
LEMMA SoundAdds ==
    ASSUME TypeOK, IsSound(inode_cache, tree), NEW i \in Inode, NEW p \in Path, Adds(i, p),
           \A k \in DOMAIN inode_cache : tree'[inode_cache[k].path] = tree[inode_cache[k].path],
           tree'[p] = i,
           p \in Exports \/ \A k \in DOMAIN inode_cache : inode_cache[k].ino # i
    PROVE  IsSound(inode_cache', tree')
<1>1. /\ inode_cache'[1].ino = i /\ inode_cache'[1].path = p
      /\ \A j \in DOMAIN inode_cache' :
            j # 1 => j - 1 \in DOMAIN inode_cache /\ inode_cache'[j] = inode_cache[j - 1]
  BY AddsIs, Zenon
<1>2. ASSUME NEW j \in DOMAIN inode_cache' PROVE tree'[inode_cache'[j].path] = inode_cache'[j].ino
  BY <1>1 DEF IsSound
<1>3. ASSUME NEW j \in DOMAIN inode_cache', NEW k \in DOMAIN inode_cache',
             inode_cache'[j].ino = inode_cache'[k].ino
      PROVE  j = k \/ inode_cache'[j].path \in Exports \/ inode_cache'[k].path \in Exports
  <2>1. CASE j = 1 \/ k = 1
    BY <1>1, <1>3, <2>1
  <2>2. CASE j # 1 /\ k # 1
    <3>1. /\ j - 1 \in DOMAIN inode_cache /\ inode_cache'[j] = inode_cache[j - 1]
          /\ k - 1 \in DOMAIN inode_cache /\ inode_cache'[k] = inode_cache[k - 1]
      BY <1>1, <2>2, Zenon
    <3>2. j - 1 = k - 1 \/ inode_cache'[j].path \in Exports \/ inode_cache'[k].path \in Exports
      BY <1>3, <3>1, Zenon DEF IsSound
    <3>3. j \in Nat /\ k \in Nat
      <4>1. inode_cache' \in Seq(MappingSet)
        BY AddedMapping, Zenon DEF Adds, IsLonger, TypeOK, MappingSet
      <4> QED
        BY <4>1
    <3>4. j - 1 = k - 1 => j = k
      BY <3>3
    <3> QED
      BY <3>2, <3>4, Zenon
  <2> QED
    BY <2>1, <2>2, Zenon
<1> QED
  BY <1>2, <1>3, Zenon DEF IsSound

\* The mapping of a name that goes is removed.
LEMMA SoundDrops ==
    ASSUME NoNestedExports, ServerInv, CacheBelowExports, IsSound(inode_cache, tree),
           NEW c \in Path, Drops(c)
    PROVE  IsSound(inode_cache', tree')
<1>1. TypeOK /\ inode_cache \in Seq(MappingSet) /\ tree \in [Path -> Inode \cup {NULL}]
  BY Zenon DEF ServerInv, TypeOK, MappingSet
<1>2. InMappedDirectory(c) /\ inode_cache' = remove_inode_mapping_by_absolute_path(inode_cache, c)
  BY Zenon DEF Drops
<1>3. tree' = [tree EXCEPT ![c] = NULL]
  BY Zenon DEF Drops, DropName, Become
<1>4. c \notin Exports
  <2>1. Under(c, c)
    BY UnderIs, PathIs
  <2> QED
    BY <1>1, <1>2, <2>1, BelowExports, Zenon
<1>5. \A p \in Path : p # c => tree'[p] = tree[p]
  BY <1>1, <1>3, Zenon
<1>6. \A k \in DOMAIN inode_cache : inode_cache[k].path \in Path
  BY <1>1, CacheTyped, Zenon
<1>7. CASE inode_cache' = inode_cache /\ \A k \in DOMAIN inode_cache : inode_cache[k].path # c
  BY <1>5, <1>6, <1>7, Zenon DEF IsSound
<1>8. ASSUME NEW x \in DOMAIN inode_cache, inode_cache[x].path = c,
             NEW f \in [DOMAIN inode_cache' -> DOMAIN inode_cache \ {x}],
             \A j \in DOMAIN inode_cache' : inode_cache'[j] = inode_cache[f[j]],
             \A j, k \in DOMAIN inode_cache' : f[j] = f[k] => j = k
      PROVE  IsSound(inode_cache', tree')
  <2>1. \A j \in DOMAIN inode_cache' : f[j] \in DOMAIN inode_cache /\ f[j] # x
    BY Zenon
  <2>2. ASSUME NEW k \in DOMAIN inode_cache, k # x PROVE inode_cache[k].path # c
    <3> SUFFICES ASSUME inode_cache[k].path = c PROVE FALSE
      BY Zenon
    <3>1. inode_cache[k].ino = inode_cache[x].ino
      BY <1>8 DEF IsSound
    <3> QED
      BY <1>4, <1>8, <2>2, <3>1 DEF IsSound
  <2>3. ASSUME NEW j \in DOMAIN inode_cache' PROVE tree'[inode_cache'[j].path] = inode_cache'[j].ino
    BY <1>5, <1>6, <1>8, <2>1, <2>2 DEF IsSound
  <2>4. ASSUME NEW j \in DOMAIN inode_cache', NEW k \in DOMAIN inode_cache',
               inode_cache'[j].ino = inode_cache'[k].ino
        PROVE  j = k \/ inode_cache'[j].path \in Exports \/ inode_cache'[k].path \in Exports
    <3>1. f[j] = f[k] \/ inode_cache'[j].path \in Exports \/ inode_cache'[k].path \in Exports
      BY <1>8, <2>1, <2>4 DEF IsSound
    <3> QED
      BY <1>8, <3>1, Zenon
  <2> QED
    BY <2>3, <2>4, Zenon DEF IsSound
<1>9. \/ inode_cache' = inode_cache /\ \A k \in DOMAIN inode_cache : inode_cache[k].path # c
      \/ \E x \in DOMAIN inode_cache : inode_cache[x].path = c /\ IsShorter(inode_cache', inode_cache, x)
  BY <1>1, <1>2, RemovedMapping, Zenon
<1> QED
  BY <1>7, <1>8, <1>9, Zenon DEF IsShorter

\* A move that strands no mapping: none below the moved directory, none of a replaced file.
LEMMA SoundMoves ==
    ASSUME NoNestedExports, ServerInv, CacheBelowExports, IsSound(inode_cache, tree),
           NEW from \in Path, NEW to \in Path, Moves(from, to), ~AncestorMoved, ~Replaced
    PROVE  IsSound(inode_cache', tree')
<1>1. TypeOK /\ inode_cache \in Seq(MappingSet) /\ tree \in [Path -> Inode \cup {NULL}] /\ NULL \notin Inode
  BY FileSystemAssumption, Zenon DEF ServerInv, TypeOK, MappingSet
<1>2. /\ InMappedDirectory(from) /\ tree[from] # NULL
      /\ inode_cache' = update_inode_mapping_absolute_path(inode_cache, from, to)
  BY Zenon DEF Moves
<1>3. \A p \in Path : p \in Seq(Name) /\ Under(p, p)
  BY UnderIs, PathIs
<1>4. from \notin Exports
  BY <1>1, <1>2, <1>3, BelowExports, Zenon
<1>5. \A k \in DOMAIN inode_cache : inode_cache[k].path \in Path /\ inode_cache[k].ino \in Inode
  BY <1>1, CacheTyped, Zenon
<1>6. /\ DOMAIN inode_cache' = DOMAIN inode_cache
      /\ \A k \in DOMAIN inode_cache : inode_cache'[k].ino = inode_cache[k].ino
      /\ \/ inode_cache' = inode_cache /\ \A k \in DOMAIN inode_cache : inode_cache[k].path # from
         \/ \E x \in DOMAIN inode_cache :
               /\ inode_cache[x].path = from /\ inode_cache'[x].path = to
               /\ \A k \in DOMAIN inode_cache \ {x} : inode_cache'[k] = inode_cache[k]
  BY <1>1, <1>2, UpdatedMapping
<1>7. \A j, k \in DOMAIN inode_cache : inode_cache[j].path = from /\ inode_cache[k].path = from => j = k
  BY <1>4 DEF IsSound
<1>8. \A k \in DOMAIN inode_cache : IF inode_cache[k].path = from THEN inode_cache'[k].path = to
                                    ELSE inode_cache'[k] = inode_cache[k]
  BY <1>6, <1>7, Zenon
<1>9. tree'[to] = tree[from]
  <2>1. CASE tree[from] = tree[to]
    BY <2>1, MovedTo, Zenon
  <2>2. CASE tree[from] # tree[to]
    <3>1. SubSeq(to, Len(to) + 1, Len(to)) = <<>>
      BY <1>3
    <3>2. Before(from, to, to) = from
      BY <1>3, <3>1 DEF Before
    <3>3. Moved(from, to)[to] = lstat(from)
      BY <1>3, <3>2, Zenon DEF Moved
    <3> QED
      BY <2>2, <3>3, MovedTo, Zenon DEF lstat
  <2> QED
    BY <2>1, <2>2, Zenon
<1>10. ASSUME NEW k \in DOMAIN inode_cache, inode_cache[k].path # from
       PROVE  tree'[inode_cache[k].path] = tree[inode_cache[k].path]
  <2> DEFINE p == inode_cache[k].path
  <2>1. CASE tree[from] = tree[to]
    BY <2>1, MovedTo, Zenon
  <2>2. CASE tree[from] # tree[to]
    <3>1. tree' = Moved(from, to) /\ ~Under(to, from)
      BY <2>2, MovedTo, MovesApart, Zenon
    <3>2. p \in Path /\ inode_cache[k] \in Mappings /\ tree[p] = inode_cache[k].ino /\ tree[p] # NULL
      BY <1>1, <1>5, Zenon DEF Mappings, IsSound
    <3>3. tree'[p] \in {NULL, tree[p]}
      BY <3>2, Zenon DEF Replaced
    <3>4. \A q \in Path : Under(q, p) /\ q # p => tree'[q] = tree[q]
      BY <3>2, Zenon DEF AncestorMoved, StrictlyAbove
    <3>5. p # to
      BY <1>2, <1>9, <2>2, <3>2, <3>3, Zenon
    <3>6. ~Under(to, p)
      BY <1>9, <2>2, <3>4, <3>5, Zenon
    <3>7. tree'[from] = NULL
      BY <1>3, <3>1, Zenon DEF Moved
    <3>8. ~Under(from, p)
      BY <1>2, <1>10, <3>4, <3>7, Zenon
    <3> QED
      BY <3>1, <3>2, <3>6, <3>8, Zenon DEF Moved
  <2> QED
    BY <2>1, <2>2, Zenon
<1>11. ASSUME NEW k \in DOMAIN inode_cache PROVE tree'[inode_cache'[k].path] = inode_cache'[k].ino
  <2>1. tree[inode_cache[k].path] = inode_cache[k].ino /\ inode_cache'[k].ino = inode_cache[k].ino
    BY <1>6, Zenon DEF IsSound
  <2>2. CASE inode_cache[k].path = from
    BY <1>8, <1>9, <2>1, <2>2, Zenon
  <2>3. CASE inode_cache[k].path # from
    BY <1>8, <1>10, <2>1, <2>3, Zenon
  <2> QED
    BY <2>2, <2>3, Zenon
<1>12. ASSUME NEW j \in DOMAIN inode_cache, NEW k \in DOMAIN inode_cache,
              inode_cache'[j].ino = inode_cache'[k].ino
       PROVE  j = k \/ inode_cache'[j].path \in Exports \/ inode_cache'[k].path \in Exports
  <2>1. inode_cache[j].ino = inode_cache[k].ino
    BY <1>6, <1>12, Zenon
  <2>2. j = k \/ inode_cache[j].path \in Exports \/ inode_cache[k].path \in Exports
    BY <2>1, Zenon DEF IsSound
  <2> QED
    BY <1>4, <1>8, <2>2, Zenon
<1> QED
  BY <1>6, <1>11, <1>12, Zenon DEF IsSound

\* A request keeps the handles leading to their files, or it is such a RENAME.
LEMMA SoundStep ==
    ASSUME NoNestedExports, ServerInv, CacheBelowExports, IsSound(inode_cache, tree), Effect
    PROVE  \/ IsSound(inode_cache', tree')
           \/ reply'.proc = "RENAME" /\ (AncestorMoved \/ Replaced)
<1>1. TypeOK /\ tree \in [Path -> Inode \cup {NULL}] /\ NULL \notin Inode
  BY FileSystemAssumption, Zenon DEF ServerInv, TypeOK
<1>2. \A k \in DOMAIN inode_cache : /\ inode_cache[k].path \in Path /\ inode_cache[k].ino \in Inode
                                    /\ tree[inode_cache[k].path] = inode_cache[k].ino
  BY <1>1, CacheTyped, Zenon DEF IsSound
<1>3. ASSUME NEW c \in Path, NEW i, tree[c] = NULL, tree' = [tree EXCEPT ![c] = i]
      PROVE  /\ \A k \in DOMAIN inode_cache : tree'[inode_cache[k].path] = tree[inode_cache[k].path]
             /\ tree'[c] = i
  BY <1>1, <1>2, <1>3, Zenon
<1>4. CASE UNCHANGED <<tree, inode_cache>>
  BY <1>4, Zenon
<1>5. ASSUME NEW p \in Path, Mounts(p) PROVE IsSound(inode_cache', tree')
  <2>1. p \in Exports /\ tree[p] \in Inode /\ Adds(tree[p], p) /\ tree' = tree
    BY <1>1, <1>5, Zenon DEF Mounts, Adds, TypeAt, lstat
  <2> QED
    BY <1>1, <2>1, SoundAdds, Zenon
<1>6. ASSUME NEW c \in Path, Maps(c) PROVE IsSound(inode_cache', tree')
  <2>1. tree[c] \in Inode /\ Adds(tree[c], c) /\ tree' = tree /\ FirstIno(inode_cache, tree[c]) = 0
    BY <1>1, <1>6, Zenon DEF Maps, Adds, IsCached
  <2>2. \A k \in DOMAIN inode_cache : inode_cache[k].ino # tree[c]
    <3> SUFFICES ASSUME NEW k \in DOMAIN inode_cache, inode_cache[k].ino = tree[c] PROVE FALSE
      BY Zenon
    <3>1. PICK j \in DOMAIN inode_cache : PathOf(tree[c]) = inode_cache[j].path
      BY <1>1, MappedResolves, Zenon
    <3>2. PathOf(tree[c]) = NULL
      BY <2>1, Zenon DEF PathOf, get_absolute_path_from_inode_number
    <3> QED
      BY <1>2, <3>1, <3>2, FileSystemAssumption, Zenon
  <2> QED
    BY <1>1, <2>1, <2>2, SoundAdds, Zenon
<1>7. ASSUME NEW c \in Path, NEW i \in Inode, NEW type \in FileType, Makes(c, i, type)
      PROVE  IsSound(inode_cache', tree')
  <2>1. /\ tree[c] = NULL /\ (UNCHANGED inode_cache \/ Adds(i, c)) /\ tree' = [tree EXCEPT ![c] = i]
        /\ \A p \in Path : tree[p] # i
    BY <1>7, Zenon DEF Makes, Adds, FreeInode, MakeNode, Become
  <2>2. \A k \in DOMAIN inode_cache : tree'[inode_cache[k].path] = tree[inode_cache[k].path]
    BY <1>3, <2>1, Zenon
  <2>3. tree'[c] = i /\ \A k \in DOMAIN inode_cache : inode_cache[k].ino # i
    BY <1>2, <1>3, <2>1, Zenon
  <2>4. CASE UNCHANGED inode_cache
    BY <2>2, <2>4, Zenon DEF IsSound
  <2>5. CASE Adds(i, c)
    BY <1>1, <2>2, <2>3, <2>5, SoundAdds, Zenon
  <2> QED
    BY <2>1, <2>4, <2>5, Zenon
<1>8. ASSUME NEW c \in Path, NEW p \in Path, Links(c, p) PROVE IsSound(inode_cache', tree')
  <2>1. tree[c] = NULL /\ UNCHANGED inode_cache /\ tree' = [tree EXCEPT ![c] = tree[p]]
    BY <1>8, Zenon DEF Links, MakeLink, Become
  <2>2. \A k \in DOMAIN inode_cache : tree'[inode_cache[k].path] = tree[inode_cache[k].path]
    BY <1>3, <2>1, Zenon
  <2> QED
    BY <2>1, <2>2, Zenon DEF IsSound
<1>9. ASSUME NEW c \in Path, Drops(c) PROVE IsSound(inode_cache', tree')
  BY <1>9, SoundDrops, Zenon
<1>10. ASSUME NEW c \in Path, NEW p \in Path, Moves(c, p)
       PROVE  \/ IsSound(inode_cache', tree')
              \/ reply'.proc = "RENAME" /\ (AncestorMoved \/ Replaced)
  <2>1. reply'.proc = "RENAME"
    BY <1>10, Zenon DEF Moves
  <2>2. ~AncestorMoved /\ ~Replaced => IsSound(inode_cache', tree')
    BY <1>10, SoundMoves, Zenon
  <2> QED
    BY <2>1, <2>2, Zenon
<1> QED
  BY <1>4, <1>5, <1>6, <1>7, <1>8, <1>9, <1>10, Zenon DEF Effect

\* What a step may do to the handles
Strands == CacheSound /\ ~CacheSound' => reply'.proc = "RENAME" /\ (AncestorMoved \/ Replaced)

\* A step of the server does to the handles only what OnlyRenameStrands allows.
LEMMA OnlyRename ==
    ASSUME NoNestedExports, MountInv, [Next]_vars PROVE Strands
<1>1. ServerInv /\ TypeOK /\ CacheBelowExports
  BY Zenon DEF MountInv, ServerInv
<1>2. Effect
  BY <1>1, NextEffect, Zenon
<1>3. CacheSound => CacheSound' \/ (reply'.proc = "RENAME" /\ (AncestorMoved \/ Replaced))
  BY <1>1, <1>2, SoundIs, SoundStep, Zenon
<1> QED
  BY <1>3, Zenon DEF Strands

\* As long as no exported directory is below another one, every procedure but RENAME
\* leaves handles that lead to their files leading to them, and RENAME does unless it
\* moves a directory above such a file or replaces the file.
THEOREM HandleSafety ==
    ASSUME NoNestedExports PROVE Spec => OnlyRenameStrands
<1>1. MountInv /\ [Next]_vars => MountInv'
  BY MountStep, Zenon
<1>2. MountInv /\ [Next]_vars => Strands
  BY OnlyRename, Zenon
<1>3. Spec => [][Strands]_vars
  BY MountInit, <1>1, <1>2, PTL DEF Spec
<1> QED
  BY <1>3, Zenon DEF OnlyRenameStrands, Strands

\* All of this holds whatever tree of files the host has when the server starts.
THEOREM AnyHostTree ==
    ASSUME NoNestedExports
    PROVE  HostInit /\ [][Next]_vars => []TreeOK /\ []MountedResolves /\ OnlyRenameStrands
<1>1. MountInv /\ [Next]_vars => MountInv'
  BY MountStep, Zenon
<1>2. MountInv /\ [Next]_vars => Strands
  BY OnlyRename, Zenon
<1>3. MountInv => TreeOK
  BY Zenon DEF MountInv, ServerInv
<1>4. HostInit /\ [][Next]_vars => []TreeOK /\ []MountedResolves /\ [][Strands]_vars
  BY HostMountInit, MountInvResolves, <1>1, <1>2, <1>3, PTL
<1> QED
  BY <1>4, Zenon DEF OnlyRenameStrands, Strands
=============================================================================
