---------------------------- MODULE XStowProofs ----------------------------
(***************************************************************************)
(* Theorems about the program, for every disk, configuration and command.  *)
(* The calls of FileSys come first, what they return and that each of them *)
(* leaves a disk.  Then the types of the planner and the executor: every   *)
(* step of check leaves the stacks, the plan and the lists of the setup    *)
(* well formed and the disk as it is; every operation of exec_list leaves  *)
(* a disk that is a tree of directories, and a list of operations.         *)
(***************************************************************************)
EXTENDS XStow, FiniteSetTheorems, SequenceTheorems, TLAPS


\* A prefix of a prefix is a prefix.
LEMMA SubSubSeq ==
    ASSUME NEW S, NEW p \in Seq(S), NEW m \in 0..Len(p), NEW i \in 0..m
    PROVE  SubSeq(SubSeq(p, 1, m), 1, i) = SubSeq(p, 1, i)
OBVIOUS

LEMMA LenPrefix ==
    ASSUME NEW S, NEW p \in Seq(S), NEW m \in 0..Len(p)
    PROVE  Len(SubSeq(p, 1, m)) = m
OBVIOUS

LEMMA NonEmpty ==
    ASSUME NEW S, NEW s \in Seq(S), Len(s) > 0
    PROVE  s # <<>>
OBVIOUS

LEMMA SubSeqPath ==
    ASSUME NEW p \in Path, NEW i \in 1..(Len(p) + 1), NEW j \in 0..Len(p)
    PROVE  SubSeq(p, i, j) \in Path
BY DEF Path

\* Following links leads from path names to path names.
LEMMA HopPath ==
    ASSUME NEW F, Disk(F), NEW p \in Path
    PROVE  Hop(F)[p] \in Path
<1>1. CASE LinksAbove(F, p) = {}
  BY <1>1 DEF Hop
<1>2. CASE LinksAbove(F, p) # {}
  <2> DEFINE i == CHOOSE i \in LinksAbove(F, p) : TRUE
  <2>1. i \in LinksAbove(F, p)
    BY <1>2
  <2>2. i \in 1..(Len(p) - 1) /\ SubSeq(p, 1, i) \in DOMAIN F
    BY <2>1 DEF LinksAbove, IsLink
  <2>3. F[SubSeq(p, 1, i)].ref \in Path
    BY <2>2 DEF Disk, Node
  <2>4. SubSeq(p, i + 1, Len(p)) \in Path
    <3>1. i + 1 \in 1..(Len(p) + 1) /\ Len(p) \in 0..Len(p)
      BY <2>2 DEF Path
    <3> HIDE DEF i
    <3> QED BY <3>1, SubSeqPath
  <2>5. Hop(F)[p] = F[SubSeq(p, 1, i)].ref \o SubSeq(p, i + 1, Len(p))
    BY <1>2 DEF Hop
  <2> QED BY <2>3, <2>4, <2>5 DEF Path
<1> QED BY <1>1, <1>2

LEMMA LocPath ==
    ASSUME NEW F, Disk(F), NEW p \in Path
    PROVE  Loc(F, p) \in Path
BY HopPath DEF Loc

LEMMA LeadPath ==
    ASSUME NEW F, Disk(F), NEW p \in Path
    PROVE  Lead(F, p) \in Path
<1>1. Loc(F, p) \in Path
  BY LocPath
<1> QED BY <1>1 DEF Lead, Follow, IsLink, Disk, Node

LEMMA StatPath ==
    ASSUME NEW F, Disk(F), NEW p \in Path
    PROVE  Stat(F, p) \in Path
BY LocPath, LeadPath DEF Stat

LEMMA LinkBufPath ==
    ASSUME NEW F, Disk(F), NEW p, LinkAt(F, p)
    PROVE  LinkBuf(F, p) \in Path
BY DEF LinkAt, LinkBuf, IsLink, Disk, Node

LEMMA ParentPath ==
    ASSUME NEW p \in Path, p # <<>>
    PROVE  /\ Parent(p) \in Path
           /\ Len(Parent(p)) = Len(p) - 1
           /\ \A i \in 0..(Len(p) - 1) : SubSeq(Parent(p), 1, i) = SubSeq(p, 1, i)
<1>1. Len(p) \in Nat /\ Len(p) > 0
  BY DEF Path
<1>2. Parent(p) \in Path /\ Len(Parent(p)) = Len(p) - 1
  <2>1. 1 \in 1..(Len(p) + 1) /\ Len(p) - 1 \in 0..Len(p)
    BY <1>1
  <2>2. Parent(p) \in Path
    BY <2>1, SubSeqPath DEF Parent
  <2>3. Len(Parent(p)) = Len(p) - 1
    BY <2>1, LenPrefix DEF Parent, Path
  <2> QED BY <2>2, <2>3
<1>3. \A i \in 0..(Len(p) - 1) : SubSeq(Parent(p), 1, i) = SubSeq(p, 1, i)
  BY <1>1, SubSubSeq DEF Parent, Path
<1> QED BY <1>2, <1>3

LEMMA NewNode ==
    /\ Dir \in Node
    /\ \A p \in Path : Link(p) \in Node /\ File(p) \in Node
<1>1. <<>> \in Path
  BY DEF Path
<1> QED BY <1>1 DEF Dir, Link, File, Node

\* A node made where a directory holds it and nothing was.
LEMMA PutNew ==
    ASSUME NEW F, Disk(F), NEW l \in Path, NEW n \in Node,
           l \notin DOMAIN F, Changeable(F, l)
    PROVE  Disk(Put(F, l, n))
<1> DEFINE G == Put(F, l, n)
<1>1. DOMAIN G = DOMAIN F \cup {l} /\ G[l] = n /\ \A q \in DOMAIN F : G[q] = F[q]
  BY DEF Put
<1>2. \A q : IsDir(F, q) => IsDir(G, q)
  BY <1>1 DEF IsDir
<1>3. ASSUME NEW i \in 0..(Len(l) - 1)
      PROVE  IsDir(F, SubSeq(l, 1, i))
  <2>1. Parent(l) \in DOMAIN F /\ IsDir(F, Parent(l)) /\ l # <<>>
    BY DEF Changeable, IsDir
  <2>2. Len(Parent(l)) = Len(l) - 1 /\ SubSeq(Parent(l), 1, i) = SubSeq(l, 1, i)
    BY <2>1, ParentPath
  <2>3. CASE i = Len(l) - 1
    BY <2>1, <2>3 DEF Parent
  <2>4. CASE i # Len(l) - 1
    <3>1. i \in 0..(Len(Parent(l)) - 1)
      BY <2>2, <2>4 DEF Path
    <3> QED BY <3>1, <2>1, <2>2 DEF Disk
  <2> QED BY <2>3, <2>4
<1>4. ASSUME NEW p \in DOMAIN G, NEW i \in 0..(Len(p) - 1)
      PROVE  IsDir(G, SubSeq(p, 1, i))
  <2>1. CASE p = l
    BY <2>1, <1>2, <1>3
  <2>2. CASE p \in DOMAIN F
    BY <2>2, <1>2 DEF Disk
  <2> QED BY <2>1, <2>2, <1>1
<1>5. DOMAIN G \subseteq Path /\ \A p \in DOMAIN G : G[p] \in Node
  BY <1>1 DEF Disk
<1>6. IsDir(G, <<>>)
  BY <1>2 DEF Disk
<1> QED BY <1>4, <1>5, <1>6 DEF Disk

\* A file is replaced: no directory is affected.
LEMMA PutFile ==
    ASSUME NEW F, Disk(F), NEW l, IsFile(F, l), NEW n \in Node
    PROVE  Disk(Put(F, l, n))
<1> DEFINE G == Put(F, l, n)
<1>1. DOMAIN G = DOMAIN F /\ G[l] = n /\ \A q \in DOMAIN F \ {l} : G[q] = F[q]
  BY DEF Put, IsFile
<1>2. \A q : IsDir(F, q) => IsDir(G, q)
  BY <1>1 DEF IsDir, IsFile
<1> QED BY <1>1, <1>2 DEF Disk

\* A node goes that holds nothing.
LEMMA DropLeaf ==
    ASSUME NEW F, Disk(F), NEW p \in Path, Loc(F, p) # <<>>,
           \A q \in DOMAIN F : ~IsStrictPrefix(Loc(F, p), q)
    PROVE  Disk(Drop(F, p))
<1> DEFINE l == Loc(F, p)  G == Drop(F, p)
<1>1. DOMAIN G = DOMAIN F \ {l} /\ \A q \in DOMAIN G : G[q] = F[q]
  BY DEF Drop
<1>2. \A q : IsDir(F, q) /\ q # l => IsDir(G, q)
  BY <1>1 DEF IsDir
<1>3. ASSUME NEW q \in DOMAIN G, NEW i \in 0..(Len(q) - 1)
      PROVE  IsDir(G, SubSeq(q, 1, i))
  <2>1. q \in DOMAIN F /\ q \in Path /\ ~IsStrictPrefix(l, q)
    BY <1>1 DEF Disk
  <2>2. IsDir(F, SubSeq(q, 1, i))
    BY <2>1 DEF Disk
  <2>3. SubSeq(q, 1, i) # l
    <3> SUFFICES ASSUME SubSeq(q, 1, i) = l PROVE IsStrictPrefix(l, q)
      BY <2>1
    <3>1. Len(q) \in Nat /\ Len(l) = i /\ i < Len(q)
      BY <2>1 DEF Path
    <3>2. SubSeq(l, 1, i) = l
      BY <2>1, <3>1, SubSubSeq DEF Path
    <3> QED BY <3>1, <3>2 DEF IsStrictPrefix, IsPrefix
  <2> QED BY <1>2, <2>2, <2>3
<1>4. IsDir(G, <<>>)
  BY <1>2 DEF Disk
<1> QED BY <1>1, <1>3, <1>4 DEF Disk
-----------------------------------------------------------------------------
\* The calls: each leaves a disk when its condition holds.
LEMMA MakeDisk ==
    ASSUME NEW F, Disk(F), NEW p \in Path, CanMake(F, p), NEW n \in Node
    PROVE  Disk(Put(F, Loc(F, p), n))
BY LocPath, PutNew DEF CanMake, Lexists

LEMMA UnlinkDisk ==
    ASSUME NEW F, Disk(F), NEW p \in Path, CanUnlink(F, p)
    PROVE  Disk(Drop(F, p))
<1> DEFINE l == Loc(F, p)
<1>1. l \in Path /\ l # <<>> /\ ~IsDir(F, l)
  BY LocPath DEF CanUnlink, Changeable
<1>2. ASSUME NEW q \in DOMAIN F, IsStrictPrefix(l, q) PROVE FALSE
  <2>1. q \in Path
    BY DEF Disk
  <2>2. Len(l) \in 0..(Len(q) - 1) /\ SubSeq(q, 1, Len(l)) = l
    BY <1>1, <1>2, <2>1 DEF IsStrictPrefix, IsPrefix, Path
  <2> QED BY <1>1, <2>2 DEF Disk
<1> QED BY <1>1, <1>2, DropLeaf

LEMMA RmdirDisk ==
    ASSUME NEW F, Disk(F), NEW p \in Path, CanRmdir(F, p)
    PROVE  Disk(Drop(F, p))
BY DropLeaf DEF CanRmdir, Changeable

LEMMA WriteDisk ==
    ASSUME NEW F, Disk(F), NEW p \in Path, CanOpenW(F, p), NEW c \in Path
    PROVE  Disk(Write(F, p, c))
<1>1. Stat(F, p) \in Path /\ File(c) \in Node
  BY StatPath, NewNode
<1> QED BY <1>1, PutNew, PutFile DEF CanOpenW, Write
-----------------------------------------------------------------------------
\* The name of a node that is there has no link on the way to it.
LEMMA LocOfNode ==
    ASSUME NEW F, Disk(F), NEW l \in DOMAIN F
    PROVE  Loc(F, l) = l
<1>1. l \in Path
  BY DEF Disk
<1>2. LinksAbove(F, l) = {}
  <2> SUFFICES ASSUME NEW i \in 1..(Len(l) - 1) PROVE ~IsLink(F, SubSeq(l, 1, i))
    BY DEF LinksAbove
  <2>1. i \in 0..(Len(l) - 1)
    OBVIOUS
  <2>2. IsDir(F, SubSeq(l, 1, i))
    BY <2>1 DEF Disk
  <2> QED BY <2>2 DEF IsDir, IsLink
<1>3. Hop(F)[l] = l
  BY <1>1, <1>2 DEF Hop
<1> QED BY <1>3 DEF Loc

\* lstat and stat agree on a directory.
LEMMA StatOfDir ==
    ASSUME NEW F, Disk(F), NEW p \in Path, IsDir(F, Loc(F, p))
    PROVE  Stat(F, p) = Loc(F, p) /\ Valid(F, p)
<1> DEFINE l == Loc(F, p)
<1>1. l \in DOMAIN F /\ l \in Path /\ ~IsLink(F, l)
  BY DEF IsDir, IsLink, Disk
<1>2. Loc(F, l) = l
  BY <1>1, LocOfNode
<1>3. Lead(F, p) = l /\ Lead(F, l) = l
  BY <1>1, <1>2 DEF Lead, Follow
<1>4. Stat(F, p) = l
  BY <1>2, <1>3 DEF Stat
<1> QED BY <1>4 DEF Valid, DirAt

\* What is put where no directory is leaves every directory alone.
LEMMA PutKeepsDirs ==
    ASSUME NEW F, NEW l, ~IsDir(F, l), NEW n, NEW d, IsDir(F, d)
    PROVE  IsDir(Put(F, l, n), d)
BY DEF Put, IsDir

\* So does the removal of something else.
LEMMA DropKeepsDirs ==
    ASSUME NEW F, NEW p, NEW d, IsDir(F, d), d # Loc(F, p)
    PROVE  IsDir(Drop(F, p), d)
BY DEF Drop, IsDir
-----------------------------------------------------------------------------
(***************************************************************************)
(* Names of one directory below another.                                   *)
(***************************************************************************)
LEMMA PathLen ==
    ASSUME NEW p \in Path
    PROVE  Len(p) \in Nat /\ SubSeq(p, 1, Len(p)) = p /\ p \o <<>> = p /\ <<>> \in Path
BY DEF Path

LEMMA JoinPath ==
    ASSUME NEW p \in Path, NEW q \in Path
    PROVE  p \o q \in Path /\ Len(p \o q) = Len(p) + Len(q)
BY ConcatProperties DEF Path

LEMMA JoinCancel ==
    ASSUME NEW p \in Path, NEW q \in Path, NEW r \in Path, p \o q = p \o r
    PROVE  q = r
BY ConcatSimplifications DEF Path

LEMMA JoinAssoc ==
    ASSUME NEW p \in Path, NEW q \in Path, NEW r \in Path
    PROVE  (p \o q) \o r = p \o (q \o r)
BY ConcatAssociative DEF Path

LEMMA AddPath ==
    ASSUME NEW p \in Path, NEW n \in Name
    PROVE  /\ Append(p, n) \in Path /\ <<n>> \in Path
           /\ Append(p, n) = p \o <<n>>
           /\ Len(Append(p, n)) = Len(p) + 1 /\ Append(p, n) # <<>>
           /\ SubSeq(Append(p, n), 1, Len(p)) = p
           /\ Parent(Append(p, n)) = p
<1>1. Append(p, n) = p \o <<n>> /\ Append(p, n) \in Path /\ <<n>> \in Path
  BY AppendIsConcat DEF Path
<1>2. Len(Append(p, n)) = Len(p) + 1 /\ Append(p, n) # <<>>
  BY AppendProperties DEF Path
<1>3. SubSeq(Append(p, n), 1, Len(p)) = p
  BY DEF Path
<1>4. Len(Append(p, n)) - 1 = Len(p)
  BY <1>2, PathLen
<1> QED BY <1>1, <1>2, <1>3, <1>4 DEF Parent

LEMMA JoinAdd ==
    ASSUME NEW p \in Path, NEW y \in Path, NEW n \in Name
    PROVE  p \o Append(y, n) = Append(p \o y, n)
<1>1. p \o Append(y, n) = p \o (y \o <<n>>)
  BY AddPath
<1>2. Append(p \o y, n) = (p \o y) \o <<n>>
  BY AddPath, JoinPath
<1> QED BY <1>1, <1>2, AddPath, JoinAssoc

\* The first names of a joined path.
LEMMA JoinPrefix ==
    ASSUME NEW p \in Path, NEW y \in Path, NEW k \in 0..(Len(p) + Len(y))
    PROVE  SubSeq(p \o y, 1, k) =
               IF k <= Len(p) THEN SubSeq(p, 1, k) ELSE p \o SubSeq(y, 1, k - Len(p))
<1> DEFINE s == p \o y
<1>0. p \in Seq(Name) /\ y \in Seq(Name) /\ s \in Seq(Name) /\ Len(p) \in Nat /\ Len(y) \in Nat
      /\ Len(s) = Len(p) + Len(y)
  BY JoinPath, PathLen DEF Path
<1>1. CASE k = 0
  <2>1. SubSeq(s, 1, 0) = <<>> /\ SubSeq(p, 1, 0) = <<>>
    BY SubSeqEmpty
  <2> QED BY <1>0, <1>1, <2>1
<1>2. CASE k # 0 /\ k <= Len(p)
  BY <1>0, <1>2, SubSeqOfConcat1
<1>3. CASE k > Len(p)
  <2>1. SubSeq(s, 1, Len(p)) \o SubSeq(s, Len(p) + 1, k) = SubSeq(s, 1, k)
    <3>1. 1 \in 1..(Len(s) + 1) /\ Len(p) \in (1 - 1)..Len(s) /\ k \in Len(p)..Len(s)
      BY <1>0, <1>3
    <3> HIDE DEF s
    <3> QED BY <1>0, <3>1, ConcatAdjacentSubSeq
  <2>2. SubSeq(s, 1, Len(p)) = p
    BY <1>0
  <2>3. SubSeq(s, Len(p) + 1, k) = SubSeq(y, 1, k - Len(p))
    <3>1. Len(p) + 1 \in (Len(p) + 1)..(Len(p) + Len(y)) /\ k \in (Len(p) + 1)..(Len(p) + Len(y))
      BY <1>0, <1>3
    <3>2. SubSeq(s, Len(p) + 1, k) = SubSeq(y, Len(p) + 1 - Len(p), k - Len(p))
      BY <1>0, <3>1, SubSeqOfConcat2
    <3> QED BY <1>0, <3>2
  <2> QED BY <1>0, <1>3, <2>1, <2>2, <2>3
<1> QED BY <1>1, <1>2, <1>3, PathLen

LEMMA AddPrefix ==
    ASSUME NEW p \in Path, NEW n \in Name, NEW k \in 0..Len(p)
    PROVE  SubSeq(Append(p, n), 1, k) = SubSeq(p, 1, k)
<1>1. Len(p) \in Nat /\ Len(<<n>>) = 1 /\ <<n>> \in Path
  BY PathLen, AddPath
<1>2. k \in 0..(Len(p) + Len(<<n>>)) /\ k <= Len(p)
  BY <1>1
<1> QED BY <1>1, <1>2, AddPath, JoinPrefix

\* What is in directory p is p and what comes after it.
LEMMA InDir ==
    ASSUME NEW p \in Path, NEW q \in Path, IsInDir(q, p)
    PROVE  /\ q = p \o After(q, p) /\ After(q, p) \in Path
           /\ Len(p) \in 0..Len(q) /\ SubSeq(q, 1, Len(p)) = p
<1>1. Len(p) \in Nat /\ Len(q) \in Nat /\ Len(p) <= Len(q) /\ SubSeq(q, 1, Len(p)) = p
  BY PathLen DEF IsInDir, IsPrefix
<1>2. SubSeq(q, 1, Len(p)) \o SubSeq(q, Len(p) + 1, Len(q)) = SubSeq(q, 1, Len(q))
  <2>1. 1 \in 1..(Len(q) + 1) /\ Len(p) \in (1 - 1)..Len(q) /\ Len(q) \in Len(p)..Len(q)
    BY <1>1
  <2> QED BY <2>1, ConcatAdjacentSubSeq DEF Path
<1>3. After(q, p) \in Path
  BY <1>1, SubSeqPath DEF After
<1> QED BY <1>1, <1>2, <1>3, PathLen DEF After

LEMMA JoinIn ==
    ASSUME NEW p \in Path, NEW y \in Path
    PROVE  IsInDir(p \o y, p) /\ After(p \o y, p) = y
<1>1. Len(p) \in Nat /\ Len(y) \in Nat /\ Len(p \o y) = Len(p) + Len(y) /\ p \o y \in Path
  BY JoinPath, PathLen
<1>2. SubSeq(p \o y, 1, Len(p)) = SubSeq(p, 1, Len(p))
  BY <1>1, JoinPrefix
<1>3. IsInDir(p \o y, p)
  BY <1>1, <1>2 DEF IsInDir, IsPrefix
<1>4. p \o y = p \o After(p \o y, p) /\ After(p \o y, p) \in Path
  BY <1>1, <1>3, InDir
<1>5. y = After(p \o y, p)
  BY <1>4, ConcatSimplifications DEF Path
<1> QED BY <1>3, <1>5

LEMMA InSelf ==
    ASSUME NEW p \in Path
    PROVE  IsInDir(p, p) /\ After(p, p) = <<>>
BY JoinIn, PathLen

LEMMA InTrans ==
    ASSUME NEW p \in Path, NEW q \in Path, NEW r \in Path, IsInDir(q, p), IsInDir(r, q)
    PROVE  IsInDir(r, p)
<1>1. PICK y \in Path : q = p \o y
  BY InDir
<1>2. PICK z \in Path : r = q \o z
  BY InDir
<1>3. r = p \o (y \o z) /\ y \o z \in Path
  BY <1>1, <1>2, JoinAssoc, JoinPath
<1> QED BY <1>3, JoinIn

\* Of two directories that hold a name one holds the other.
LEMMA InBoth ==
    ASSUME NEW p \in Path, NEW q \in Path, NEW r \in Path, IsInDir(r, p), IsInDir(r, q)
    PROVE  IsInDir(p, q) \/ IsInDir(q, p)
<1>1. /\ Len(p) \in 0..Len(r) /\ SubSeq(r, 1, Len(p)) = p
      /\ Len(q) \in 0..Len(r) /\ SubSeq(r, 1, Len(q)) = q
  BY InDir
<1>2. CASE Len(p) <= Len(q)
  <2>1. SubSeq(SubSeq(r, 1, Len(q)), 1, Len(p)) = SubSeq(r, 1, Len(p))
    BY <1>1, <1>2, SubSubSeq DEF Path
  <2> QED BY <1>1, <1>2, <2>1, PathLen DEF IsInDir, IsPrefix
<1>3. CASE Len(q) <= Len(p)
  <2>1. SubSeq(SubSeq(r, 1, Len(p)), 1, Len(q)) = SubSeq(r, 1, Len(q))
    BY <1>1, <1>3, SubSubSeq DEF Path
  <2> QED BY <1>1, <1>3, <2>1, PathLen DEF IsInDir, IsPrefix
<1> QED BY <1>1, <1>2, <1>3, PathLen

LEMMA InAnti ==
    ASSUME NEW p \in Path, NEW q \in Path, IsInDir(p, q), IsInDir(q, p)
    PROVE  p = q
<1>1. Len(p) \in 0..Len(q) /\ Len(q) \in 0..Len(p) /\ SubSeq(q, 1, Len(p)) = p
  BY InDir
<1> QED BY <1>1, PathLen

\* A directory that holds a child is the child or holds the parent.
LEMMA InAdd ==
    ASSUME NEW p \in Path, NEW n \in Name, NEW d \in Path
    PROVE  IsInDir(Append(p, n), d) <=> d = Append(p, n) \/ IsInDir(p, d)
<1> DEFINE c == Append(p, n)
<1>0. c \in Path /\ Len(c) = Len(p) + 1 /\ c = p \o <<n>> /\ <<n>> \in Path /\ Len(p) \in Nat
  BY AddPath, PathLen
<1>1. ASSUME IsInDir(c, d), d # c PROVE IsInDir(p, d)
  <2>1. Len(d) \in 0..Len(c) /\ SubSeq(c, 1, Len(d)) = d
    BY <1>0, <1>1, InDir
  <2>2. Len(d) # Len(c)
    <3>1. SubSeq(c, 1, Len(c)) = c
      BY <1>0, PathLen
    <3> QED BY <1>1, <2>1, <3>1
  <2>3. Len(d) \in 0..Len(p)
    <3>1. Len(c) = Len(p) + 1 /\ Len(p) \in Nat
      BY <1>0
    <3>2. Len(d) \in 0..Len(c) /\ Len(d) # Len(c)
      BY <2>1, <2>2
    <3> HIDE DEF c
    <3> QED BY <3>1, <3>2
  <2>4. SubSeq(p, 1, Len(d)) = d
    BY <2>1, <2>3, AddPrefix
  <2> QED BY <2>3, <2>4, PathLen DEF IsInDir, IsPrefix
<1>2. ASSUME IsInDir(p, d) PROVE IsInDir(c, d)
  BY <1>0, <1>2, JoinIn, InTrans
<1>3. IsInDir(c, c)
  BY <1>0, InSelf
<1> QED BY <1>1, <1>2, <1>3

\* The first name of a path.
LEMMA FirstName ==
    ASSUME NEW x \in Path, x # <<>>
    PROVE  \E n \in Name : \E z \in Path : x = <<n>> \o z
<1>1. Len(x) \in Nat /\ Len(x) > 0 /\ x[1] \in Name
  BY DEF Path
<1>2. SubSeq(x, 1, Len(x)) = <<x[1]>> \o SubSeq(x, 1 + 1, Len(x))
  <2>1. 1 \in 1..Len(x) /\ Len(x) \in 1..Len(x)
    BY <1>1
  <2> QED BY <2>1, SubSeqRecursiveFirst DEF Path
<1>3. SubSeq(x, 1 + 1, Len(x)) \in Path
  BY <1>1, SubSeqPath
<1> QED BY <1>1, <1>2, <1>3, PathLen

LEMMA PrefixIn ==
    ASSUME NEW p \in Path, NEW k \in 0..Len(p)
    PROVE  SubSeq(p, 1, k) \in Path /\ Len(SubSeq(p, 1, k)) = k /\ IsInDir(p, SubSeq(p, 1, k))
<1>1. SubSeq(p, 1, k) \in Path /\ Len(SubSeq(p, 1, k)) = k
  BY SubSeqPath, LenPrefix, PathLen DEF Path
<1>2. SubSeq(SubSeq(p, 1, k), 1, k) = SubSeq(p, 1, k)
  BY SubSubSeq DEF Path
<1> QED BY <1>1, <1>2, PathLen DEF IsInDir, IsPrefix
-----------------------------------------------------------------------------
(***************************************************************************)
(* The planner and the executor.                                           *)
(***************************************************************************)
CheckOK == Disk(fs) /\ SetupTypeOK /\ CheckTypeOK

Planning == {"check", "deps", "dive"}
Stopped  == {"refused", "aborted"}

\* What a step of the planner may do: move between its own phases or stop.
PlanStep == phase \in Planning /\ phase' \in Planning \cup Stopped /\ UNCHANGED fs

LEMMA EmptyPath == <<>> \in Path
BY DEF Path

LEMMA AppendPath ==
    ASSUME NEW p \in Path, NEW n \in Name PROVE Append(p, n) \in Path
BY DEF Path

LEMMA OpTyped ==
    ASSUME NEW o \in Path, NEW t \in Path,
           NEW a \in {"REMOVE", "MKDIR", "SET_LINK", "COPY", "COPY_DIR", "EXEC"},
           NEW e \in {"", "exec", "exec-unstow"}
    PROVE  MkOp(a, o, t, e) \in Op
BY DEF MkOp, Op

LEMMA NamedOpTyped ==
    ASSUME NEW o \in Path, NEW t \in Path
    PROVE  RemoveOp(o) \in Op /\ MkdirOp(t) \in Op /\ LinkOp(o, t) \in Op
BY OpTyped, EmptyPath DEF RemoveOp, MkdirOp, LinkOp

LEMMA PushTyped ==
    ASSUME NEW plan \in Seq(Op), NEW l \in Op PROVE Push(plan, l) \in Seq(Op)
BY DEF Push

LEMMA ConfigTyped ==
    ASSUME SetupTypeOK PROVE Config \in ConfigType
BY SetupAssumption DEF SetupTypeOK, Config

\* The lists that are computed from the traversable links hold path names.
LEMMA ListsTyped ==
    ASSUME NEW F, Disk(F), NEW T, NEW K, K \subseteq Path
    PROVE  handle_keep_dirs(F, T, K) \subseteq Path /\ handle_protect_dirs(F, T, K) \subseteq Path
<1>1. LinkTargets(F, T) \subseteq Path
  BY LinkBufPath DEF LinkTargets
<1> QED BY <1>1 DEF handle_keep_dirs, handle_protect_dirs

LEMMA ChildrenTyped ==
    ASSUME NEW d PROVE Children(d) \subseteq Name
BY DEF Children, Entries

\* The innermost call, its children's names in the package and in the target.
LEMMA TopTyped ==
    ASSUME CheckOK, stack # <<>>, NEW n \in Name
    PROVE  /\ Len(stack) \in Nat \ {0}
           /\ Top \in Call
           /\ Base(n) \in Path /\ There(n) \in Path
<1>1. Len(stack) \in Nat \ {0} /\ Top \in Call
  BY DEF CheckOK, CheckTypeOK, Top
<1> QED BY <1>1, AppendPath DEF Base, There, Call

LEMMA DoneTyped ==
    ASSUME CheckOK, stack # <<>>, NEW n \in Name, Done(n)
    PROVE  stack' \in Seq(Call) /\ stack' # <<>>
<1> DEFINE i == Len(stack)
<1>1. i \in DOMAIN stack /\ stack[i] \in Call /\ stack \in Seq(Call)
  BY TopTyped DEF CheckOK, CheckTypeOK, Top
<1>2. [stack[i] EXCEPT !.kids = @ \ {n}] \in Call
  BY <1>1 DEF Call
<1>3. stack' = [stack EXCEPT ![i] = [stack[i] EXCEPT !.kids = @ \ {n}]]
  BY DEF Done
<1> QED BY <1>1, <1>2, <1>3

LEMMA SkipTyped ==
    ASSUME CheckOK, phase = "check", NEW n \in Name, Skip(n)
    PROVE  CheckOK' /\ PlanStep
<1>1. stack' \in Seq(Call) /\ stack' # <<>>
  BY DoneTyped DEF CheckOK, CheckTypeOK, Skip
<1> QED BY <1>1 DEF CheckOK, CheckTypeOK, SetupTypeOK, Skip, PlanStep, Planning, setupVars, listVars, Config

LEMMA PlanTyped ==
    ASSUME CheckOK, phase = "check", NEW n \in Name, NEW l \in Op, Plan(n, l)
    PROVE  CheckOK' /\ PlanStep
<1>1. stack' \in Seq(Call) /\ stack' # <<>>
  BY DoneTyped DEF CheckOK, CheckTypeOK, Plan
<1>2. links' \in Seq(Op)
  BY PushTyped DEF CheckOK, CheckTypeOK, Plan
<1> QED BY <1>1, <1>2 DEF CheckOK, CheckTypeOK, SetupTypeOK, Plan, PlanStep, Planning, setupVars, listVars

LEMMA StopTyped ==
    ASSUME CheckOK, phase \in Planning, NEW p \in Stopped, Stop(p)
    PROVE  CheckOK' /\ PlanStep
BY DEF CheckOK, CheckTypeOK, SetupTypeOK, Stop, PlanStep, Planning, Stopped, Phases,
       checkVars, setupVars, listVars

LEMMA ObstacleTyped ==
    ASSUME CheckOK, phase = "check", NEW n \in Name, Obstacle(n)
    PROVE  CheckOK' /\ PlanStep
BY SkipTyped, StopTyped DEF Obstacle, Planning, Stopped

\* Entering a directory, from whatever frames are there.
LEMMA EnterTyped ==
    ASSUME CheckOK, NEW dir \in Path, NEW base \in Path, NEW frames \in Seq(Call),
           Enter(dir, base, frames)
    PROVE  CheckOK' /\ phase' \in {"check"} \cup Stopped /\ UNCHANGED fs
<1>1. CASE \E p \in Stopped : Stop(p)
  BY <1>1 DEF CheckOK, CheckTypeOK, SetupTypeOK, Stop, Stopped, Phases, checkVars, setupVars, listVars
<1>2. CASE ~\E p \in Stopped : Stop(p)
  <2> DEFINE frame == [dir |-> dir, base |-> base, kids |-> Children(base)]
  <2>1. /\ stack' = Append(frames, frame)
        /\ phase' = "check" /\ at' = Nowhere
        /\ UNCHANGED <<deps, links, setupVars, fs>>
    BY <1>2 DEF Enter, Stopped
  <2>2. frame \in Call
    BY ChildrenTyped DEF Call
  <2>3. stack' \in Seq(Call) /\ stack' # <<>>
    BY <2>1, <2>2
  <2>4. at' \in Child
    BY <2>1, EmptyPath DEF Nowhere, Child
  <2> QED BY <2>1, <2>3, <2>4
         DEF CheckOK, CheckTypeOK, SetupTypeOK, Phases, setupVars, listVars
<1> QED BY <1>1, <1>2
-----------------------------------------------------------------------------
\* Diving: the child's three names are path names.
LEMMA DiveToTyped ==
    ASSUME CheckOK, phase = "check", NEW n \in Name, NEW into \in Path, DiveTo(n, into),
           UNCHANGED <<deps, links, host, opt, stow_dirs, protect_dirs, package, fs>>,
           (trav' \cup keep' \cup ptargets') \subseteq Path
    PROVE  CheckOK' /\ PlanStep
<1>1. stack' \in Seq(Call) /\ stack' # <<>>
  BY DoneTyped DEF CheckOK, CheckTypeOK, DiveTo
<1>2. at' \in Child
  BY TopTyped DEF CheckOK, CheckTypeOK, DiveTo, Child
<1>3. phase' = "dive" /\ phase' \in Phases
  BY DEF DiveTo, Phases
<1>4. SetupTypeOK'
  BY DEF CheckOK, SetupTypeOK
<1> QED BY <1>1, <1>2, <1>3, <1>4 DEF CheckOK, CheckTypeOK, PlanStep, Planning

LEMMA SameLists ==
    ASSUME CheckOK, UNCHANGED setupVars
    PROVE  (trav' \cup keep' \cup ptargets') \subseteq Path
BY DEF CheckOK, SetupTypeOK, setupVars, listVars

\* A call of checkDirs, from whatever calls and plan are there.
LEMMA CheckDirsTyped ==
    ASSUME CheckOK, stack' \in Seq(Call), stack' # <<>>, at' \in Child,
           UNCHANGED <<setupVars, fs>>,
           NEW a \in Path, NEW b \in Path, NEW w \in Path,
           NEW frames \in Seq(DepsCall), NEW plan \in Seq(Op),
           CheckDirs(a, b, w, frames, plan)
    PROVE  CheckOK' /\ phase' \in {"deps"} \cup Stopped
<1> DEFINE frame == [a |-> a, b |-> b, w |-> w,
                     common |-> Children(a) \cap Children(b),
                     rest   |-> Children(b) \ Children(a)]
<1>1. frame \in DepsCall
  BY ChildrenTyped DEF DepsCall
<1>2. deps' \in Seq(DepsCall) /\ links' \in Seq(Op)
  <2>1. CASE deps' = Append(frames, frame) /\ links' = plan
    <3> HIDE DEF frame
    <3> QED BY <1>1, <2>1
  <2>2. CASE UNCHANGED <<deps, links>>
    BY <2>2 DEF CheckOK, CheckTypeOK
  <2> QED BY <2>1, <2>2 DEF CheckDirs
<1>3. phase' = "deps" => deps' # <<>>
  BY DEF CheckDirs
<1>4. phase' \in {"deps", "aborted"}
  BY DEF CheckDirs
<1>5. SetupTypeOK'
  BY DEF CheckOK, SetupTypeOK, setupVars, listVars
<1> QED BY <1>2, <1>3, <1>4, <1>5 DEF CheckOK, CheckTypeOK, Phases, Stopped

LEMMA ChildFoldedTyped ==
    ASSUME CheckOK, NEW n \in Name, ChildFolded(n)
    PROVE  CheckOK' /\ PlanStep
<1>1. phase = "check" /\ stack # <<>> /\ LinkAt(fs, There(n))
  BY DEF CheckOK, CheckTypeOK, ChildFolded, LinkedDir, OpenDir, FoundDir, Found
<1>2. There(n) \in Path /\ Base(n) \in Path /\ Buf(n) \in Path
  BY <1>1, TopTyped, LinkBufPath DEF CheckOK, Buf
<1>3. Push(Push(links, RemoveOp(There(n))), MkdirOp(There(n))) \in Seq(Op)
  BY <1>2, PushTyped, NamedOpTyped DEF CheckOK, CheckTypeOK
<1>4. stack' \in Seq(Call) /\ stack' # <<>>
  BY <1>1, DoneTyped DEF ChildFolded
<1>5. at' \in Child
  BY <1>2 DEF ChildFolded, Child
<1>6. <<>> \in Seq(DepsCall)
  OBVIOUS
<1>7. CheckOK' /\ phase' \in {"deps"} \cup Stopped
  BY <1>2, <1>3, <1>4, <1>5, <1>6, CheckDirsTyped DEF ChildFolded
<1> QED BY <1>1, <1>7 DEF PlanStep, Planning, ChildFolded

LEMMA InstallTyped ==
    ASSUME CheckOK, stack # <<>>, NEW n \in Name
    PROVE  Install(n) \in Op
BY TopTyped, OpTyped, NamedOpTyped DEF Install

\* Every way to handle a child of the package.
LEMMA CheckChildTyped ==
    ASSUME CheckOK, NEW n \in Name, CheckChild(n)
    PROVE  CheckOK' /\ PlanStep
<1>1. phase = "check" /\ stack # <<>>
  BY DEF CheckOK, CheckTypeOK, CheckChild, ChildOwn, ChildExec, ChildCopied, ChildConflict,
         ChildProtected, ChildDir, ChildTraversed, ChildAutoTraverse, ChildForeign,
         ChildFolded, ChildMissing, FoundFile, FoundDir, Found, Missing, OpenDir, LinkedDir
<1>2. There(n) \in Path /\ Base(n) \in Path
  BY <1>1, TopTyped
<1>3. CASE ChildOwn(n)
  BY <1>1, <1>2, <1>3, SkipTyped, PlanTyped, NamedOpTyped DEF ChildOwn
<1>4. CASE ChildExec(n)
  <2>1. exec_of(n) \in {"", "exec", "exec-unstow"}
    BY DEF exec_of
  <2> QED BY <1>1, <1>2, <1>4, <2>1, PlanTyped, OpTyped DEF ChildExec
<1>5. CASE ChildCopied(n)
  BY <1>1, <1>2, <1>5, SkipTyped, PlanTyped, OpTyped DEF ChildCopied
<1>6. CASE ChildConflict(n)
  BY <1>1, <1>6, SkipTyped, ObstacleTyped DEF ChildConflict
<1>7. CASE ChildProtected(n)
  BY <1>1, <1>7, ObstacleTyped DEF ChildProtected
<1>8. CASE ChildDir(n)
  BY <1>1, <1>2, <1>8, DiveToTyped, SameLists DEF ChildDir, setupVars, listVars
<1>9. CASE ChildTraversed(n)
  <2>1. Buf(n) \in Path
    BY <1>9, LinkBufPath DEF ChildTraversed, Buf, CheckOK
  <2> QED BY <1>1, <1>9, <2>1, DiveToTyped, SameLists DEF ChildTraversed, setupVars, listVars
<1>10. CASE ChildAutoTraverse(n)
  <2>1. Buf(n) \in Path
    BY <1>10, LinkBufPath DEF ChildAutoTraverse, LinkedDir, Buf, CheckOK
  <2>2. trav' \subseteq Path /\ keep' \subseteq Path /\ ptargets' \subseteq Path
    BY <1>2, <1>10, ListsTyped DEF CheckedLinks, ChildAutoTraverse, CheckOK, SetupTypeOK
  <2> QED BY <1>1, <1>10, <2>1, <2>2, DiveToTyped DEF ChildAutoTraverse
<1>11. CASE ChildForeign(n)
  BY <1>1, <1>11, ObstacleTyped DEF ChildForeign
<1>12. CASE ChildFolded(n)
  BY <1>12, ChildFoldedTyped
<1>13. CASE ChildMissing(n)
  BY <1>1, <1>13, SkipTyped, PlanTyped, InstallTyped, StopTyped
     DEF ChildMissing, Planning, Stopped
<1> QED BY <1>3, <1>4, <1>5, <1>6, <1>7, <1>8, <1>9, <1>10, <1>11, <1>12, <1>13 DEF CheckChild
-----------------------------------------------------------------------------
LEMMA DepsTyped ==
    ASSUME CheckOK, phase = "deps", NEW n \in Name
    PROVE  /\ Len(deps) \in Nat \ {0} /\ Deps \in DepsCall
           /\ A(n) \in Path /\ B(n) \in Path /\ W(n) \in Path /\ Deps.w \in Path
<1>1. Len(deps) \in Nat \ {0} /\ Deps \in DepsCall
  BY DEF CheckOK, CheckTypeOK, Deps
<1> QED BY <1>1, AppendPath DEF A, B, W, DepsCall

\* The innermost call of checkDirs goes on with one name less to do.
LEMMA FewerTyped ==
    ASSUME CheckOK, phase = "deps", NEW n \in Name
    PROVE  /\ [deps EXCEPT ![Len(deps)].common = @ \ {n}] \in Seq(DepsCall) \ {<<>>}
           /\ [deps EXCEPT ![Len(deps)].rest = @ \ {n}] \in Seq(DepsCall) \ {<<>>}
<1> DEFINE i == Len(deps)
<1>1. i \in DOMAIN deps /\ deps[i] \in DepsCall /\ deps \in Seq(DepsCall)
  BY DepsTyped DEF CheckOK, CheckTypeOK, Deps
<1>2. /\ [deps[i] EXCEPT !.common = @ \ {n}] \in DepsCall
      /\ [deps[i] EXCEPT !.rest = @ \ {n}] \in DepsCall
  BY <1>1 DEF DepsCall
<1>3. \A d \in DepsCall : [deps EXCEPT ![i] = d] \in Seq(DepsCall) \ {<<>>}
  BY <1>1
<1> QED BY <1>2, <1>3

LEMMA CheckDepsTyped ==
    ASSUME CheckOK, NEW n \in Name, CheckDeps(n)
    PROVE  CheckOK' /\ PlanStep
<1>1. phase = "deps" /\ stack # <<>>
  BY DEF CheckOK, CheckTypeOK, CheckDeps, DepsDir, DepsHarmless, DepsConflict, DepsLink, Shared
<1>2. A(n) \in Path /\ B(n) \in Path /\ W(n) \in Path
  BY <1>1, DepsTyped
<1>3. CASE DepsDir(n)
  <2>1. Handled(n) \in Seq(DepsCall) /\ Push(links, MkdirOp(W(n))) \in Seq(Op)
    BY <1>1, <1>2, FewerTyped, PushTyped, NamedOpTyped DEF Handled, CheckOK, CheckTypeOK
  <2>2. stack' \in Seq(Call) /\ stack' # <<>> /\ at' \in Child
    BY <1>1, <1>3 DEF CheckOK, CheckTypeOK, DepsDir
  <2>3. CheckOK' /\ phase' \in {"deps"} \cup Stopped
    BY <1>2, <1>3, <2>1, <2>2, CheckDirsTyped DEF DepsDir
  <2> QED BY <1>1, <1>3, <2>3 DEF PlanStep, Planning, DepsDir
<1>4. CASE DepsHarmless(n)
  <2>1. deps' \in Seq(DepsCall) \ {<<>>}
    BY <1>1, <1>4, FewerTyped DEF DepsHarmless, Handled
  <2> QED BY <1>1, <1>4, <2>1
         DEF DepsHarmless, CheckOK, CheckTypeOK, SetupTypeOK, PlanStep, Planning, setupVars, listVars
<1>5. CASE DepsConflict(n)
  <2>1. CASE Stop("refused")
    BY <1>1, <2>1, StopTyped DEF Planning, Stopped
  <2>2. CASE ~Stop("refused")
    <3>1. /\ phase' = "check" /\ deps' = <<>> /\ at' = Nowhere
          /\ UNCHANGED <<stack, links, setupVars, fs>>
      BY <1>5, <2>2 DEF DepsConflict
    <3>2. at' \in Child /\ deps' \in Seq(DepsCall)
      BY <3>1, EmptyPath DEF Nowhere, Child
    <3> QED BY <1>1, <3>1, <3>2
           DEF CheckOK, CheckTypeOK, SetupTypeOK, PlanStep, Planning, Phases, setupVars, listVars
  <2> QED BY <2>1, <2>2
<1>6. CASE DepsLink(n)
  <2>1. deps' \in Seq(DepsCall) \ {<<>>} /\ links' \in Seq(Op)
    BY <1>1, <1>2, <1>6, FewerTyped, PushTyped, NamedOpTyped DEF DepsLink, CheckOK, CheckTypeOK
  <2> QED BY <1>1, <1>6, <2>1
         DEF DepsLink, CheckOK, CheckTypeOK, SetupTypeOK, PlanStep, Planning, setupVars, listVars
<1> QED BY <1>3, <1>4, <1>5, <1>6 DEF CheckDeps

\* A stack of which the last call has returned.
LEMMA Popped ==
    ASSUME NEW S, NEW s \in Seq(S), s # <<>>
    PROVE  /\ SubSeq(s, 1, Len(s) - 1) \in Seq(S)
           /\ Len(s) > 1 => SubSeq(s, 1, Len(s) - 1) # <<>>
<1> DEFINE t == SubSeq(s, 1, Len(s) - 1)
<1>1. Len(s) \in Nat /\ Len(s) - 1 \in 0..Len(s)
  OBVIOUS
<1>2. t \in Seq(S)
  BY <1>1
<1>3. Len(t) = Len(s) - 1
  BY <1>1, LenPrefix
<1>4. Len(s) > 1 => Len(t) > 0
  BY <1>1, <1>3
<1> HIDE DEF t
<1>5. Len(s) > 1 => t # <<>>
  BY <1>2, <1>4, NonEmpty
<1> QED BY <1>2, <1>5 DEF t

LEMMA DepsReturnTyped ==
    ASSUME CheckOK, DepsReturn
    PROVE  CheckOK' /\ PlanStep
<1>1. phase = "deps" /\ stack # <<>> /\ deps # <<>> /\ deps \in Seq(DepsCall)
  BY DEF CheckOK, CheckTypeOK, DepsReturn
<1>2. deps' \in Seq(DepsCall) /\ (phase' = "deps" => deps' # <<>>)
  BY <1>1, Popped DEF DepsReturn
<1>3. Deps.w \in Path
  <2>1. Deps \in DepsCall
    BY <1>1 DEF Deps
  <2> QED BY <2>1 DEF DepsCall
<1>4. links' \in Seq(Op)
  BY <1>3, EmptyPath, PushTyped, NamedOpTyped DEF DepsReturn, CheckOK, CheckTypeOK
<1>5. phase' \in {"deps", "dive"}
  BY DEF DepsReturn
<1> QED BY <1>1, <1>2, <1>4, <1>5
       DEF DepsReturn, CheckOK, CheckTypeOK, SetupTypeOK, PlanStep, Planning, Phases, setupVars, listVars

LEMMA SurfaceTyped ==
    ASSUME CheckOK, phase = "dive", Surface, links' \in Seq(Op)
    PROVE  CheckOK' /\ PlanStep
<1>1. at' \in Child
  BY EmptyPath DEF Surface, Nowhere, Child
<1> QED BY <1>1 DEF Surface, CheckOK, CheckTypeOK, SetupTypeOK, PlanStep, Planning, Phases, setupVars, listVars

LEMMA DiveTyped ==
    ASSUME CheckOK, DiveNotDir \/ DiveCopyDir \/ Dive
    PROVE  CheckOK' /\ PlanStep
<1>1. phase = "dive" /\ at \in Child /\ stack \in Seq(Call) /\ links \in Seq(Op)
  BY DEF CheckOK, CheckTypeOK, DiveNotDir, DiveCopyDir, Dive
<1>2. at.entry \in Path /\ at.base \in Path /\ at.into \in Path
  BY <1>1 DEF Child
<1>3. CASE DiveNotDir
  BY <1>1, <1>3, SurfaceTyped DEF DiveNotDir
<1>4. CASE DiveCopyDir
  <2>1. links' \in Seq(Op)
    BY <1>1, <1>2, <1>4, OpTyped, PushTyped DEF DiveCopyDir
  <2> QED BY <1>4, <2>1, SurfaceTyped DEF DiveCopyDir
<1>5. CASE Dive
  BY <1>1, <1>2, <1>5, EnterTyped DEF Dive, PlanStep, Planning
<1> QED BY <1>3, <1>4, <1>5

LEMMA CheckReturnTyped ==
    ASSUME CheckOK, CheckReturn
    PROVE  CheckOK' /\ PlanStep
<1>1. stack' \in Seq(Call) /\ stack' # <<>>
  BY Popped DEF CheckReturn, CheckOK, CheckTypeOK
<1> QED BY <1>1
       DEF CheckReturn, CheckOK, CheckTypeOK, SetupTypeOK, PlanStep, Planning, setupVars, listVars

\* The planner as a whole.
THEOREM CheckStepTyped ==
    ASSUME CheckOK, CheckStep
    PROVE  CheckOK' /\ PlanStep
BY CheckChildTyped, CheckDepsTyped, DepsReturnTyped, DiveTyped, CheckReturnTyped DEF CheckStep
-----------------------------------------------------------------------------
ExecOK == CheckOK /\ ExecTypeOK

\* What a step of the executor may do with the phase.
ExecPhases == phase \in {"check", "exec"} /\ phase' \in {"exec", "done", "failed"}

LEMMA CurrentTyped ==
    ASSUME ExecOK, todo # <<>>
    PROVE  /\ Current \in Op /\ Rest \in Seq(Op)
           /\ Current.origin \in Path /\ Current.target \in Path
<1>1. Current \in Op
  BY DEF ExecOK, ExecTypeOK, Current
<1>2. Rest \in Seq(Op)
  BY DEF ExecOK, ExecTypeOK, Rest
<1> QED BY <1>1, <1>2 DEF Op

\* An operation that goes on with a list of operations and some disk.
LEMMA GoOn ==
    ASSUME ExecOK, phase = "exec", UNCHANGED phase, Frame, Disk(fs'), todo' \in Seq(Op)
    PROVE  ExecOK' /\ ExecPhases
BY DEF ExecOK, ExecTypeOK, ExecPhases, CheckOK, CheckTypeOK, SetupTypeOK, Frame,
       checkVars, setupVars, listVars

LEMMA FailedTyped ==
    ASSUME ExecOK, phase = "exec", Failed, Frame
    PROVE  ExecOK' /\ ExecPhases
BY DEF ExecOK, ExecTypeOK, ExecPhases, CheckOK, CheckTypeOK, SetupTypeOK, Frame, Failed,
       Phases, checkVars, setupVars, listVars

LEMMA TryTyped ==
    ASSUME ExecOK, phase = "exec", todo # <<>>, Frame,
           NEW can \in BOOLEAN, NEW result, can => Disk(result), Try(can, result)
    PROVE  ExecOK' /\ ExecPhases
<1>1. CASE can
  BY <1>1, CurrentTyped, GoOn DEF Try
<1>2. CASE ~can
  BY <1>2, FailedTyped DEF Try
<1> QED BY <1>1, <1>2

LEMMA ParentRemovalTyped ==
    ASSUME NEW F, NEW p \in Path
    PROVE  ParentRemoval(F, p) \in Seq(Op)
<1>1. Parent(p) \in Path
  <2>1. CASE p = <<>>
    BY <2>1, EmptyPath DEF Parent, Path
  <2> QED BY <2>1, ParentPath
<1>2. RemoveOp(Parent(p)) \in Op
  BY <1>1, NamedOpTyped
<1> QED BY <1>2 DEF ParentRemoval

LEMMA RemovedTyped ==
    ASSUME ExecOK, phase = "exec", todo # <<>>, Frame,
           NEW p \in Path, NEW F, Disk(F), Removed(p, F)
    PROVE  ExecOK' /\ ExecPhases
<1>1. todo' \in Seq(Op)
  BY CurrentTyped, ParentRemovalTyped DEF Removed
<1> QED BY <1>1, GoOn DEF Removed

LEMMA RemoveTyped ==
    ASSUME ExecOK, ExecRemoveDir \/ ExecUnlink
    PROVE  ExecOK' /\ ExecPhases
<1> DEFINE p == Current.origin
<1>1. phase = "exec" /\ todo # <<>> /\ Frame
  BY DEF ExecRemoveDir, ExecUnlink, Doing
<1>2. p \in Path /\ Disk(fs)
  BY <1>1, CurrentTyped DEF ExecOK, CheckOK
<1>3. CASE Failed
  BY <1>1, <1>3, FailedTyped
<1>4. CASE Removed(p, fs)
  BY <1>1, <1>2, <1>4, RemovedTyped
<1>5. CASE (CanRmdir(fs, p) \/ CanUnlink(fs, p)) /\ Removed(p, Drop(fs, p))
  <2>1. Disk(Drop(fs, p))
    BY <1>2, <1>5, RmdirDisk, UnlinkDisk
  <2> QED BY <1>1, <1>2, <1>5, <2>1, RemovedTyped
<1> QED BY <1>3, <1>4, <1>5 DEF ExecRemoveDir, ExecUnlink

LEMMA MakeTyped ==
    ASSUME ExecOK, ExecMkdir \/ ExecSetLink
    PROVE  ExecOK' /\ ExecPhases
<1> DEFINE t == Current.target
<1>1. phase = "exec" /\ todo # <<>> /\ Frame
  BY DEF ExecMkdir, ExecSetLink, Doing
<1>2. t \in Path /\ Current.origin \in Path /\ Disk(fs)
  BY <1>1, CurrentTyped DEF ExecOK, CheckOK
<1>3. \A n \in Node : CanMake(fs, t) => Disk(Put(fs, Loc(fs, t), n))
  BY <1>2, MakeDisk
<1>4. CanMake(fs, t) \in BOOLEAN
  BY DEF CanMake, Changeable, IsDir, Lexists
<1>5. CASE ExecMkdir
  BY <1>1, <1>3, <1>5, NewNode, TryTyped DEF ExecMkdir, CanMake
<1>6. CASE ExecSetLink
  BY <1>1, <1>2, <1>3, <1>6, NewNode, TryTyped DEF ExecSetLink, CanMake
<1> QED BY <1>5, <1>6
-----------------------------------------------------------------------------
\* The rest of the list when a dir_copy is given up.
LEMMA DropSubsTyped ==
    ASSUME ExecOK PROVE DropSubs \in Seq(Op)
<1>1. todo \in Seq(Op) /\ Len(todo) \in Nat
  BY DEF ExecOK, ExecTypeOK
<1>2. Subs \subseteq 1..Len(todo)
  BY <1>1 DEF Subs
<1>3. Cardinality(Subs) \in Nat
  <2>1. IsFiniteSet(1..Len(todo))
    BY <1>1, FS_Interval
  <2>2. IsFiniteSet(Subs)
    BY <1>2, <2>1, FS_Subset
  <2> QED BY <2>2, FS_CardinalityType
<1> QED BY <1>1, <1>3 DEF DropSubs

LEMMA CopyFailedTyped ==
    ASSUME ExecOK, phase = "exec", todo # <<>>, Frame, CopyFailed
    PROVE  ExecOK' /\ ExecPhases
<1>1. todo' \in Seq(Op)
  BY CurrentTyped, DropSubsTyped DEF CopyFailed
<1> QED BY <1>1, GoOn DEF CopyFailed, ExecOK, CheckOK

LEMMA CallsTyped ==
    ASSUME ExecOK, NEW o \in Path, NEW t \in Path, NEW calls \in Calls(o, t)
    PROVE  calls \in Seq(Op)
<1> DEFINE names == IF Readable(fs, o) THEN Entries(fs, o) ELSE {}
<1>1. PICK s \in SetToSeqs(names) : calls = [i \in DOMAIN s |-> SubOp(o, t, s[i])]
  BY DEF Calls
<1>2. names \subseteq Name /\ IsFiniteSet(names)
  BY NameAssumption, FS_Subset DEF Entries
<1>3. Cardinality(names) \in Nat
  BY <1>2, FS_CardinalityType
<1>4. s \in [1..Cardinality(names) -> names]
  BY <1>1 DEF SetToSeqs
<1>5. \A n \in Name : SubOp(o, t, n) \in Op
  BY AppendPath, OpTyped DEF SubOp, MkOp, Op
<1> HIDE DEF names
<1>6. DOMAIN s = 1..Cardinality(names) /\ \A i \in DOMAIN s : s[i] \in Name
  BY <1>2, <1>4
<1>7. calls \in [1..Cardinality(names) -> Op]
  BY <1>1, <1>5, <1>6
<1> QED BY <1>3, <1>7

LEMMA CopyTyped ==
    ASSUME ExecOK, file_copy \/ dir_copy \/ ExecCommand
    PROVE  ExecOK' /\ ExecPhases
<1> DEFINE o == Current.origin  t == Current.target
<1>1. phase = "exec" /\ todo # <<>> /\ Frame
  BY DEF file_copy, dir_copy, ExecCommand, Doing
<1>2. o \in Path /\ t \in Path /\ Rest \in Seq(Op) /\ Disk(fs)
  BY <1>1, CurrentTyped DEF ExecOK, CheckOK
<1>3. \A c \in Path : CanOpenW(fs, t) => Disk(Write(fs, t, c))
  BY <1>2, WriteDisk
<1>4. CASE CopyFailed
  BY <1>1, <1>4, CopyFailedTyped
<1>5. CASE file_copy /\ ~CopyFailed
  <2>1. CanCopy(o, t) /\ fs' = Write(fs, t, Content(o, t)) /\ todo' = Rest /\ UNCHANGED phase
    BY <1>5 DEF file_copy
  <2>2. Content(o, t) \in Path
    BY <1>2, <2>1, EmptyPath DEF Content, CanCopy, IsFile, Disk, Node
  <2>3. Disk(fs')
    BY <1>3, <2>1, <2>2 DEF CanCopy
  <2> QED BY <1>1, <1>2, <2>1, <2>3, GoOn
<1>6. CASE dir_copy /\ ~CopyFailed
  <2>1. /\ Readable(fs, t) \/ CanMake(fs, t)
        /\ fs' = (IF Readable(fs, t) THEN fs ELSE Put(fs, Loc(fs, t), Dir))
        /\ \E calls \in Calls(o, t) : todo' = calls \o Rest
        /\ UNCHANGED phase
    BY <1>6 DEF dir_copy
  <2>2. todo' \in Seq(Op)
    BY <1>2, <2>1, CallsTyped
  <2>3. Disk(fs')
    BY <1>2, <2>1, MakeDisk, NewNode
  <2> QED BY <1>1, <2>1, <2>2, <2>3, GoOn
<1>7. CASE ExecCommand
  <2>1. fs' = fs \/ (CanOpenW(fs, t) /\ fs' = Write(fs, t, <<>>))
    BY <1>7 DEF ExecCommand
  <2>2. Disk(fs')
    BY <1>2, <1>3, <2>1, EmptyPath
  <2> QED BY <1>1, <1>2, <1>7, <2>2, GoOn DEF ExecCommand
<1> QED BY <1>4, <1>5, <1>6, <1>7

LEMMA ExecBeginTyped ==
    ASSUME ExecOK, ExecBegin
    PROVE  ExecOK' /\ ExecPhases
<1>1. phase = "check" /\ phase' \in {"exec", "done"} /\ todo = <<>>
  BY DEF ExecBegin, Planned, ExecOK, ExecTypeOK
<1>2. todo' \in Seq(Op) /\ (phase' # "exec" => todo' = <<>>)
  BY <1>1 DEF ExecBegin, ExecOK, ExecTypeOK, CheckOK, CheckTypeOK
<1>3. stack' \in Seq(Call) /\ links' \in Seq(Op)
  BY DEF ExecBegin
<1> QED BY <1>1, <1>2, <1>3
       DEF ExecBegin, ExecOK, ExecTypeOK, ExecPhases, CheckOK, CheckTypeOK, SetupTypeOK,
           Phases, setupVars, listVars

LEMMA ExecEndTyped ==
    ASSUME ExecOK, ExecEnd
    PROVE  ExecOK' /\ ExecPhases
BY DEF ExecEnd, ExecOK, ExecTypeOK, ExecPhases, CheckOK, CheckTypeOK, SetupTypeOK, Phases,
       Frame, checkVars, setupVars, listVars

\* The executor as a whole: every operation leaves a disk behind.
THEOREM ExecStepTyped ==
    ASSUME ExecOK, ExecStep
    PROVE  ExecOK' /\ ExecPhases
BY RemoveTyped, MakeTyped, CopyTyped, ExecBeginTyped, ExecEndTyped DEF ExecStep
-----------------------------------------------------------------------------
\* The one rmdir of the executor is not made for a directory that a name of
\* the keep list leads to, and no other operation takes a directory away.
THEOREM ExecStepKeeps ==
    ASSUME ExecOK, ExecStep, NEW k \in keep, DirAt(fs, k)
    PROVE  IsDir(fs', Stat(fs, k))
<1> DEFINE d == Stat(fs, k)  o == Current.origin  t == Current.target
<1>1. IsDir(fs, d) /\ Valid(fs, k) /\ Disk(fs)
  BY DEF DirAt, Valid, ExecOK, CheckOK
<1>2. CASE UNCHANGED fs
  BY <1>1, <1>2
<1>3. CASE ExecRemoveDir /\ ~UNCHANGED fs
  <2>1. /\ todo # <<>> /\ IsDir(fs, Loc(fs, o))
        /\ ~keep_dir(fs, o) /\ fs' = Drop(fs, o)
    BY <1>3 DEF ExecRemoveDir, Doing, Removed, Failed
  <2>2. o \in Path
    BY <2>1, CurrentTyped
  <2>3. Stat(fs, o) = Loc(fs, o) /\ Valid(fs, o)
    BY <1>1, <2>1, <2>2, StatOfDir
  <2>4. d # Loc(fs, o)
    BY <1>1, <2>1, <2>3 DEF keep_dir
  <2> QED BY <1>1, <2>1, <2>4, DropKeepsDirs
<1>4. CASE ExecUnlink /\ ~UNCHANGED fs
  <2>1. ~IsDir(fs, Loc(fs, o)) /\ fs' = Drop(fs, o)
    BY <1>4 DEF ExecUnlink, Removed, Failed
  <2> QED BY <1>1, <2>1, DropKeepsDirs
<1>5. CASE (ExecMkdir \/ ExecSetLink \/ dir_copy) /\ ~UNCHANGED fs
  <2>1. \E n : CanMake(fs, t) /\ fs' = Put(fs, Loc(fs, t), n)
    BY <1>5 DEF ExecMkdir, ExecSetLink, dir_copy, Try, Failed, CopyFailed
  <2>2. ~IsDir(fs, Loc(fs, t))
    BY <2>1 DEF CanMake, Lexists, IsDir
  <2> QED BY <1>1, <2>1, <2>2, PutKeepsDirs
<1>6. CASE (file_copy \/ ExecCommand) /\ ~UNCHANGED fs
  <2>1. \E c : CanOpenW(fs, t) /\ fs' = Write(fs, t, c)
    BY <1>6 DEF file_copy, ExecCommand, CanCopy, CopyFailed
  <2>2. ~IsDir(fs, Stat(fs, t))
    BY <2>1 DEF CanOpenW, IsFile, IsDir
  <2> QED BY <1>1, <2>1, <2>2, PutKeepsDirs DEF Write
<1> QED BY <1>2, <1>3, <1>4, <1>5, <1>6 DEF ExecStep, ExecBegin, ExecEnd
-----------------------------------------------------------------------------
(***************************************************************************)
(* The types of the program.                                               *)
(***************************************************************************)
LEMMA PackageTyped ==
    ASSUME NEW q \in Seq(Pkg), q # <<>>
    PROVE  PkgDir(Head(q)) \in Path
<1>1. Head(q) \in Name
  BY SetupAssumption
<1> QED BY <1>1, AppendPath, SetupAssumption DEF PkgDir

LEMMA HostTyped ==
    ASSUME host \in DOMAIN Hosts
    PROVE  /\ Config \in ConfigType
           /\ Hosts[host].commands \subseteq Command
           /\ \A F \in Hosts[host].disks : Disk(F)
           /\ Hosts[host].edits \subseteq Edit
BY SetupAssumption DEF Config

LEMMA TypeInit == Init => TypeOK
<1> SUFFICES ASSUME Init PROVE TypeOK
  OBVIOUS
<1>1. Disk(fs) /\ Disk(before)
  BY HostTyped DEF Init
<1>2. SetupTypeOK
  BY EmptyPath DEF Init, SetupTypeOK, NoOptions, Options
<1>3. CheckTypeOK /\ ExecTypeOK
  BY EmptyPath DEF Init, CheckTypeOK, ExecTypeOK, Nowhere, Child, Phases
<1>4. MainTypeOK
  <2>1. queue \in Seq(Pkg)
    BY DEF Init
  <2>2. again \in BOOLEAN
    BY DEF Init
  <2>3. rc \in {0, 1, 2, 3, 4, Killed} /\ (phase # "idle" => queue # <<>>)
    BY DEF Init
  <2> QED BY <1>1, <2>1, <2>2, <2>3 DEF MainTypeOK
<1> QED BY <1>1, <1>2, <1>3, <1>4 DEF TypeOK

LEMMA SelectTyped ==
    ASSUME NEW q \in Seq(Pkg), q # <<>>, NEW o \in Options, Select(q, o)
    PROVE  /\ opt' \in Options /\ package' \in Path
           /\ queue' \in Seq(Pkg) /\ queue' # <<>> /\ again' \in BOOLEAN
           /\ phase' = "begin"
BY PackageTyped DEF Select, Options

LEMMA StartTyped ==
    ASSUME TypeOK, NEW c \in Hosts[host].commands, Start(c) \/ StartUnknown(c)
    PROVE  TypeOK'
<1>1. c.pkgs \in Seq(Pkg) /\ c.pkgs # <<>> /\ c.opt \in Options /\ Config \in ConfigType
  BY HostTyped DEF TypeOK, SetupTypeOK, Command
<1>2. CASE Start(c)
  <2>1. /\ opt' \in Options /\ package' \in Path
        /\ queue' \in Seq(Pkg) /\ queue' # <<>> /\ again' \in BOOLEAN
        /\ phase' = "begin"
    BY <1>1, <1>2, SelectTyped DEF Start
  <2>2. /\ Config.traverse \subseteq Path /\ Config.keepDirs \subseteq Path
        /\ Config.protectTargets \subseteq Path
        /\ Config.stowDirs \subseteq Path /\ Config.protectDirs \subseteq Path
        /\ StowDir \in Path
    BY <1>1, SetupAssumption DEF ConfigType
  <2>3. trav' \subseteq Path /\ keep' \subseteq Path /\ ptargets' \subseteq Path
    BY <1>2, <2>2, ListsTyped DEF Start, TypeOK, CheckedLinks
  <2>8. stow_dirs' \subseteq Path /\ protect_dirs' \subseteq Path
    BY <1>2, <2>2 DEF Start, CheckedDirs
  <2>4. UNCHANGED <<host, fs, stack, deps, at, links, todo, rc, before>>
    BY <1>2 DEF Start, checkVars, execVars
  <2>5. SetupTypeOK'
    BY <2>1, <2>3, <2>4, <2>8 DEF TypeOK, SetupTypeOK
  <2>6. CheckTypeOK' /\ ExecTypeOK'
    BY <1>2, <2>1, <2>4 DEF Start, TypeOK, CheckTypeOK, ExecTypeOK, Phases
  <2>7. MainTypeOK'
    BY <2>1, <2>4 DEF TypeOK, MainTypeOK
  <2> QED BY <2>4, <2>5, <2>6, <2>7 DEF TypeOK
<1>3. CASE StartUnknown(c)
  BY <1>3 DEF StartUnknown, TypeOK, SetupTypeOK, CheckTypeOK, ExecTypeOK, MainTypeOK,
              setupVars, listVars, checkVars, execVars
<1> QED BY <1>2, <1>3

LEMMA BeginPassTyped ==
    ASSUME TypeOK, BeginPass PROVE TypeOK'
<1>1. CheckOK
  BY DEF TypeOK, CheckOK
<1>2. package \in Path /\ Target \in Path /\ <<>> \in Seq(Call)
  BY SetupAssumption DEF TypeOK, SetupTypeOK
<1>3. CheckOK' /\ phase' \in {"check"} \cup Stopped /\ UNCHANGED fs
  BY <1>1, <1>2, EnterTyped DEF BeginPass
<1>4. ExecTypeOK'
  BY <1>3 DEF BeginPass, TypeOK, ExecTypeOK, execVars, Stopped
<1>5. MainTypeOK'
  BY DEF BeginPass, TypeOK, MainTypeOK
<1> QED BY <1>3, <1>4, <1>5 DEF CheckOK, TypeOK

LEMMA AgainTyped ==
    ASSUME TypeOK, Again PROVE TypeOK'
<1>1. opt' \in Options
  BY DEF Again, TypeOK, SetupTypeOK, Options
<1> QED BY <1>1 DEF Again, TypeOK, SetupTypeOK, CheckTypeOK, ExecTypeOK, MainTypeOK, Phases,
                    listVars, checkVars, execVars

LEMMA NextPackageTyped ==
    ASSUME TypeOK, NextPackage PROVE TypeOK'
<1>1. Tail(queue) \in Seq(Pkg) /\ Tail(queue) # <<>> /\ opt \in Options
  <2>1. queue \in Seq(Pkg) /\ Len(queue) > 1 /\ opt \in Options
    BY DEF NextPackage, TypeOK, MainTypeOK, SetupTypeOK
  <2>2. Tail(queue) \in Seq(Pkg) /\ Len(Tail(queue)) > 0
    BY <2>1
  <2>3. Tail(queue) # <<>>
    BY <2>2, NonEmpty
  <2> QED BY <2>1, <2>2, <2>3
<1>2. /\ opt' \in Options /\ package' \in Path
      /\ queue' \in Seq(Pkg) /\ queue' # <<>> /\ again' \in BOOLEAN
      /\ phase' = "begin"
  BY <1>1, SelectTyped DEF NextPackage
<1> QED BY <1>2 DEF NextPackage, TypeOK, SetupTypeOK, CheckTypeOK, ExecTypeOK, MainTypeOK,
                    Phases, listVars, checkVars, execVars

LEMMA QuitTyped ==
    ASSUME TypeOK, NEW code \in {0, 1, 2, 3, 4, Killed}, Quit(code) PROVE TypeOK'
<1>1. SetupTypeOK'
  BY EmptyPath DEF Quit, TypeOK, SetupTypeOK, NoOptions, Options
<1>2. CheckTypeOK' /\ ExecTypeOK'
  BY EmptyPath DEF Quit, CheckTypeOK, ExecTypeOK, Nowhere, Child, Phases
<1>3. Disk(fs)' /\ Disk(before)'
  BY DEF Quit, TypeOK
<1>4. queue' \in Seq(Pkg)
  BY DEF Quit
<1>5. again' \in BOOLEAN
  BY DEF Quit
<1>6. rc' \in {0, 1, 2, 3, 4, Killed} /\ phase' = "idle"
  BY DEF Quit
<1>7. MainTypeOK'
  BY <1>3, <1>4, <1>5, <1>6 DEF MainTypeOK
<1> QED BY <1>1, <1>2, <1>3, <1>7 DEF TypeOK

LEMMA MainFrame ==
    ASSUME TypeOK, UNCHANGED mainVars, phase # "idle" PROVE MainTypeOK'
BY DEF TypeOK, MainTypeOK, mainVars

LEMMA CheckTyped ==
    ASSUME TypeOK, Check PROVE TypeOK'
<1>1. CheckOK' /\ PlanStep
  BY CheckStepTyped DEF TypeOK, CheckOK, Check
<1>2. ExecTypeOK'
  BY <1>1 DEF TypeOK, ExecTypeOK, Check, execVars, PlanStep, Planning, Stopped
<1>3. MainTypeOK'
  BY <1>1, MainFrame DEF Check, PlanStep, Planning
<1> QED BY <1>1, <1>2, <1>3 DEF TypeOK, CheckOK

LEMMA ExecTyped ==
    ASSUME TypeOK, Exec PROVE TypeOK'
<1>1. ExecOK' /\ ExecPhases
  BY ExecStepTyped DEF TypeOK, CheckOK, ExecOK, Exec
<1>2. MainTypeOK'
  BY <1>1, MainFrame DEF Exec, ExecPhases
<1> QED BY <1>1, <1>2 DEF TypeOK, ExecOK, CheckOK

\* What a user makes in the middle of a command leaves a tree.
LEMMA EditTyped ==
    ASSUME TypeOK, UserEdit PROVE TypeOK'
<1>1. PICK e \in Hosts[host].edits :
          CanMake(fs, e.place) /\ fs' = Put(fs, Loc(fs, e.place), e.node)
  BY DEF UserEdit
<1>2. e.place \in Path /\ e.node \in Node
  BY HostTyped DEF TypeOK, SetupTypeOK, Edit
<1>3. Disk(fs')
  BY <1>1, <1>2, MakeDisk DEF TypeOK
<1> QED BY <1>3 DEF UserEdit, TypeOK, SetupTypeOK, CheckTypeOK, ExecTypeOK, MainTypeOK,
                    setupVars, listVars, checkVars, execVars, mainVars

LEMMA TypeNext == TypeOK /\ [Next]_vars => TypeOK'
<1> SUFFICES ASSUME TypeOK, [Next]_vars PROVE TypeOK'
  OBVIOUS
<1>1. CASE User
  BY <1>1, StartTyped DEF User
<1>2. CASE BeginPass
  BY <1>2, BeginPassTyped
<1>3. CASE Check
  BY <1>3, CheckTyped
<1>4. CASE Exec
  BY <1>4, ExecTyped
<1>5. CASE Again
  BY <1>5, AgainTyped
<1>6. CASE NextPackage
  BY <1>6, NextPackageTyped
<1>7. CASE Return
  BY <1>7, QuitTyped DEF Return
<1>8. CASE Die
  BY <1>8, QuitTyped DEF Die
<1>9. CASE UserEdit
  BY <1>9, EditTyped
<1>10. CASE UNCHANGED vars
  BY <1>10 DEF vars, TypeOK, SetupTypeOK, CheckTypeOK, ExecTypeOK, MainTypeOK,
              setupVars, listVars, checkVars, execVars, mainVars
<1> QED BY <1>1, <1>2, <1>3, <1>4, <1>5, <1>6, <1>7, <1>8, <1>9, <1>10 DEF Next, Process

\* Whatever is stowed, removed, copied or killed half-way, the disk stays a
\* tree, the stacks of the planner hold calls and the plan operations.
THEOREM TypeCorrect == Spec => []TypeOK
BY TypeInit, TypeNext, PTL DEF Spec
-----------------------------------------------------------------------------
(***************************************************************************)
(* Planning changes nothing.  "before" is the disk when the pass began; it *)
(* is still the disk as long as check runs, a dry run never gets into the  *)
(* loop of exec_list, so a pass that ends without having got there leaves  *)
(* the disk it found.                                                      *)
(***************************************************************************)
Untouched == Planning \cup Stopped

PassInv ==
    /\ phase \in Untouched => fs = before
    /\ phase = "exec" => ~Dry
    /\ phase = "done" /\ Dry => fs = before

LEMMA PassInit == Init => PassInv
BY DEF Init, PassInv, Untouched, Planning, Stopped

LEMMA PassNext == TypeOK /\ PassInv /\ [Next]_vars => PassInv'
<1> SUFFICES ASSUME TypeOK, PassInv, [Next]_vars PROVE PassInv'
  OBVIOUS
<1> USE DEF Untouched, Planning, Stopped
<1>1. CASE User
  <2>1. phase' \in {"idle", "begin"}
    BY <1>1 DEF User, Start, StartUnknown, Select, Known
  <2> QED BY <2>1 DEF PassInv
<1>2. CASE BeginPass
  <2>1. <<>> \in Seq(Call) /\ package \in Path /\ Target \in Path /\ CheckOK
    BY SetupAssumption DEF TypeOK, SetupTypeOK, CheckOK
  <2>2. phase' \in {"check"} \cup Stopped /\ fs' = fs /\ before' = fs
    BY <1>2, <2>1, EnterTyped DEF BeginPass
  <2> QED BY <2>2 DEF PassInv
<1>3. CASE Check
  <2>1. PlanStep /\ before' = before
    BY <1>3, CheckStepTyped DEF Check, TypeOK, CheckOK, mainVars
  <2> QED BY <2>1 DEF PlanStep, PassInv
<1>4. CASE Exec
  <2>1. ExecPhases /\ before' = before
    BY <1>4, ExecStepTyped DEF Exec, TypeOK, CheckOK, ExecOK, mainVars
  <2>2. opt' = opt
    BY <1>4 DEF Exec, ExecStep, ExecBegin, ExecRemoveDir, ExecUnlink, ExecMkdir, ExecSetLink,
                file_copy, dir_copy, ExecCommand, ExecEnd, Frame, setupVars, listVars
  <2>3. CASE ExecBegin
    BY <2>1, <2>2, <2>3 DEF ExecBegin, Planned, Dry, PassInv
  <2>4. CASE ~ExecBegin
    <3>1. phase = "exec"
      BY <1>4, <2>4 DEF Exec, ExecStep, ExecRemoveDir, ExecUnlink, ExecMkdir, ExecSetLink,
                file_copy, dir_copy, ExecCommand, ExecEnd, Doing
    <3> QED BY <2>1, <2>2, <3>1 DEF ExecPhases, Dry, PassInv
  <2> QED BY <2>3, <2>4
<1>5. CASE Again
  BY <1>5 DEF Again, PassInv
<1>6. CASE NextPackage
  BY <1>6 DEF NextPackage, Select, PassInv
<1>7. CASE Return \/ Die
  <2>1. phase' = "idle"
    BY <1>7 DEF Return, Die, Quit
  <2> QED BY <2>1 DEF PassInv
<1>8. CASE UserEdit
  BY <1>8 DEF UserEdit, setupVars, listVars, mainVars, PassInv, Dry
<1>9. CASE UNCHANGED vars
  BY <1>9 DEF vars, setupVars, listVars, mainVars, PassInv, Dry
<1> QED BY <1>1, <1>2, <1>3, <1>4, <1>5, <1>6, <1>7, <1>8, <1>9 DEF Next, Process

\* A command that is refused, a dry run and -c leave the disk as it was,
\* for any package, target, configuration and options (check is called
\* before exec_list, and exec_list returns before its loop).
THEOREM NothingDoneUnlessExecuted == Spec => []NothingDone
<1>1. PassInv => NothingDone
  BY DEF PassInv, NothingDone, Untouched, Planning, Stopped
<1>2. Spec => []PassInv
  BY TypeCorrect, PassInit, PassNext, PTL DEF Spec
<1> QED BY <1>1, <1>2, PTL
-----------------------------------------------------------------------------
\* The keep list is obeyed on every disk and under every configuration: what
\* one of its names leads to is there after each step, also when unstow
\* comes to it by another name (exec_list and its REMOVE of parents).
THEOREM KeepListObeyed == Spec => KeptDirsStay
<1>1. TypeOK /\ [Next]_vars => [\A k \in keep : DirAt(fs, k) => IsDir(fs', Stat(fs, k))]_vars
  <2> SUFFICES ASSUME TypeOK, Next, NEW k \in keep, DirAt(fs, k)
               PROVE  IsDir(fs', Stat(fs, k))
    OBVIOUS
  <2>1. CASE Exec
    BY <2>1, ExecStepKeeps DEF Exec, TypeOK, CheckOK, ExecOK
  <2>2. CASE Check
    <3>1. UNCHANGED fs
      BY <2>2, CheckStepTyped DEF Check, TypeOK, CheckOK, PlanStep
    <3> QED BY <3>1 DEF DirAt
  <2>3. CASE BeginPass
    <3>1. UNCHANGED fs
      BY <2>3 DEF BeginPass, Enter, Stop
    <3> QED BY <3>1 DEF DirAt
  <2>4. CASE User \/ Again \/ NextPackage \/ Return \/ Die
    <3>1. UNCHANGED fs
      BY <2>4 DEF User, Start, StartUnknown, Again, NextPackage, Return, Die, Quit
    <3> QED BY <3>1 DEF DirAt
  <2>5. CASE UserEdit
    <3>1. PICK e \in Hosts[host].edits :
              CanMake(fs, e.place) /\ fs' = Put(fs, Loc(fs, e.place), e.node)
      BY <2>5 DEF UserEdit
    <3>2. ~IsDir(fs, Loc(fs, e.place)) /\ IsDir(fs, Stat(fs, k))
      BY <3>1 DEF CanMake, Lexists, IsDir, DirAt
    <3> QED BY <3>1, <3>2, PutKeepsDirs
  <2> QED BY <2>1, <2>2, <2>3, <2>4, <2>5 DEF Next, Process
<1> QED BY <1>1, TypeCorrect, PTL DEF Spec, KeptDirsStay
-----------------------------------------------------------------------------
(***************************************************************************)
(* Texts.  FlattenSeq is a recursive function; what it computes for every  *)
(* path follows from the least number of names for which it would not.     *)
(***************************************************************************)
\* A set of natural numbers has a least element.
LEMMA Least ==
    ASSUME NEW T, T \subseteq Nat, T # {}
    PROVE  \E m \in T : \A k \in T : m <= k
<1> DEFINE R == OpToRel(<, Nat)
<1>1. IsWellFoundedOn(R, Nat)
  BY NatLessThanWellFounded
<1>2. \A k, m \in Nat : k < m => <<k, m>> \in R
  BY DEF OpToRel
<1> HIDE DEF R
<1>3. PICK m \in T : \A k \in T : <<k, m>> \notin R
  BY <1>1, WFMin
<1>4. SUFFICES ASSUME NEW k \in T, ~(m <= k) PROVE FALSE
  OBVIOUS
<1>5. k \in Nat /\ m \in Nat /\ k < m
  BY <1>4
<1>6. <<k, m>> \in R
  BY <1>2, <1>5
<1> QED BY <1>3, <1>6

\* Induction from 1 up to N, for a set in place of an operator.
LEMMA FromOneTo ==
    ASSUME NEW N \in Nat, NEW T, 1 \in T, \A n \in 1..(N - 1) : n \in T => n + 1 \in T
    PROVE  \A n \in 1..N : n \in T
<1> DEFINE Bad == {n \in 1..N : n \notin T}
<1>1. SUFFICES ASSUME Bad # {} PROVE FALSE
  OBVIOUS
<1>2. Bad \subseteq Nat
  OBVIOUS
<1>3. PICK m \in Bad : \A k \in Bad : m <= k
  <2> HIDE DEF Bad
  <2> QED BY <1>1, <1>2, Least
<1>4. m \in 2..N /\ m - 1 \notin Bad /\ m - 1 \in 1..(N - 1)
  BY <1>3
<1>5. m - 1 + 1 = m
  BY <1>4
<1> QED BY <1>3, <1>4, <1>5

\* The function of FlattenSeq: f[i] is the text of the first i pieces.
Joins(f, s) == f = [i \in 1..Len(s) |-> IF i = 1 THEN s[i] ELSE f[i - 1] \o s[i]]

LEMMA JoinsStep ==
    ASSUME NEW s \in Seq(Text), NEW f, Joins(f, s)
    PROVE  /\ \A i \in 1..Len(s) : f[i] = IF i = 1 THEN s[i] ELSE f[i - 1] \o s[i]
           /\ \A i \in 1..(Len(s) - 1) : i + 1 \in 1..Len(s) /\ i \in 1..Len(s) /\ f[i + 1] = f[i] \o s[i + 1]
<1>1. \A i \in 1..Len(s) : f[i] = IF i = 1 THEN s[i] ELSE f[i - 1] \o s[i]
  BY DEF Joins
<1>2. ASSUME NEW i \in 1..(Len(s) - 1)
      PROVE  i + 1 \in 1..Len(s) /\ i \in 1..Len(s) /\ f[i + 1] = f[i] \o s[i + 1]
  <2>1. PICK k \in 1..Len(s) : k = i + 1
    OBVIOUS
  <2>2. k # 1 /\ k - 1 = i /\ i \in 1..Len(s)
    BY <2>1
  <2>3. f[k] = f[k - 1] \o s[k]
    BY <1>1, <2>2
  <2> QED BY <2>1, <2>2, <2>3
<1> QED BY <1>1, <1>2

LEMMA TextJoin ==
    ASSUME NEW a \in Text, NEW b \in Text
    PROVE  a \o b \in Text
BY DEF Text

LEMMA JoinsTyped ==
    ASSUME NEW s \in Seq(Text), NEW f, Joins(f, s)
    PROVE  \A i \in 1..Len(s) : f[i] \in Text
<1>1. CASE Len(s) = 0
  BY <1>1
<1>2. CASE Len(s) > 0
  <2> DEFINE T == {i \in 1..Len(s) : f[i] \in Text}
  <2>1. 1 \in T
    <3>1. 1 \in 1..Len(s) /\ s[1] \in Text
      BY <1>2
    <3>2. f[1] = s[1]
      BY <3>1, JoinsStep
    <3> QED BY <3>1, <3>2
  <2>2. ASSUME NEW i \in 1..(Len(s) - 1), i \in T PROVE i + 1 \in T
    <3>1. f[i + 1] = f[i] \o s[i + 1] /\ i + 1 \in 1..Len(s)
      BY JoinsStep
    <3>2. f[i] \in Text /\ s[i + 1] \in Text
      BY <2>2, <3>1
    <3>3. f[i + 1] \in Text
      BY <3>1, <3>2, TextJoin
    <3> QED BY <3>1, <3>3
  <2>3. Len(s) \in Nat
    OBVIOUS
  <2> HIDE DEF T
  <2>4. \A i \in 1..Len(s) : i \in T
    BY <2>1, <2>2, <2>3, FromOneTo
  <2> QED BY <2>4 DEF T
<1> QED BY <1>1, <1>2

LEMMA JoinsExists ==
    ASSUME NEW s \in Seq(Text)
    PROVE  \E f : Joins(f, s)
<1> DEFINE Step(g, i) == g[i] = IF i = 1 THEN s[i] ELSE g[i - 1] \o s[i]
           Good == {n \in 1..Len(s) : \E g : g = [i \in 1..n |-> g[i]] /\ \A i \in 1..n : Step(g, i)}
<1>1. CASE Len(s) = 0
  <2>1. Joins([i \in 1..0 |-> s], s)
    BY <1>1 DEF Joins
  <2> QED BY <2>1
<1>2. CASE Len(s) > 0
  <2>1. 1 \in Good
    <3> DEFINE g == [i \in 1..1 |-> s[1]]
    <3>1. g = [i \in 1..1 |-> g[i]] /\ \A i \in 1..1 : Step(g, i)
      OBVIOUS
    <3>2. 1 \in 1..Len(s)
      BY <1>2
    <3> HIDE DEF g, Step
    <3> QED BY <3>1, <3>2
  <2>2. ASSUME NEW n \in 1..(Len(s) - 1), n \in Good PROVE n + 1 \in Good
    <3>1. PICK g : g = [i \in 1..n |-> g[i]] /\ \A i \in 1..n : Step(g, i)
      BY <2>2
    <3> DEFINE h == [i \in 1..(n + 1) |-> IF i <= n THEN g[i] ELSE g[n] \o s[n + 1]]
    <3>2. h = [i \in 1..(n + 1) |-> h[i]]
      OBVIOUS
    <3>3. ASSUME NEW i \in 1..(n + 1) PROVE Step(h, i)
      <4>1. CASE i <= n
        <5>1. i \in 1..n /\ h[i] = g[i] /\ (i # 1 => h[i - 1] = g[i - 1])
          BY <4>1
        <5> QED BY <3>1, <5>1
      <4>2. CASE i = n + 1
        <5>1. i # 1 /\ i - 1 = n /\ ~(i <= n) /\ n \in 1..(n + 1) /\ n <= n
          BY <4>2
        <5>2. h[n] = g[n]
          BY <5>1
        <5>3. h[i] = g[n] \o s[n + 1]
          BY <5>1
        <5> HIDE DEF h
        <5> QED BY <4>2, <5>1, <5>2, <5>3
      <4> QED BY <4>1, <4>2
    <3>4. n + 1 \in 1..Len(s)
      OBVIOUS
    <3> HIDE DEF h, Step
    <3> QED BY <3>2, <3>3, <3>4
  <2>3. Len(s) \in Nat /\ Len(s) \in 1..Len(s)
    BY <1>2
  <2> HIDE DEF Good
  <2>4. \A n \in 1..Len(s) : n \in Good
    BY <2>1, <2>2, <2>3, FromOneTo
  <2>5. PICK g : g = [i \in 1..Len(s) |-> g[i]] /\ \A i \in 1..Len(s) : Step(g, i)
    BY <2>3, <2>4 DEF Good
  <2>6. Joins(g, s)
    BY <2>5 DEF Joins
  <2> QED BY <2>6
<1>3. Len(s) \in Nat
  OBVIOUS
<1> QED BY <1>1, <1>2, <1>3

LEMMA Flattened ==
    ASSUME NEW s \in Seq(Text), s # <<>>
    PROVE  \E f : Joins(f, s) /\ FlattenSeq(s) = f[Len(s)]
<1>1. Len(s) # 0
  OBVIOUS
<1>2. FlattenSeq(s) = (CHOOSE f : Joins(f, s))[Len(s)]
  BY <1>1 DEF FlattenSeq, Joins
<1> QED BY <1>2, JoinsExists

\* One piece more is one text more at the end.
LEMMA FlattenAppend ==
    ASSUME NEW s \in Seq(Text), NEW x \in Text
    PROVE  FlattenSeq(Append(s, x)) = FlattenSeq(s) \o x
<1> DEFINE t == Append(s, x)
           N == Len(s)
<1>1. t \in Seq(Text) /\ t # <<>> /\ Len(t) = N + 1 /\ t[N + 1] = x /\ N \in Nat
  OBVIOUS
<1>2. \A i \in 1..N : t[i] = s[i]
  OBVIOUS
<1> HIDE DEF t
<1>3. PICK h : Joins(h, t) /\ FlattenSeq(t) = h[N + 1]
  BY <1>1, Flattened
<1>4. CASE s = <<>>
  <2>1. N = 0 /\ FlattenSeq(s) = <<>> /\ h[1] = x
    <3>1. 1 \in 1..Len(t) /\ N = 0
      BY <1>1, <1>4
    <3>2. h[1] = t[1]
      BY <1>1, <1>3, <3>1, JoinsStep
    <3>3. FlattenSeq(s) = <<>>
      BY <1>4 DEF FlattenSeq
    <3> QED BY <1>1, <3>1, <3>2, <3>3
  <2>2. <<>> \o x = x
    BY DEF Text
  <2> QED BY <1>3, <2>1, <2>2 DEF t
<1>5. CASE s # <<>>
  <2>1. PICK f : Joins(f, s) /\ FlattenSeq(s) = f[N]
    BY <1>5, Flattened
  <2> DEFINE T == {i \in 1..N : f[i] = h[i]}
  <2>2. N > 0 /\ 1 \in 1..N /\ 1 \in 1..Len(t) /\ N \in 1..(Len(t) - 1)
    BY <1>1, <1>5
  <2>3. 1 \in T
    BY <1>1, <1>2, <1>3, <2>1, <2>2, JoinsStep
  <2>4. ASSUME NEW i \in 1..(N - 1), i \in T PROVE i + 1 \in T
    <3>1. i + 1 \in 1..N /\ f[i + 1] = f[i] \o s[i + 1]
      BY <2>1, JoinsStep
    <3>2. i \in 1..(Len(t) - 1)
      BY <1>1
    <3>3. h[i + 1] = h[i] \o t[i + 1]
      BY <1>1, <1>3, <3>2, JoinsStep
    <3> QED BY <1>2, <2>4, <3>1, <3>3
  <2> HIDE DEF T
  <2>5. \A i \in 1..N : i \in T
    BY <1>1, <2>3, <2>4, FromOneTo
  <2>6. f[N] = h[N]
    BY <1>1, <2>2, <2>5 DEF T
  <2>7. h[N + 1] = h[N] \o x
    BY <1>1, <1>3, <2>2, JoinsStep
  <2> QED BY <1>3, <2>1, <2>6, <2>7 DEF t
<1> QED BY <1>4, <1>5

LEMMA Piece ==
    ASSUME NEW n \in Name
    PROVE  <<"/">> \o Spelling[n] \in Text \ {<<>>}
<1>1. Spelling[n] \in Seq(Char \ {"/"}) /\ "/" \in Char
  BY SetupAssumption
<1>2. Spelling[n] \in Seq(Char)
  BY <1>1
<1> QED BY <1>1, <1>2 DEF Text

LEMMA Pieces ==
    ASSUME NEW p \in Path
    PROVE  [i \in DOMAIN p |-> <<"/">> \o Spelling[p[i]]] \in Seq(Text)
<1>1. \A i \in DOMAIN p : <<"/">> \o Spelling[p[i]] \in Text
  <2>1. \A i \in DOMAIN p : p[i] \in Name
    BY DEF Path
  <2> QED BY <2>1, Piece
<1>2. DOMAIN p = 1..Len(p) /\ Len(p) \in Nat
  BY DEF Path
<1> DEFINE piece(i) == <<"/">> \o Spelling[p[i]]
<1> HIDE DEF piece
<1>3. [i \in 1..Len(p) |-> piece(i)] \in Seq(Text)
  BY <1>1, <1>2 DEF piece
<1> QED BY <1>2, <1>3 DEF piece

LEMMA TextTyped ==
    ASSUME NEW p \in Path
    PROVE  TextOf(p) \in Text
<1> DEFINE s == [i \in DOMAIN p |-> <<"/">> \o Spelling[p[i]]]
<1>1. s \in Seq(Text)
  BY Pieces
<1> HIDE DEF s
<1>2. CASE s = <<>>
  BY <1>2 DEF TextOf, FlattenSeq, s, Text
<1>3. CASE s # <<>>
  <2>1. PICK f : Joins(f, s) /\ FlattenSeq(s) = f[Len(s)]
    BY <1>1, <1>3, Flattened
  <2>2. Len(s) \in 1..Len(s)
    BY <1>1, <1>3
  <2> QED BY <1>1, <2>1, <2>2, JoinsTyped DEF TextOf, s
<1> QED BY <1>2, <1>3

LEMMA TextAppend ==
    ASSUME NEW p \in Path, NEW n \in Name
    PROVE  TextOf(Append(p, n)) = TextOf(p) \o (<<"/">> \o Spelling[n])
<1> DEFINE s == [i \in DOMAIN p |-> <<"/">> \o Spelling[p[i]]]
           x == <<"/">> \o Spelling[n]
           q == Append(p, n)
           t == [i \in DOMAIN q |-> <<"/">> \o Spelling[q[i]]]
<1>1. s \in Seq(Text) /\ x \in Text
  BY Pieces, Piece
<1>2. /\ Len(p) \in Nat /\ DOMAIN p = 1..Len(p) /\ DOMAIN q = 1..(Len(p) + 1)
      /\ \A i \in 1..Len(p) : q[i] = p[i] /\ q[Len(p) + 1] = n
  BY DEF Path
<1>3. Len(s) = Len(p)
  BY <1>2
<1>4. t = [i \in 1..(Len(s) + 1) |-> IF i = Len(s) + 1 THEN x ELSE s[i]]
  <2>1. q[Len(p) + 1] = n
    BY DEF Path
  <2> HIDE DEF q
  <2> QED BY <1>2, <1>3, <2>1
<1>5. t = Append(s, x)
  <2> DEFINE u == Append(s, x)
  <2>1. u = [i \in 1..(Len(s) + 1) |-> u[i]]
    <3>1. u \in Seq(Text) /\ Len(u) = Len(s) + 1
      <4> HIDE DEF s, x
      <4> QED BY <1>1
    <3> HIDE DEF s, x, u
    <3> QED BY <3>1
  <2>2. \A i \in 1..(Len(s) + 1) : u[i] = IF i = Len(s) + 1 THEN x ELSE s[i]
    <3> HIDE DEF s, x
    <3> QED BY <1>1
  <2> HIDE DEF s, x, t, u
  <2>3. u = [i \in 1..(Len(s) + 1) |-> IF i = Len(s) + 1 THEN x ELSE s[i]]
    BY <2>1, <2>2
  <2> QED BY <1>4, <2>3 DEF u
<1>6. FlattenSeq(Append(s, x)) = FlattenSeq(s) \o x
  <2> HIDE DEF s, x, t
  <2> QED BY <1>1, FlattenAppend
<1> QED BY <1>5, <1>6 DEF TextOf

\* The text of a path that is put together is put together from its texts.
LEMMA TextConcat ==
    ASSUME NEW p \in Path, NEW rel \in Path, rel # <<>>
    PROVE  TextOf(p \o rel) = TextOf(p) \o TextOf(rel) /\ TextOf(rel) # <<>>
<1> DEFINE up(k) == SubSeq(rel, 1, k)
           T == {k \in 1..Len(rel) : TextOf(p \o up(k)) = TextOf(p) \o TextOf(up(k)) /\ TextOf(up(k)) # <<>>}
<1>1. Len(rel) \in Nat /\ Len(rel) \in 1..Len(rel) /\ up(Len(rel)) = rel
  BY DEF Path
<1>2. ASSUME NEW k \in 0..(Len(rel) - 1), NEW a \in Text, NEW b \in Text, TextOf(up(k)) = a, TextOf(p) = b,
             TextOf(p \o up(k)) = b \o a
      PROVE  k + 1 \in T
  <2>1. rel[k + 1] \in Name /\ up(k) \in Path /\ up(k + 1) = Append(up(k), rel[k + 1])
    BY DEF Path
  <2>2. p \o up(k + 1) = Append(p \o up(k), rel[k + 1]) /\ p \o up(k) \in Path
    BY <2>1 DEF Path
  <2> DEFINE x == <<"/">> \o Spelling[rel[k + 1]]
  <2>3. x \in Text /\ x # <<>>
    BY <2>1, Piece
  <2>4. TextOf(up(k + 1)) = a \o x
    BY <1>2, <2>1, TextAppend
  <2>5. TextOf(p \o up(k + 1)) = (b \o a) \o x
    BY <1>2, <2>1, <2>2, TextAppend
  <2> HIDE DEF x
  <2>6. (b \o a) \o x = b \o (a \o x) /\ a \o x # <<>>
    BY <2>3 DEF Text
  <2>7. k + 1 \in 1..Len(rel)
    BY <1>1
  <2> QED BY <1>2, <2>4, <2>5, <2>6, <2>7
<1>3. 1 \in T
  <2>1. up(0) = <<>> /\ p \o <<>> = p /\ TextOf(<<>>) = <<>> /\ <<>> \in Text
    BY DEF Path, TextOf, FlattenSeq, Text
  <2>2. TextOf(p) \in Text /\ TextOf(p) \o <<>> = TextOf(p)
    BY TextTyped DEF Text
  <2>3. 0 \in 0..(Len(rel) - 1) /\ 0 + 1 = 1
    BY <1>1
  <2> HIDE DEF T, up
  <2> QED BY <1>2, <2>1, <2>2, <2>3
<1>4. ASSUME NEW k \in 1..(Len(rel) - 1), k \in T PROVE k + 1 \in T
  <2>1. up(k) \in Path /\ k \in 0..(Len(rel) - 1)
    BY DEF Path
  <2>2. TextOf(up(k)) \in Text /\ TextOf(p) \in Text
    BY <2>1, TextTyped
  <2>3. TextOf(p \o up(k)) = TextOf(p) \o TextOf(up(k))
    BY <1>4
  <2> HIDE DEF T, up
  <2> QED BY <1>2, <2>1, <2>2, <2>3
<1>5. \A k \in 1..Len(rel) : k \in T
  <2> HIDE DEF T
  <2> QED BY <1>1, <1>3, <1>4, FromOneTo
<1> QED BY <1>1, <1>5
-----------------------------------------------------------------------------
(***************************************************************************)
(* What the first step of match_dir costs: the package directory itself is *)
(* the one path from which nothing is cut, so rules that name directories  *)
(* within packages, as the manual's do, never pass it, and then no command *)
(* has anything to do.                                                     *)
(***************************************************************************)

\* There are chains, and no directory of the first rule of one begins the text
\* of a package directory's path: neither /us nor /usr for packages below /usr.
UnnamedPackages ==
    /\ Config.nignores # <<>>
    /\ \A i \in DOMAIN Config.nignores : \A p \in Pkg :
          LET chain == Config.nignores[i]
              text  == TextOf(PkgDir(p))
          IN  chain # <<>> => text \notin chain[1].glob /\ Begins(chain[1], text) = {}

LEMMA PkgDirPath ==
    ASSUME NEW p \in Pkg PROVE PkgDir(p) \in Path
BY AppendPath, SetupAssumption DEF PkgDir

LEMMA PrefixOfItself ==
    ASSUME NEW t \in Text PROVE IsPrefix(t, t)
<1>1. Len(t) \in Nat /\ t = SubSeq(t, 1, Len(t))
  BY DEF Text
<1> QED BY <1>1 DEF IsPrefix

LEMMA CutNothing ==
    ASSUME NEW t
    PROVE  Cut(t, Len(<<>>)) = t
<1>1. ~(0 < Len(<<>>))
  OBVIOUS
<1> QED BY <1>1 DEF Cut

\* The first rule of a chain sees the whole path of the package directory.
LEMMA WholePathSeen ==
    ASSUME NEW chain, package \in Path
    PROVE  SeenBy(chain, TextOf(package), 1) = TextOf(package)
<1>1. PICK t \in Text : t = TextOf(package)
  BY TextTyped
<1>2. ~(Len(t) < Len(t))
  BY <1>1 DEF Text
<1>3. Cut(t, Len(t)) = t
  BY <1>2 DEF Cut
<1> QED BY <1>1, <1>3, CutNothing DEF SeenBy, PathOf

LEMMA PackageFails ==
    ASSUME SetupTypeOK, UnnamedPackages, NEW p \in Pkg, package = PkgDir(p)
    PROVE  ~Passes(package)
<1>1. package \in Path /\ Config.nignores \in Seq(Seq(NRule))
  BY PkgDirPath, ConfigTyped DEF ConfigType
<1>2. SUFFICES ASSUME NEW i \in DOMAIN Config.nignores, Matches(Config.nignores[i], TextOf(package))
               PROVE  FALSE
  BY DEF Passes, UnnamedPackages
<1> DEFINE chain == Config.nignores[i]
           text  == TextOf(package)
<1>3. chain \in Seq(NRule) /\ text \in Text
  BY <1>1, <1>2, TextTyped
<1>4. PICK k \in DOMAIN chain :
          /\ Accepts(chain[k], SeenBy(chain, text, k))
          /\ \A j \in 1..(k - 1) : RequiresNext(chain[j], SeenBy(chain, text, j))
  BY <1>2 DEF Matches
<1>5. chain # <<>> /\ k \in Nat /\ k >= 1
  BY <1>3, <1>4
<1>6. text \notin chain[1].glob /\ Begins(chain[1], text) = {}
  BY <1>2, <1>5 DEF UnnamedPackages
<1>7. SeenBy(chain, text, 1) = text
  BY <1>1, WholePathSeen
<1>8. ~Accepts(chain[1], text) /\ ~RequiresNext(chain[1], text)
  BY <1>3, <1>6, PrefixOfItself DEF Accepts, RequiresNext, Begins
<1>9. CASE k = 1
  BY <1>4, <1>7, <1>8, <1>9
<1>10. CASE k > 1
  <2>1. 1 \in 1..(k - 1)
    BY <1>5, <1>10
  <2> QED BY <1>4, <1>7, <1>8, <2>1
<1> QED BY <1>5, <1>9, <1>10

LEMMA PackageEmpty ==
    ASSUME SetupTypeOK, UnnamedPackages, NEW p \in Pkg, package = PkgDir(p)
    PROVE  Children(package) = {}
BY PackageFails DEF Children
-----------------------------------------------------------------------------
\* check is entered for the package directory, finds no child and returns.
IdleInv ==
    UnnamedPackages =>
        /\ links = <<>> /\ todo = <<>>
        /\ phase \notin {"deps", "dive"}
        /\ phase = "check" => Len(stack) = 1 /\ Top.kids = {}
        /\ phase # "idle" => \E p \in Pkg : package = PkgDir(p)

LEMMA IdleInit == Init => IdleInv
BY DEF Init, IdleInv

\* The head of a list of packages is a package.
LEMMA HeadPkg ==
    ASSUME NEW q \in Seq(Pkg), q # <<>>, NEW o, Select(q, o)
    PROVE  phase' = "begin" /\ \E p \in Pkg : package' = PkgDir(p)
<1>1. Head(q) \in Pkg
  OBVIOUS
<1> QED BY <1>1 DEF Select

LEMMA NoStep ==
    ASSUME IdleInv, UnnamedPackages
    PROVE  ~Check /\ (Exec => ExecBegin \/ ExecEnd)
<1>1. ~CheckStep
  <2>1. \A n : ~CheckChild(n)
    BY DEF IdleInv, CheckChild, ChildOwn, ChildExec, ChildCopied, ChildConflict,
           ChildProtected, ChildDir, ChildTraversed, ChildAutoTraverse, ChildForeign,
           ChildFolded, ChildMissing, FoundFile, FoundDir, Found, Missing, OpenDir, LinkedDir
  <2>2. \A n : ~CheckDeps(n)
    BY DEF IdleInv, CheckDeps, DepsDir, DepsHarmless, DepsConflict, DepsLink, Shared
  <2>3. ~DepsReturn /\ ~DiveNotDir /\ ~DiveCopyDir /\ ~Dive
    BY DEF IdleInv, DepsReturn, DiveNotDir, DiveCopyDir, Dive
  <2>4. ~CheckReturn
    <3>1. phase = "check" => Len(stack) = 1
      BY DEF IdleInv
    <3>2. Len(stack) = 1 => ~(Len(stack) > 1)
      OBVIOUS
    <3> QED BY <3>1, <3>2 DEF CheckReturn
  <2> QED BY <2>1, <2>2, <2>3, <2>4 DEF CheckStep
<1>2. \A act : ~Doing(act)
  BY DEF IdleInv, Doing
<1>3. Exec => ExecBegin \/ ExecEnd
  BY <1>2 DEF Exec, ExecStep, ExecRemoveDir, ExecUnlink, ExecMkdir, ExecSetLink, file_copy,
              dir_copy, ExecCommand
<1> QED BY <1>1, <1>3 DEF Check

LEMMA SameHost ==
    ASSUME TypeOK, [Next]_vars PROVE UNCHANGED host
<1>1. CASE User
  BY <1>1 DEF User, Start, StartUnknown, Select, setupVars
<1>2. CASE BeginPass
  BY <1>2 DEF BeginPass, Enter, Stop, setupVars
<1>3. CASE Check
  <2>1. CASE \E n \in Name : CheckChild(n) \/ CheckDeps(n)
    BY <2>1 DEF CheckChild, ChildOwn, ChildExec, ChildCopied, ChildConflict,
           ChildProtected, ChildDir, ChildTraversed, ChildAutoTraverse, ChildForeign,
           ChildFolded, ChildMissing, CheckDeps, DepsDir, DepsHarmless, DepsConflict, DepsLink,
           Plan, Skip, Obstacle, Stop, setupVars
  <2>2. CASE DepsReturn \/ DiveNotDir \/ DiveCopyDir \/ Dive \/ CheckReturn
    BY <2>2 DEF DepsReturn, DiveNotDir, DiveCopyDir, Dive, CheckReturn, Surface, Enter, Stop,
                setupVars
  <2> QED BY <1>3, <2>1, <2>2 DEF Check, CheckStep
<1>4. CASE Exec
  BY <1>4 DEF Exec, ExecStep, ExecBegin, ExecRemoveDir, ExecUnlink, ExecMkdir, ExecSetLink,
              file_copy, dir_copy, ExecCommand, ExecEnd, Frame, setupVars
<1>5. CASE Again \/ NextPackage \/ Return \/ Die \/ UserEdit
  BY <1>5 DEF Again, NextPackage, Return, Die, Quit, UserEdit, setupVars
<1>6. CASE UNCHANGED vars
  BY <1>6 DEF vars, setupVars
<1> QED BY <1>1, <1>2, <1>3, <1>4, <1>5, <1>6 DEF Next, Process

LEMMA IdleNext == TypeOK /\ IdleInv /\ [Next]_vars => IdleInv'
<1> SUFFICES ASSUME TypeOK, IdleInv, [Next]_vars, UnnamedPackages'
             PROVE  IdleInv'
  BY DEF IdleInv
<1>1. UnnamedPackages
  BY SameHost DEF UnnamedPackages, Config, Begins, PkgDir
<1>2. CASE User
  <2>1. PICK c \in Hosts[host].commands : Start(c) \/ StartUnknown(c)
    BY <1>2 DEF User
  <2>2. c.pkgs \in Seq(Pkg) /\ c.pkgs # <<>>
    BY <2>1, HostTyped DEF TypeOK, SetupTypeOK, Command
  <2>3. CASE Start(c)
    BY <1>1, <2>2, <2>3, HeadPkg DEF Start, IdleInv, checkVars, execVars
  <2>4. CASE StartUnknown(c)
    BY <1>1, <2>4 DEF StartUnknown, IdleInv, checkVars, execVars
  <2> QED BY <2>1, <2>3, <2>4
<1>3. CASE BeginPass
  <2>1. PICK p \in Pkg : package = PkgDir(p)
    BY <1>1, <1>3 DEF BeginPass, IdleInv
  <2>2. Children(package) = {}
    BY <1>1, <2>1, PackageEmpty DEF TypeOK
  <2>3. CASE \E s \in Stopped : Stop(s)
    BY <1>1, <1>3, <2>1, <2>3
       DEF BeginPass, Stop, Stopped, IdleInv, checkVars, execVars, setupVars
  <2>4. CASE ~\E s \in Stopped : Stop(s)
    <3>1. /\ stack' = Append(<<>>, [dir |-> Target, base |-> package, kids |-> {}])
          /\ phase' = "check" /\ UNCHANGED <<links, todo, package>>
      BY <1>3, <2>2, <2>4 DEF BeginPass, Enter, Stopped, execVars, setupVars
    <3>2. Len(stack') = 1 /\ Top'.kids = {}
      BY <3>1 DEF Top
    <3> QED BY <1>1, <2>1, <3>1, <3>2 DEF IdleInv
  <2> QED BY <2>3, <2>4
<1>4. CASE Check
  BY <1>1, <1>4, NoStep
<1>5. CASE Exec
  <2>1. links' = <<>> /\ todo' = <<>> /\ phase' \in {"exec", "done"} /\ UNCHANGED package
    BY <1>1, <1>5, NoStep
       DEF IdleInv, ExecBegin, ExecEnd, Frame, checkVars, setupVars
  <2>2. phase # "idle"
    BY <1>1, <1>5, NoStep DEF ExecBegin, ExecEnd, Planned
  <2> QED BY <1>1, <2>1, <2>2 DEF IdleInv
<1>6. CASE Again
  BY <1>1, <1>6 DEF Again, IdleInv, checkVars, execVars
<1>7. CASE NextPackage
  <2>1. Tail(queue) \in Seq(Pkg) /\ Len(Tail(queue)) > 0
    BY <1>7 DEF NextPackage, TypeOK, MainTypeOK
  <2>2. Tail(queue) # <<>>
    BY <2>1, NonEmpty
  <2> QED BY <1>1, <1>7, <2>1, <2>2, HeadPkg DEF NextPackage, IdleInv, checkVars, execVars
<1>8. CASE Return \/ Die
  BY <1>8 DEF Return, Die, Quit, IdleInv
<1>9. CASE UserEdit
  BY <1>1, <1>9 DEF UserEdit, IdleInv, Top, checkVars, execVars, setupVars
<1>10. CASE UNCHANGED vars
  BY <1>1, <1>10 DEF vars, IdleInv, Top, checkVars, execVars, setupVars
<1> QED BY <1>2, <1>3, <1>4, <1>5, <1>6, <1>7, <1>8, <1>9, <1>10 DEF Next, Process

\* With nignore rules of that kind no command ever changes the disk, whatever
\* the packages hold and the target has (match_dir and Node::scan).
THEOREM NothingInstalled ==
    Spec => [][UnnamedPackages => UNCHANGED fs \/ UserEdit]_vars
<1>1. TypeOK /\ IdleInv /\ [Next]_vars => [UnnamedPackages => UNCHANGED fs \/ UserEdit]_vars
  <2> SUFFICES ASSUME TypeOK, IdleInv, Next, UnnamedPackages, ~UserEdit PROVE UNCHANGED fs
    OBVIOUS
  <2>1. CASE Check \/ Exec
    BY <2>1, NoStep DEF ExecBegin, ExecEnd
  <2>2. CASE BeginPass
    BY <2>2 DEF BeginPass, Enter, Stop
  <2>3. CASE User \/ Again \/ NextPackage \/ Return \/ Die
    BY <2>3 DEF User, Start, StartUnknown, Again, NextPackage, Return, Die, Quit
  <2> QED BY <2>1, <2>2, <2>3 DEF Next, Process
<1>2. Spec => []IdleInv
  BY TypeCorrect, IdleInit, IdleNext, PTL DEF Spec
<1> QED BY <1>1, <1>2, TypeCorrect, PTL DEF Spec
-----------------------------------------------------------------------------
(***************************************************************************)
(* The rules below the package directory.                                  *)
(***************************************************************************)
LEMMA PathSeen ==
    ASSUME package \in Path, NEW rel \in Path, rel # <<>>, NEW s
    PROVE  PathOf(TextOf(package \o rel), s) = Cut(TextOf(rel), Len(s))
<1>1. PICK p \in Text : p = TextOf(package)
  BY TextTyped
<1>2. PICK t \in Text : t = TextOf(rel)
  BY TextTyped
<1>3. TextOf(package \o rel) = p \o t /\ t # <<>>
  BY <1>1, <1>2, TextConcat
<1>4. /\ Len(p \o t) = Len(p) + Len(t) /\ Len(p) \in Nat /\ Len(t) \in Nat /\ Len(t) > 0
      /\ SubSeq(p \o t, Len(p) + 1, Len(p \o t)) = t
  BY <1>3 DEF Text
<1>5. Cut(p \o t, Len(p)) = t
  <2>1. CASE Len(p) > 0
    BY <1>4, <2>1 DEF Cut
  <2>2. CASE Len(p) = 0
    BY <1>4, <2>2 DEF Cut, Text
  <2> QED BY <1>4, <2>1, <2>2
<1> QED BY <1>1, <1>2, <1>3, <1>5 DEF PathOf

\* What the first rule strips does not depend on the others.
LEMMA StripFirst ==
    ASSUME NEW chain, DOMAIN chain = 1..Len(chain), Len(chain) \in {1, 2}, NEW full
    PROVE  StripAfter(chain, full)[1] = Strip(chain[1], PathOf(full, <<>>))
<1> DEFINE Body(f) == [i \in DOMAIN chain |->
                          Strip(chain[i], PathOf(full, IF i = 1 THEN <<>> ELSE f[i - 1]))]
           first == Strip(chain[1], PathOf(full, <<>>))
           g == Body([i \in DOMAIN chain |-> first])
<1>1. 1 \in DOMAIN chain /\ \A i \in DOMAIN chain : i = 1 \/ (i = 2 /\ i - 1 = 1)
  OBVIOUS
<1>2. \A f : Body(f)[1] = first
  BY <1>1
<1>3. Body(g) = g
  <2>1. g[1] = first
    BY <1>2
  <2>2. \A i \in DOMAIN chain : i # 1 => g[i - 1] = [k \in DOMAIN chain |-> first][i - 1]
    BY <1>1, <2>1
  <2>3. \A i \in DOMAIN chain : Body(g)[i] = g[i]
    BY <2>2
  <2> QED BY <2>3
<1>4. StripAfter(chain, full) = CHOOSE f : f = Body(f)
  BY DEF StripAfter
<1>5. StripAfter(chain, full) = Body(StripAfter(chain, full))
  BY <1>3, <1>4
<1> QED BY <1>2, <1>5

\* A directory that begins t is what t begins with.
LEMMA PrefixIs ==
    ASSUME NEW d \in Text, NEW t \in Text, IsPrefix(d, t)
    PROVE  /\ Len(d) \in Nat /\ Len(d) <= Len(t) /\ d = SubSeq(t, 1, Len(d))
           /\ Len(d) = Len(t) => d = t
<1>1. Len(d) \in Nat /\ Len(t) \in Nat /\ t = SubSeq(t, 1, Len(t)) /\ d = SubSeq(d, 1, Len(d))
  BY DEF Text
<1>2. Len(d) <= Len(t) /\ d = SubSeq(t, 1, Len(d))
  BY <1>1 DEF IsPrefix
<1>3. ASSUME Len(d) = Len(t) PROVE d = t
  BY <1>1, <1>2, <1>3
<1> QED BY <1>1, <1>2, <1>3

LEMMA IsPrefixOf ==
    ASSUME NEW t \in Text, NEW n \in 0..Len(t)
    PROVE  IsPrefix(SubSeq(t, 1, n), t) /\ Len(SubSeq(t, 1, n)) = n
<1>1. Len(t) \in Nat
  BY DEF Text
<1>2. Len(SubSeq(t, 1, n)) = n
  BY <1>1 DEF Text
<1>3. SubSeq(SubSeq(t, 1, n), 1, n) = SubSeq(t, 1, n)
  BY <1>1 DEF Text
<1> QED BY <1>1, <1>2, <1>3 DEF IsPrefix

LEMMA BegunBy ==
    ASSUME NEW r \in NRule, NEW t \in Text, NEW d \in Begins(r, t)
    PROVE  /\ d \in Text /\ d \in r.dir /\ Len(d) \in 1..Len(t) /\ d = SubSeq(t, 1, Len(d))
           /\ Len(d) = Len(t) => d = t
<1>1. d \in Text /\ d # <<>> /\ d \in r.dir /\ IsPrefix(d, t)
  BY DEF Begins, NRule
<1>2. Len(t) \in Nat /\ Len(d) # 0
  BY <1>1 DEF Text
<1>3. Len(d) \in Nat /\ Len(d) <= Len(t)
  BY <1>1, PrefixIs
<1>4. Len(d) \in 1..Len(t)
  BY <1>2, <1>3
<1> QED BY <1>1, <1>4, PrefixIs

\* Of the directories that begin the text, the longest is stripped.
LEMMA StripLongest ==
    ASSUME NEW r \in NRule, NEW t \in Text, Begins(r, t) # {}
    PROVE  /\ Strip(r, t) \in Begins(r, t)
           /\ \A e \in Begins(r, t) : Len(e) <= Len(Strip(r, t))
<1> DEFINE left == {Len(t) - Len(d) : d \in Begins(r, t)}
<1>1. left \subseteq Nat /\ left # {}
  <2>1. Len(t) \in Nat
    BY DEF Text
  <2>2. \A d \in Begins(r, t) : Len(d) \in 1..Len(t)
    BY BegunBy
  <2> QED BY <2>1, <2>2
<1>2. PICK m \in left : \A k \in left : m <= k
  <2> HIDE DEF left
  <2> QED BY <1>1, Least
<1>3. PICK d \in Begins(r, t) : m = Len(t) - Len(d)
  BY <1>2
<1>4. \A e \in Begins(r, t) : Len(e) <= Len(d)
  <2>1. SUFFICES ASSUME NEW e \in Begins(r, t) PROVE Len(e) <= Len(d)
    OBVIOUS
  <2>2. Len(t) - Len(d) <= Len(t) - Len(e)
    BY <1>2, <1>3
  <2>3. Len(d) \in 1..Len(t) /\ Len(e) \in 1..Len(t) /\ Len(t) \in Nat
    BY BegunBy DEF Text
  <2> HIDE DEF left
  <2> QED BY <2>2, <2>3
<1> DEFINE Longest(x) == \A e \in Begins(r, t) : Len(e) <= Len(x)
<1>5. Strip(r, t) = CHOOSE x \in Begins(r, t) \cup {<<>>} : Longest(x)
  BY DEF Strip
<1>6. Strip(r, t) \in Begins(r, t) \cup {<<>>} /\ Longest(Strip(r, t))
  <2>1. Longest(d)
    BY <1>4
  <2> HIDE DEF Longest
  <2> QED BY <1>5, <2>1
<1>7. ~Longest(<<>>)
  <2>1. Len(d) \in 1..Len(t) /\ Len(<<>>) = 0 /\ Len(t) \in Nat
    BY BegunBy DEF Text
  <2>2. ~(Len(d) <= Len(<<>>))
    BY <2>1
  <2> QED BY <2>2
<1> QED BY <1>6, <1>7

\* Where names end with the directories, match_dir accepts what is named.
LEMMA AcceptsNamed ==
    ASSUME NEW r \in NRule, NEW t \in Text, EndsAtName(r, t)
    PROVE  Accepts(r, t) <=> Names(r, t)
<1>1. ASSUME Accepts(r, t) PROVE Names(r, t)
  BY <1>1 DEF Accepts, Names, EndsAtName, Begins
<1>2. ASSUME NEW d \in r.dir, Below(d, t) PROVE d \in Begins(r, t)
  <2>1. d \in Text
    BY DEF NRule
  <2>2. "/" \in Char
    BY SetupAssumption
  <2> DEFINE e == d \o <<"/">>
  <2>3. /\ e \in Text /\ Len(d) \in Nat /\ Len(e) = Len(d) + 1 /\ SubSeq(e, 1, Len(d)) = d
        /\ SubSeq(d, 1, Len(d)) = d
    BY <2>1, <2>2 DEF Text
  <2>4. Len(e) <= Len(t) /\ e = SubSeq(t, 1, Len(e))
    <3> HIDE DEF e
    <3>1. IsPrefix(e, t)
      BY <1>2 DEF Below, e
    <3> QED BY <2>3, <3>1, PrefixIs
  <2> HIDE DEF e
  <2>5. SubSeq(SubSeq(t, 1, Len(e)), 1, Len(d)) = SubSeq(t, 1, Len(d)) /\ Len(t) \in Nat
    <3>1. t \in Seq(Char) /\ Len(t) \in Nat /\ Len(e) \in 0..Len(t) /\ Len(d) \in 0..Len(e)
      BY <2>3, <2>4 DEF Text
    <3> QED BY <3>1, SubSubSeq
  <2>6. IsPrefix(d, t)
    BY <2>3, <2>4, <2>5 DEF IsPrefix
  <2> QED BY <1>2, <2>6 DEF Begins
<1>3. ASSUME Names(r, t) PROVE Accepts(r, t)
  BY <1>2, <1>3 DEF Accepts, Names
<1> QED BY <1>1, <1>3

\* What the second rule of a chain sees: the text without the longest directory
\* of the first that begins it.
LEMMA SecondSees ==
    ASSUME package \in Path, NEW chain \in Seq(NRule), Len(chain) = 2, NEW rel \in Path, rel # <<>>,
           Begins(chain[1], TextOf(rel)) # {}, TextOf(rel) \notin chain[1].dir
    PROVE  LET t == TextOf(rel)
               d == Strip(chain[1], t)
           IN  /\ Len(d) \in 1..(Len(t) - 1)
               /\ SeenBy(chain, TextOf(package \o rel), 2) = SubSeq(t, Len(d) + 1, Len(t))
<1> DEFINE full == TextOf(package \o rel)
<1>1. PICK t \in Text : t = TextOf(rel)
  BY TextTyped
<1>2. chain[1] \in NRule /\ DOMAIN chain = 1..Len(chain) /\ Len(chain) \in {1, 2}
  OBVIOUS
<1>3. PICK d : d = Strip(chain[1], t)
  OBVIOUS
<1>4. d \in Begins(chain[1], t)
  BY <1>1, <1>2, <1>3, StripLongest
<1>5. Len(d) \in 1..Len(t) /\ Len(d) # Len(t)
  BY <1>1, <1>2, <1>4, BegunBy
<1>6. Len(t) \in Nat /\ Len(d) \in 1..(Len(t) - 1)
  BY <1>1, <1>5 DEF Text
<1>7. PathOf(full, <<>>) = t
  BY <1>1, PathSeen, CutNothing
<1>8. PathOf(full, d) = Cut(t, Len(d))
  BY <1>1, PathSeen
<1> HIDE DEF full
<1>9. StripAfter(chain, full)[1] = d
  BY <1>2, <1>3, <1>7, StripFirst
<1>10. SeenBy(chain, full, 2) = PathOf(full, d)
  BY <1>9 DEF SeenBy
<1>11. Cut(t, Len(d)) = SubSeq(t, Len(d) + 1, Len(t))
  BY <1>6 DEF Cut
<1> QED BY <1>1, <1>3, <1>6, <1>8, <1>10, <1>11 DEF full

\* The pieces of Covers, for chains of at most two rules: the text is named by
\* the first, or what one of its directories leaves is named by the second.
LEMMA CoversPieces ==
    ASSUME NEW chain \in Seq(NRule), Len(chain) \in {1, 2}, NEW t \in Text, t # <<>>
    PROVE  Covers(chain, t) <=>
              \/ Names(chain[1], t)
              \/ /\ Len(chain) = 2
                 /\ \E n \in 0..Len(t) : /\ SubSeq(t, 1, n) \in chain[1].dir
                                         /\ Names(chain[2], SubSeq(t, n + 1, Len(t)))
<1>1. Len(t) \in Nat /\ SubSeq(t, 1, Len(t)) = t
  BY DEF Text
<1>2. DOMAIN chain = 1..Len(chain) /\ 1 - 1 = 0 /\ 2 - 1 = 1 /\ 0 + 1 = 1
  OBVIOUS
<1> DEFINE Cuts(k, e) ==
              /\ e[0] = 0 /\ e[k] = Len(t)
              /\ \A j \in 1..(k - 1) : SubSeq(t, e[j - 1] + 1, e[j]) \in chain[j].dir
              /\ Names(chain[k], SubSeq(t, e[k - 1] + 1, e[k]))
<1>3. Covers(chain, t) <=> \E k \in DOMAIN chain : \E e \in [0..k -> 0..Len(t)] : Cuts(k, e)
  BY DEF Covers
<1>4. ASSUME NEW e \in [0..1 -> 0..Len(t)], Cuts(1, e) PROVE Names(chain[1], t)
  <2>1. SubSeq(t, e[1 - 1] + 1, e[1]) = t
    BY <1>1, <1>2, <1>4
  <2> QED BY <1>4, <2>1
<1>5. ASSUME NEW e \in [0..2 -> 0..Len(t)], Cuts(2, e)
      PROVE  /\ e[1] \in 0..Len(t) /\ SubSeq(t, 1, e[1]) \in chain[1].dir
             /\ Names(chain[2], SubSeq(t, e[1] + 1, Len(t)))
  <2>1. 1 \in 1..(2 - 1) /\ 1 \in 0..2 /\ e[1 - 1] + 1 = 1 /\ e[2 - 1] = e[1] /\ e[2] = Len(t)
    BY <1>2, <1>5
  <2>2. SubSeq(t, e[1 - 1] + 1, e[1]) \in chain[1].dir /\ Names(chain[2], SubSeq(t, e[2 - 1] + 1, e[2]))
    BY <1>5, <2>1
  <2> QED BY <2>1, <2>2
<1>6. ASSUME Names(chain[1], t) PROVE \E e \in [0..1 -> 0..Len(t)] : Cuts(1, e)
  <2> DEFINE e == [j \in 0..1 |-> IF j = 0 THEN 0 ELSE Len(t)]
  <2>1. e \in [0..1 -> 0..Len(t)] /\ e[0] = 0 /\ e[1] = Len(t)
    BY <1>1
  <2> HIDE DEF e
  <2>2. SubSeq(t, e[1 - 1] + 1, e[1]) = t
    BY <1>1, <1>2, <2>1
  <2>3. \A j \in 1..(1 - 1) : SubSeq(t, e[j - 1] + 1, e[j]) \in chain[j].dir
    OBVIOUS
  <2>4. Cuts(1, e)
    BY <1>6, <2>1, <2>2, <2>3
  <2> HIDE DEF Cuts
  <2> QED BY <2>1, <2>4
<1>7. ASSUME NEW n \in 0..Len(t), SubSeq(t, 1, n) \in chain[1].dir,
             Names(chain[2], SubSeq(t, n + 1, Len(t)))
      PROVE  \E e \in [0..2 -> 0..Len(t)] : Cuts(2, e)
  <2> DEFINE e == [j \in 0..2 |-> IF j = 0 THEN 0 ELSE IF j = 1 THEN n ELSE Len(t)]
  <2>1. e \in [0..2 -> 0..Len(t)] /\ e[0] = 0 /\ e[1] = n /\ e[2] = Len(t)
    BY <1>1
  <2> HIDE DEF e
  <2>2. SubSeq(t, e[1 - 1] + 1, e[1]) = SubSeq(t, 1, n) /\ SubSeq(t, e[2 - 1] + 1, e[2]) = SubSeq(t, n + 1, Len(t))
    BY <1>2, <2>1
  <2>3. \A j \in 1..(2 - 1) : j = 1
    OBVIOUS
  <2>4. Cuts(2, e)
    BY <1>7, <2>1, <2>2, <2>3
  <2> HIDE DEF Cuts
  <2> QED BY <2>1, <2>4
<1> HIDE DEF Cuts
<1>8. DOMAIN chain \subseteq {1, 2} /\ 1 \in DOMAIN chain /\ (2 \in DOMAIN chain <=> Len(chain) = 2)
  BY <1>2
<1> QED BY <1>3, <1>4, <1>5, <1>6, <1>7, <1>8

\* A chain that has one rule more looks at what the longest directory leaves.
LEMMA MatchesCovers ==
    ASSUME package \in Path, NEW chain \in Seq(NRule), Len(chain) <= 2, NEW rel \in Path, rel # <<>>,
           Unambiguous(chain, TextOf(rel))
    PROVE  Matches(chain, TextOf(package \o rel)) <=> Covers(chain, TextOf(rel))
<1> DEFINE full == TextOf(package \o rel)
<1>1. CASE chain = <<>>
  BY <1>1 DEF Matches, Covers
<1>2. CASE chain # <<>>
  <2>1. PICK t \in Text : t = TextOf(rel) /\ t # <<>>
    BY TextTyped, TextConcat, EmptyPath
  <2>2. /\ DOMAIN chain = 1..Len(chain) /\ Len(chain) \in {1, 2} /\ chain[1] \in NRule
        /\ Len(chain) = 2 => chain[2] \in NRule
    <3>1. Len(chain) \in {1, 2} /\ DOMAIN chain = 1..Len(chain)
      <4>1. PICK n \in Nat : n = Len(chain) /\ DOMAIN chain = 1..n
        OBVIOUS
      <4>2. n # 0
        BY <1>2, <4>1
      <4>3. n \in {1, 2}
        BY <4>1, <4>2
      <4> QED BY <4>1, <4>3
    <3>2. \A i \in DOMAIN chain : chain[i] \in NRule
      OBVIOUS
    <3> QED BY <3>1, <3>2
  <2>3. SeenBy(chain, full, 1) = t
    BY <2>1, PathSeen, CutNothing DEF SeenBy
  <2>4. Accepts(chain[1], t) <=> Names(chain[1], t)
    BY <1>2, <2>1, <2>2, AcceptsNamed DEF Unambiguous
  <2> HIDE DEF full
  <2>5. Matches(chain, full) <=>
            \/ Accepts(chain[1], t)
            \/ /\ Len(chain) = 2 /\ RequiresNext(chain[1], t)
               /\ Accepts(chain[2], SeenBy(chain, full, 2))
    <3>1. DOMAIN chain \subseteq {1, 2} /\ 1 \in DOMAIN chain /\ (2 \in DOMAIN chain <=> Len(chain) = 2)
      BY <2>2
    <3>2. 1..(1 - 1) = {} /\ 1..(2 - 1) = {1}
      OBVIOUS
    <3> QED BY <2>3, <3>1, <3>2 DEF Matches
  <2>6. CASE Names(chain[1], t)
    BY <2>1, <2>2, <2>4, <2>5, <2>6, CoversPieces DEF full
  <2>7. CASE ~Names(chain[1], t) /\ Len(chain) = 1
    <3>1. Len(chain) # 2
      BY <2>7
    <3> QED BY <2>1, <2>2, <2>4, <2>5, <2>7, <3>1, CoversPieces DEF full
  <2>8. CASE ~Names(chain[1], t) /\ Len(chain) = 2 /\ Begins(chain[1], t) = {}
    <3>1. ASSUME NEW n \in 0..Len(t), SubSeq(t, 1, n) \in chain[1].dir PROVE FALSE
      <4>1. IsPrefix(SubSeq(t, 1, n), t)
        BY <3>1, IsPrefixOf
      <4> QED BY <2>8, <3>1, <4>1 DEF Begins
    <3>2. ~RequiresNext(chain[1], t)
      BY <2>8 DEF RequiresNext
    <3> QED BY <2>1, <2>2, <2>4, <2>5, <2>8, <3>1, <3>2, CoversPieces DEF full
  <2>9. CASE ~Names(chain[1], t) /\ Len(chain) = 2 /\ Begins(chain[1], t) # {}
    <3>1. t \notin chain[1].dir /\ RequiresNext(chain[1], t)
      BY <2>4, <2>9 DEF Names, RequiresNext
    <3>2. PICK s : s = Strip(chain[1], t)
      OBVIOUS
    <3>3. Len(s) \in 1..(Len(t) - 1) /\ SeenBy(chain, full, 2) = SubSeq(t, Len(s) + 1, Len(t))
      BY <2>1, <2>9, <3>1, <3>2, SecondSees DEF full
    <3>4. s \in Begins(chain[1], t) /\ \A e \in Begins(chain[1], t) : Len(e) <= Len(s)
      BY <2>2, <2>9, <3>2, StripLongest
    <3>5. s \in chain[1].dir /\ s = SubSeq(t, 1, Len(s)) /\ s # t
      BY <2>2, <3>1, <3>4, BegunBy
    <3> DEFINE rest(n) == SubSeq(t, n + 1, Len(t))
    <3>6. /\ 2 \in DOMAIN chain
          /\ \A d \in Begins(chain[1], t) : EndsAtName(chain[2], rest(Len(d)))
          /\ \A d, e \in Begins(chain[1], t) : Len(d) < Len(e) /\ e # t => ~Names(chain[2], rest(Len(d)))
      BY <1>2, <2>1, <2>2, <2>9 DEF Unambiguous
    <3>7. rest(Len(s)) \in Text
      BY <3>3 DEF Text
    <3>8. Accepts(chain[2], rest(Len(s))) <=> Names(chain[2], rest(Len(s)))
      <4>1. EndsAtName(chain[2], rest(Len(s))) /\ chain[2] \in NRule
        BY <2>2, <2>9, <3>4, <3>6
      <4> HIDE DEF rest
      <4> QED BY <3>7, <4>1, AcceptsNamed
    <3>9. ASSUME NEW n \in 0..Len(t), SubSeq(t, 1, n) \in chain[1].dir, Names(chain[2], rest(n))
          PROVE  n = Len(s)
      <4>1. PICK d : d = SubSeq(t, 1, n) /\ d \in Begins(chain[1], t) /\ Len(d) = n
        BY <3>9, IsPrefixOf DEF Begins
      <4>2. ~(Len(d) < Len(s))
        <5> HIDE DEF rest
        <5> QED BY <3>4, <3>5, <3>6, <3>9, <4>1
      <4>3. n <= Len(s) /\ n \in Nat /\ Len(s) \in Nat
        <5>1. Len(t) \in Nat
          BY DEF Text
        <5>2. n <= Len(s)
          BY <3>4, <4>1
        <5> HIDE DEF rest
        <5> QED BY <3>3, <5>1, <5>2
      <4> QED BY <4>1, <4>2, <4>3
    <3>10. Len(s) \in 0..Len(t)
      BY <3>3
    <3>11. Covers(chain, t) <=> Names(chain[2], rest(Len(s)))
      <4>1. Covers(chain, t) <=> \E n \in 0..Len(t) : SubSeq(t, 1, n) \in chain[1].dir /\ Names(chain[2], rest(n))
        BY <2>1, <2>2, <2>9, CoversPieces
      <4> HIDE DEF rest
      <4> QED BY <3>5, <3>9, <3>10, <4>1
    <3>12. Matches(chain, full) <=> Accepts(chain[2], rest(Len(s)))
      BY <2>4, <2>5, <2>9, <3>1, <3>3
    <3> HIDE DEF rest
    <3> QED BY <2>1, <3>8, <3>11, <3>12 DEF full
  <2> QED BY <2>2, <2>6, <2>7, <2>8, <2>9
<1> QED BY <1>1, <1>2

\* Below the package directory the rules of every configuration, in chains of
\* one or two, accept the directories that they name and no others, as long as
\* it is clear what that is: no name of the path goes on where a directory of a
\* rule ends (for dir = /lib that is /lib64, which match_dir takes for a part of
\* it), and the second rule names nothing that a shorter directory leaves.
THEOREM RulesAsNamed == Spec => []NIgnoreAsNamed
<1>1. TypeOK => NIgnoreAsNamed
  <2> SUFFICES ASSUME TypeOK, NEW i \in DOMAIN Config.nignores, NEW l \in 1..2, NEW rel \in [1..l -> Name],
                      Len(Config.nignores[i]) <= 2, Unambiguous(Config.nignores[i], TextOf(rel))
               PROVE  Matches(Config.nignores[i], TextOf(package \o rel))
                         <=> Covers(Config.nignores[i], TextOf(rel))
    BY DEF NIgnoreAsNamed
  <2>1. package \in Path /\ Config.nignores[i] \in Seq(NRule)
    BY ConfigTyped DEF TypeOK, SetupTypeOK, ConfigType
  <2>2. rel \in Path /\ rel # <<>>
    BY DEF Path
  <2> QED BY <2>1, <2>2, MatchesCovers
<1> QED BY <1>1, TypeCorrect, PTL
=============================================================================
