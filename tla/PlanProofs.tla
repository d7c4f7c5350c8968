----------------------------- MODULE PlanProofs -----------------------------
(***************************************************************************)
(* A plan does what it says: the proof that PlanInv is inductive, and what *)
(* follows from it.  The first part is about names on a disk, the second   *)
(* about plans, then come the steps of the planner and of the executor.    *)
(* The last part shows that a tidy host stays tidy (TidyInv), which makes  *)
(* the surroundings straight, and what follows from that for the packages  *)
(* and for the files of the user.                                          *)
(***************************************************************************)
EXTENDS Tidy, XStowProofs

\* Above what is there are directories.
LEMMA DirAbove ==
    ASSUME NEW F, Disk(F), NEW p \in DOMAIN F, NEW d \in Path, IsInDir(p, d)
    PROVE  d # p => IsDir(F, d)
<1>1. p \in Path
  BY DEF Disk
<1>2. Len(d) \in 0..Len(p) /\ SubSeq(p, 1, Len(d)) = d
  BY <1>1, InDir
<1>3. Len(d) = Len(p) => d = p
  BY <1>1, <1>2, PathLen
<1>4. Len(d) # Len(p) => Len(d) \in 0..(Len(p) - 1)
  BY <1>1, <1>2, PathLen
<1> QED BY <1>2, <1>3, <1>4 DEF Disk

LEMMA DirOver ==
    ASSUME NEW F, Disk(F), NEW p, IsDir(F, p), NEW d \in Path, IsInDir(p, d)
    PROVE  IsDir(F, d)
BY DirAbove DEF IsDir

\* A name with no link on the way is its place.
LEMMA LocDirect ==
    ASSUME NEW F, NEW p \in Path,
           \A k \in 0..(Len(p) - 1) : ~IsLink(F, SubSeq(p, 1, k))
    PROVE  LinksAbove(F, p) = {} /\ Loc(F, p) = p
<1>1. LinksAbove(F, p) = {}
  <2>1. \A k \in 1..(Len(p) - 1) : k \in 0..(Len(p) - 1)
    BY PathLen
  <2> QED BY <2>1 DEF LinksAbove
<1>2. Hop(F)[p] = p
  BY <1>1 DEF Hop
<1> QED BY <1>1, <1>2 DEF Loc

\* A way of directories is direct.
LEMMA LocOfWay ==
    ASSUME NEW F, NEW p \in Path,
           \A k \in 0..(Len(p) - 1) : IsDir(F, SubSeq(p, 1, k))
    PROVE  LinksAbove(F, p) = {} /\ Loc(F, p) = p
BY LocDirect DEF IsDir, IsLink

\* stat finds what lstat finds when that is not a link.
LEMMA StatOfNode ==
    ASSUME NEW F, Disk(F), NEW p \in Path, Loc(F, p) \in DOMAIN F, ~LinkAt(F, p)
    PROVE  Stat(F, p) = Loc(F, p)
<1> DEFINE l == Loc(F, p)
<1>1. l \in Path /\ Loc(F, l) = l
  BY LocOfNode DEF Disk
<1>2. Lead(F, p) = l /\ Lead(F, l) = l
  BY <1>1 DEF Lead, Follow, LinkAt
<1> QED BY <1>1, <1>2 DEF Stat

\* Names in a directory without links are what they say.
LEMMA PlainName ==
    ASSUME NEW F, Disk(F), NEW d \in Path, PlainDir(F, d), NEW q \in Path, IsInDir(q, d)
    PROVE  /\ Loc(F, q) = q /\ Stat(F, q) = q /\ ~LinkAt(F, q)
           /\ DirAt(F, q) <=> IsDir(F, q)
           /\ Readable(F, q) => IsDir(F, q)
           /\ Entries(F, q) = {n \in Name : Append(q, n) \in DOMAIN F}
<1>1. ASSUME NEW k \in 0..(Len(q) - 1) PROVE ~IsLink(F, SubSeq(q, 1, k))
  <2> DEFINE r == SubSeq(q, 1, k)
  <2>1. k \in 0..Len(q)
    BY PathLen
  <2>2. r \in Path /\ IsInDir(q, r)
    BY <2>1, PrefixIn
  <2>3. IsInDir(r, d) \/ IsInDir(d, r)
    BY <2>2, InBoth
  <2>4. CASE IsInDir(r, d)
    BY <2>4 DEF PlainDir, IsLink
  <2>5. CASE IsInDir(d, r)
    <3>1. IsDir(F, r)
      BY <2>2, <2>5, DirOver DEF PlainDir
    <3> QED BY <3>1 DEF IsDir, IsLink
  <2> QED BY <2>3, <2>4, <2>5
<1>2. Loc(F, q) = q
  BY <1>1, LocDirect
<1>3. ~IsLink(F, q)
  BY DEF PlainDir, IsLink
<1>4. Lead(F, q) = q
  BY <1>2, <1>3 DEF Lead, Follow
<1>5. Stat(F, q) = q
  BY <1>2, <1>4 DEF Stat
<1> QED BY <1>2, <1>3, <1>5 DEF LinkAt, DirAt, Readable, Entries

LEMMA PlainBelow ==
    ASSUME NEW F, Disk(F), NEW d \in Path, PlainDir(F, d), NEW q \in Path, IsInDir(q, d),
           IsDir(F, q)
    PROVE  PlainDir(F, q)
<1>1. ASSUME NEW r \in DOMAIN F, IsInDir(r, q) PROVE ~IsLink(F, r)
  <2>1. r \in Path
    BY DEF Disk
  <2>2. IsInDir(r, d)
    BY <1>1, <2>1, InTrans
  <2> QED BY <2>2 DEF PlainDir
<1> QED BY <1>1 DEF PlainDir

\* A name below a link into a directory without links is in that directory.
LEMMA LocBelowLink ==
    ASSUME NEW F, Disk(F), NEW l, IsLink(F, l), PlainDir(F, F[l].ref),
           NEW y \in Path, y # <<>>
    PROVE  Loc(F, l \o y) = F[l].ref \o y /\ l \o y \notin DOMAIN F
<1> DEFINE r == F[l].ref  p == l \o y
<1>1. l \in Path /\ l # <<>> /\ r \in Path /\ p \in Path /\ IsInDir(p, l) /\ After(p, l) = y
  <2>1. l \in DOMAIN F /\ F[l].kind = "link"
    BY DEF IsLink
  <2>2. l \in Path /\ r \in Path
    BY <2>1 DEF Disk, Node
  <2>3. l # <<>>
    BY <2>1 DEF Disk, IsDir
  <2> QED BY <2>2, <2>3, JoinPath, JoinIn
<1>2. Len(p) = Len(l) + Len(y) /\ Len(l) \in Nat \ {0} /\ Len(y) \in Nat \ {0}
  BY <1>1, JoinPath, PathLen, EmptySeq DEF Path
<1>3. p \notin DOMAIN F
  <2>1. p # l
    BY <1>2
  <2> QED BY <1>1, <2>1, DirAbove DEF IsLink, IsDir
<1>4. LinksAbove(F, p) = {Len(l)}
  <2>1. SubSeq(p, 1, Len(l)) = l /\ Len(l) \in 1..(Len(p) - 1)
    <3>1. SubSeq(p, 1, Len(l)) = l
      BY <1>1, InDir
    <3> HIDE DEF p
    <3> QED BY <1>2, <3>1
  <2>2. ASSUME NEW i \in 1..(Len(p) - 1), IsLink(F, SubSeq(p, 1, i)), i # Len(l) PROVE FALSE
    <3> DEFINE q == SubSeq(p, 1, i)
    <3>0. i \in 0..Len(p)
      <4>1. Len(p) \in Nat
        BY <1>1, PathLen
      <4> HIDE DEF p
      <4> QED BY <4>1
    <3>1. q \in Path /\ Len(q) = i /\ IsInDir(p, q) /\ q \in DOMAIN F
      BY <1>1, <2>2, <3>0, PrefixIn DEF IsLink
    <3>2. q # l
      BY <2>2, <3>1
    <3>3. IsInDir(q, l) \/ IsInDir(l, q)
      BY <1>1, <3>1, InBoth
    <3> HIDE DEF q
    <3>4. IsInDir(q, l) => IsDir(F, l)
      BY <1>1, <3>1, <3>2, DirAbove
    <3>5. IsInDir(l, q) => IsDir(F, q)
      BY <1>1, <3>1, <3>2, DirAbove DEF IsLink
    <3> QED BY <2>2, <3>3, <3>4, <3>5 DEF IsLink, IsDir, q
  <2> QED BY <2>1, <2>2 DEF LinksAbove
<1>5. Hop(F)[p] = r \o y
  <2> DEFINE i == CHOOSE i \in LinksAbove(F, p) : TRUE
  <2>1. i = Len(l)
    BY <1>4
  <2>2. SubSeq(p, 1, Len(l)) = l
    BY <1>1, InDir
  <2>3. Hop(F)[p] = F[SubSeq(p, 1, i)].ref \o SubSeq(p, i + 1, Len(p))
    BY <1>1, <1>4 DEF Hop
  <2> HIDE DEF p
  <2> QED BY <1>1, <2>1, <2>2, <2>3 DEF After
<1>6. Hop(F)[r \o y] = r \o y
  <2>1. r \o y \in Path /\ IsInDir(r \o y, r)
    BY <1>1, JoinPath, JoinIn
  <2>2. Loc(F, r \o y) = r \o y
    BY <1>1, <2>1, PlainName
  <2>3. LinksAbove(F, r \o y) = {}
    <3> SUFFICES ASSUME NEW k \in 1..(Len(r \o y) - 1), IsLink(F, SubSeq(r \o y, 1, k)) PROVE FALSE
      BY DEF LinksAbove
    <3> DEFINE q == SubSeq(r \o y, 1, k)
    <3>0. k \in 0..Len(r \o y)
      BY <2>1, PathLen
    <3>1. q \in Path /\ IsInDir(r \o y, q)
      BY <2>1, <3>0, PrefixIn
    <3>2. IsInDir(q, r) \/ IsInDir(r, q)
      BY <1>1, <2>1, <3>1, InBoth
    <3>3. IsInDir(r, q) => IsDir(F, q)
      BY <3>1, DirOver DEF PlainDir
    <3> QED BY <3>2, <3>3 DEF PlainDir, IsLink, IsDir
  <2> QED BY <2>1, <2>3 DEF Hop
<1> QED BY <1>3, <1>5, <1>6 DEF Loc
-----------------------------------------------------------------------------
(***************************************************************************)
(* Plans grow at their end.                                                *)
(***************************************************************************)
Grown(L, M) == Len(L) <= Len(M) /\ \A i \in 1..Len(L) : M[i] = L[i]

LEMMA GrownSelf ==
    ASSUME NEW L \in Seq(Op) PROVE Grown(L, L)
BY DEF Grown

LEMMA GrownTrans ==
    ASSUME NEW L \in Seq(Op), NEW M \in Seq(Op), NEW N \in Seq(Op), Grown(L, M), Grown(M, N)
    PROVE  Grown(L, N)
BY DEF Grown

\* Push appends, unless the list has an equal operation.
LEMMA PushGrows ==
    ASSUME NEW L \in Seq(Op), NEW l \in Op
    PROVE  /\ Push(L, l) \in Seq(Op) /\ Grown(L, Push(L, l))
           /\ \E i \in 1..Len(Push(L, l)) : SameOp(Push(L, l)[i], l)
           /\ \/ Push(L, l) = L
              \/ /\ Len(Push(L, l)) = Len(L) + 1 /\ Push(L, l)[Len(L) + 1] = l
                 /\ \A i \in 1..Len(L) : ~SameOp(L[i], l)
<1>1. CASE \E i \in DOMAIN L : SameOp(L[i], l)
  BY <1>1, GrownSelf DEF Push
<1>2. CASE ~\E i \in DOMAIN L : SameOp(L[i], l)
  <2> DEFINE M == Append(L, l)
  <2>1. Push(L, l) = M
    BY <1>2 DEF Push
  <2>2. M \in Seq(Op) /\ Len(M) = Len(L) + 1 /\ M[Len(L) + 1] = l
        /\ (\A i \in 1..Len(L) : M[i] = L[i]) /\ Len(L) \in Nat
    BY AppendProperties
  <2>3. SameOp(M[Len(L) + 1], l)
    BY <2>2 DEF SameOp
  <2> HIDE DEF M
  <2> QED BY <1>2, <2>1, <2>2, <2>3 DEF Grown
<1> QED BY <1>1, <1>2

LEMMA MadeGrows ==
    ASSUME NEW L \in Seq(Op), NEW M \in Seq(Op), Grown(L, M), NEW p
    PROVE  /\ Made(L, p) => Made(M, p)
           /\ \A n \in 0..Len(L) : MadeBy(L, n, p) => MadeBy(M, n, p)
<1>1. Len(L) \in Nat /\ Len(M) \in Nat /\ Len(L) <= Len(M)
  BY DEF Grown
<1> QED BY <1>1 DEF Grown, Made, MadeBy

LEMMA WayGrows ==
    ASSUME NEW F, NEW L \in Seq(Op), NEW M \in Seq(Op), Grown(L, M), NEW p
    PROVE  /\ Way(F, L, Len(L), p) => Way(F, M, Len(M), p)
           /\ \A n \in 0..Len(L) : Way(F, L, n, p) => Way(F, M, n, p)
BY MadeGrows DEF Way, Made

LEMMA FrameGrows ==
    ASSUME NEW F, NEW L \in Seq(Op), NEW M \in Seq(Op), Grown(L, M), NEW a, NEW d, FrameOK(F, L, a, d)
    PROVE  FrameOK(F, M, a, d)
<1>1. \A b : Mirrored(F, L, a, b, d) => Mirrored(F, M, a, b, d)
  BY MadeGrows DEF Mirrored
<1>2. Unfolding(F, L, a, d) => Unfolding(F, M, a, d)
  BY <1>1, WayGrows DEF Unfolding
<1> QED BY <1>2 DEF FrameOK

LEMMA DepsFrameGrows ==
    ASSUME NEW F, NEW L \in Seq(Op), NEW M \in Seq(Op), Grown(L, M), NEW c, NEW ref, NEW f,
           DepsFrameOK(F, L, c, ref, f)
    PROVE  DepsFrameOK(F, M, c, ref, f)
BY WayGrows, MadeGrows DEF DepsFrameOK

\* Something is put where the plan has made a way to.
LEMMA PushMake ==
    ASSUME NEW F, NEW L \in Seq(Op), PlanOK(F, L), RemovesManaged(L),
           NEW l \in Op, l.act \notin {"REMOVE", "COPY_DIR"}, ~l.sub,
           Way(F, L, Len(L), l.target)
    PROVE  PlanOK(F, Push(L, l)) /\ RemovesManaged(Push(L, l))
<1> DEFINE M == Push(L, l)
<1>1. CASE M = L
  BY <1>1
<1>2. CASE M # L
  <2>1. M \in Seq(Op) /\ Grown(L, M) /\ Len(M) = Len(L) + 1 /\ M[Len(L) + 1] = l
    BY <1>2, PushGrows
  <2> HIDE DEF M
  <2>2. Len(L) \in Nat /\ DOMAIN M = 1..(Len(L) + 1) /\ DOMAIN L = 1..Len(L)
    BY <2>1
  <2>3. \A i \in DOMAIN L : M[i] = L[i] /\ i \in DOMAIN M /\ i - 1 \in 0..Len(L)
    BY <2>1, <2>2 DEF Grown
  <2>4. \A i \in DOMAIN M : i \in DOMAIN L \/ i = Len(L) + 1
    BY <2>2
  <2>5. \A i \in DOMAIN M : Removes(M, i) => i \in DOMAIN L /\ Removes(L, i) /\ M[i] = L[i]
    BY <2>1, <2>3, <2>4 DEF Removes
  <2>6. WaysReady(F, M)
    <3> SUFFICES ASSUME NEW i \in DOMAIN M
                 PROVE  /\ M[i].act # "COPY_DIR" /\ ~M[i].sub
                        /\ ~Removes(M, i) => Way(F, M, i - 1, M[i].target)
      BY DEF WaysReady
    <3>1. CASE i \in DOMAIN L
      <4>1. L[i].act # "COPY_DIR" /\ ~L[i].sub
            /\ (~Removes(L, i) => Way(F, L, i - 1, L[i].target))
        BY <3>1 DEF PlanOK, WaysReady
      <4>2. M[i] = L[i] /\ i - 1 \in 0..Len(L)
        BY <2>3, <3>1
      <4> QED BY <2>1, <4>1, <4>2, WayGrows DEF Removes
    <3>2. CASE i = Len(L) + 1
      <4>1. i - 1 = Len(L) /\ Len(L) \in 0..Len(L)
        BY <2>2, <3>2
      <4> QED BY <2>1, <3>2, <4>1, WayGrows
    <3> QED BY <2>4, <3>1, <3>2
  <2>7. PlanOK(F, M)
    BY <2>5, <2>6 DEF PlanOK
  <2>8. RemovesManaged(M)
    BY <2>5 DEF RemovesManaged
  <2> QED BY <2>7, <2>8 DEF M
<1> QED BY <1>1, <1>2

\* A link of a package is removed.
LEMMA PushRemove ==
    ASSUME NEW F, NEW L \in Seq(Op), PlanOK(F, L), RemovesManaged(L),
           NEW p \in Path, IsLink(F, p), IsLink(fs, p) => Managed(fs[p].ref)
    PROVE  PlanOK(F, Push(L, RemoveOp(p))) /\ RemovesManaged(Push(L, RemoveOp(p)))
<1> DEFINE l == RemoveOp(p)  M == Push(L, l)
<1>0. l \in Op /\ l.act = "REMOVE" /\ l.origin = p /\ l.target = <<>> /\ l.sub = FALSE
  BY NamedOpTyped, EmptyPath DEF RemoveOp, MkOp
<1> HIDE DEF l
<1>1. CASE M = L
  BY <1>1 DEF l
<1>2. CASE M # L
  <2>1. M \in Seq(Op) /\ Grown(L, M) /\ Len(M) = Len(L) + 1 /\ M[Len(L) + 1] = l
        /\ \A i \in 1..Len(L) : ~SameOp(L[i], l)
    BY <1>0, <1>2, PushGrows
  <2> HIDE DEF M
  <2>2. Len(L) \in Nat /\ DOMAIN M = 1..(Len(L) + 1) /\ DOMAIN L = 1..Len(L)
    BY <2>1
  <2>3. \A i \in DOMAIN L : M[i] = L[i] /\ i \in DOMAIN M /\ i - 1 \in 0..Len(L)
    BY <2>1, <2>2 DEF Grown
  <2>4. \A i \in DOMAIN M : i \in DOMAIN L \/ i = Len(L) + 1
    BY <2>2
  <2>5. \A i \in DOMAIN L : Removes(L, i) => L[i].origin # p
    <3> SUFFICES ASSUME NEW i \in DOMAIN L, Removes(L, i), L[i].origin = p PROVE FALSE
      OBVIOUS
    <3>1. SameOp(L[i], l)
      BY <1>0 DEF SameOp, PlanOK, Removes
    <3> QED BY <2>1, <2>2, <3>1
  <2>6. WaysReady(F, M)
    <3> SUFFICES ASSUME NEW i \in DOMAIN M
                 PROVE  /\ M[i].act # "COPY_DIR" /\ ~M[i].sub
                        /\ ~Removes(M, i) => Way(F, M, i - 1, M[i].target)
      BY DEF WaysReady
    <3>1. CASE i \in DOMAIN L
      <4>1. L[i].act # "COPY_DIR" /\ ~L[i].sub
            /\ (~Removes(L, i) => Way(F, L, i - 1, L[i].target))
        BY <3>1 DEF PlanOK, WaysReady
      <4>2. M[i] = L[i] /\ i - 1 \in 0..Len(L)
        BY <2>3, <3>1
      <4> QED BY <2>1, <4>1, <4>2, WayGrows DEF Removes
    <3>2. CASE i = Len(L) + 1
      BY <1>0, <2>1, <3>2 DEF Removes
    <3> QED BY <2>4, <3>1, <3>2
  <2>7. \A i \in DOMAIN M : Removes(M, i) => M[i].target = <<>> /\ IsLink(F, M[i].origin)
    BY <1>0, <2>1, <2>3, <2>4 DEF PlanOK, Removes
  <2>8. ASSUME NEW i \in DOMAIN M, NEW j \in DOMAIN M,
               Removes(M, i), Removes(M, j), M[i].origin = M[j].origin
        PROVE  i = j
    BY <1>0, <2>1, <2>3, <2>4, <2>5, <2>8 DEF PlanOK, Removes
  <2>9. RemovesManaged(M)
    BY <1>0, <2>1, <2>3, <2>4 DEF RemovesManaged, Removes
  <2> QED BY <2>6, <2>7, <2>8, <2>9 DEF PlanOK, M, l
<1> QED BY <1>1, <1>2

LEMMA PushMkdir ==
    ASSUME NEW F, NEW L \in Seq(Op), PlanOK(F, L), RemovesManaged(L), NEW p \in Path,
           Way(F, L, Len(L), p)
    PROVE  /\ PlanOK(F, Push(L, MkdirOp(p))) /\ RemovesManaged(Push(L, MkdirOp(p)))
           /\ Made(Push(L, MkdirOp(p)), p)
<1>1. MkdirOp(p) \in Op /\ MkdirOp(p).act = "MKDIR" /\ MkdirOp(p).target = p
      /\ MkdirOp(p).sub = FALSE
  BY NamedOpTyped, EmptyPath DEF MkdirOp, MkOp
<1>2. PlanOK(F, Push(L, MkdirOp(p))) /\ RemovesManaged(Push(L, MkdirOp(p)))
  BY <1>1, PushMake
<1>3. Made(Push(L, MkdirOp(p)), p)
  <2>1. PICK i \in 1..Len(Push(L, MkdirOp(p))) : SameOp(Push(L, MkdirOp(p))[i], MkdirOp(p))
    BY <1>1, PushGrows
  <2> QED BY <1>1, <2>1 DEF Made, MadeBy, SameOp
<1> QED BY <1>2, <1>3
-----------------------------------------------------------------------------
(***************************************************************************)
(* A directory of the package and the one of the same name in the target.  *)
(***************************************************************************)
LEMMA AddJoin ==
    ASSUME NEW p \in Path, NEW n \in Name, NEW x \in Path
    PROVE  Append(p, n) \o x = p \o (<<n>> \o x) /\ <<n>> \o x \in Path
<1>1. PICK m \in Path : m = <<n>>
  BY AddPath
<1>2. Append(p, n) = p \o m
  BY <1>1, AddPath
<1>3. (p \o m) \o x = p \o (m \o x) /\ m \o x \in Path
  BY JoinPath, JoinAssoc
<1> QED BY <1>1, <1>2, <1>3

LEMMA AddJoins ==
    ASSUME NEW n \in Name, NEW x \in Path
    PROVE  \E z \in Path : \A p \in Path : Append(p, n) \o x = p \o z
<1>1. \A p \in Path : Append(p, n) \o x = p \o (<<n>> \o x)
  BY AddJoin
<1>2. <<n>> \o x \in Path
  BY AddJoin, EmptyPath
<1> QED BY <1>1, <1>2

LEMMA NamesHave ==
    ASSUME NEW F, NEW b \in Path, NEW x \in Path, b \o x \in DOMAIN F
    PROVE  x \in NamesIn(F, b)
BY JoinIn DEF NamesIn

LEMMA NamesAre ==
    ASSUME NEW F, Disk(F), NEW b \in Path, NEW x \in NamesIn(F, b)
    PROVE  x \in Path /\ b \o x \in DOMAIN F
<1>1. PICK q \in DOMAIN F : IsInDir(q, b) /\ x = After(q, b)
  BY DEF NamesIn
<1>2. q \in Path
  BY DEF Disk
<1> QED BY <1>1, <1>2, InDir

\* The directory itself is there or will be.
LEMMA FrameMade ==
    ASSUME NEW F, Disk(F), NEW L, NEW a \in Path, NEW d \in Path, FrameOK(F, L, a, d)
    PROVE  IsDir(F, d) \/ (Made(L, d) /\ Way(F, L, Len(L), d))
<1> SUFFICES ASSUME Unfolding(F, L, a, d) PROVE Made(L, d) /\ Way(F, L, Len(L), d)
  BY DEF FrameOK
<1>1. PICK l \in DOMAIN F :
          /\ IsLink(F, l) /\ IsInDir(d, l)
          /\ IsDir(F, F[l].ref \o After(d, l))
          /\ Mirrored(F, L, a, F[l].ref \o After(d, l), d)
          /\ Way(F, L, Len(L), d)
  BY DEF Unfolding
<1> DEFINE b == F[l].ref \o After(d, l)
<1>2. b \in Path /\ b \in DOMAIN F
  BY <1>1 DEF Disk, IsDir
<1>3. b \o <<>> = b /\ a \o <<>> = a /\ d \o <<>> = d /\ <<>> \in Path
  BY <1>2, PathLen
<1> HIDE DEF b
<1>4. <<>> \in NamesIn(F, b)
  BY <1>2, <1>3, NamesHave
<1>5. Made(L, d \o <<>>)
  BY <1>1, <1>3, <1>4 DEF b, FrameOK, Mirrored
<1> QED BY <1>1, <1>3, <1>5

\* A way to what is there or will be goes on to its entries.
LEMMA WayAdd ==
    ASSUME NEW F, NEW L, NEW w \in Path, Way(F, L, Len(L), w), IsDir(F, w) \/ Made(L, w), NEW n \in Name
    PROVE  Way(F, L, Len(L), Append(w, n))
<1> SUFFICES ASSUME NEW k \in 0..(Len(Append(w, n)) - 1)
             PROVE  \/ IsDir(F, SubSeq(Append(w, n), 1, k))
                    \/ MadeBy(L, Len(L), SubSeq(Append(w, n), 1, k))
  BY DEF Way
<1>1. k \in 0..Len(w) /\ Len(w) \in Nat
  BY AddPath, PathLen
<1>2. SubSeq(Append(w, n), 1, k) = SubSeq(w, 1, k)
  BY <1>1, AddPrefix
<1>3. CASE k = Len(w)
  <2>1. SubSeq(w, 1, k) = w
    BY <1>3, PathLen
  <2> QED BY <1>2, <2>1 DEF Made
<1>4. CASE k # Len(w)
  <2>1. k \in 0..(Len(w) - 1)
    BY <1>1, <1>4
  <2> QED BY <1>2, <2>1 DEF Way
<1> QED BY <1>3, <1>4

LEMMA ChildWay ==
    ASSUME NEW F, Disk(F), NEW L, NEW a \in Path, NEW d \in Path, FrameOK(F, L, a, d), NEW n \in Name
    PROVE  Way(F, L, Len(L), Append(d, n))
<1>1. IsDir(F, d) => Way(F, L, Len(L), d)
  BY DEF Disk, IsDir, Way
<1> QED BY <1>1, FrameMade, WayAdd

\* A child that is seen through a fold.
LEMMA BelowFold ==
    ASSUME NEW F, Disk(F), NEW L, NEW a \in Path, NEW d \in Path, Unfolding(F, L, a, d), NEW n \in Name
    PROVE  /\ ~LinkAt(F, Append(d, n))
           /\ /\ Way(F, L, Len(L), Append(d, n))
              /\ IsDir(F, Append(a, n)) /\ DirAt(F, Append(d, n))
              => Unfolding(F, L, Append(a, n), Append(d, n))
<1>1. PICK l \in DOMAIN F :
          /\ IsLink(F, l) /\ IsInDir(d, l) /\ PlainDir(F, F[l].ref)
          /\ IsDir(F, F[l].ref \o After(d, l))
          /\ Mirrored(F, L, a, F[l].ref \o After(d, l), d)
  BY DEF Unfolding
<1> DEFINE r == F[l].ref  y == After(d, l)  b == r \o y  c == Append(d, n)  e == Append(b, n)
<1>2. l \in Path /\ r \in Path /\ y \in Path /\ d = l \o y /\ b \in Path /\ c \in Path /\ e \in Path
  <2>1. l \in Path /\ r \in Path
    BY DEF Disk, Node
  <2>2. y \in Path /\ d = l \o y
    BY <1>1, <2>1, InDir
  <2>3. b \in Path
    <3> HIDE DEF r, y
    <3> QED BY <2>1, <2>2, JoinPath
  <2> HIDE DEF r, y, b
  <2> QED BY <2>1, <2>2, <2>3, AddPath
<1>3. /\ c = l \o Append(y, n) /\ e = r \o Append(y, n)
      /\ Append(y, n) \in Path /\ Append(y, n) # <<>>
      /\ IsInDir(c, l) /\ After(c, l) = Append(y, n) /\ IsInDir(e, r)
  <2>1. c = l \o Append(y, n) /\ e = r \o Append(y, n)
    <3> HIDE DEF r, y
    <3> QED BY <1>2, JoinAdd DEF b
  <2>2. Append(y, n) \in Path /\ Append(y, n) # <<>>
    BY <1>2, AddPath
  <2> HIDE DEF r, y, b, c, e
  <2> QED BY <1>2, <2>1, <2>2, JoinIn
<1> HIDE DEF r, y, b, c, e
<1>4. Loc(F, c) = e
  BY <1>1, <1>3, LocBelowLink DEF r
<1>5. Loc(F, e) = e /\ ~LinkAt(F, e)
  BY <1>1, <1>2, <1>3, PlainName DEF r
<1>6. ~LinkAt(F, c)
  BY <1>4, <1>5 DEF LinkAt
<1>7. ASSUME Way(F, L, Len(L), c), IsDir(F, Append(a, n)), DirAt(F, c)
      PROVE  Unfolding(F, L, Append(a, n), c)
  <2>1. Lead(F, c) = e /\ Lead(F, e) = e
    BY <1>2, <1>4, <1>5 DEF Lead, Follow, LinkAt
  <2>2. IsDir(F, e)
    BY <1>5, <1>7, <2>1 DEF DirAt, Stat
  <2>3. ASSUME NEW x \in NamesIn(F, e), IsDir(F, Append(a, n) \o x), IsDir(F, e \o x)
        PROVE  Made(L, c \o x)
    <3>1. x \in Path /\ e \o x \in DOMAIN F
      BY <1>2, NamesAre
    <3>2. PICK z \in Path : Append(a, n) \o x = a \o z /\ e \o x = b \o z /\ c \o x = d \o z
      <4>1. PICK z \in Path : \A p \in Path : Append(p, n) \o x = p \o z
        BY <3>1, AddJoins
      <4> QED BY <1>2, <4>1 DEF c, e
    <3>3. z \in NamesIn(F, b)
      BY <1>2, <3>1, <3>2, NamesHave
    <3> QED BY <1>1, <2>3, <3>2, <3>3 DEF Mirrored, b, r, y
  <2>4. Mirrored(F, L, Append(a, n), e, c)
    BY <2>3 DEF Mirrored
  <2>5. F[l].ref \o After(c, l) = e
    BY <1>3 DEF r
  <2> QED BY <1>1, <1>3, <1>7, <2>2, <2>4, <2>5 DEF Unfolding
<1> QED BY <1>6, <1>7 DEF c

\* A link where a child is found is really there.
LEMMA ChildLink ==
    ASSUME NEW F, Disk(F), NEW L, NEW a \in Path, NEW d \in Path, FrameOK(F, L, a, d), NEW n \in Name,
           LinkAt(F, Append(d, n))
    PROVE  Loc(F, Append(d, n)) = Append(d, n) /\ IsLink(F, Append(d, n)) /\ IsDir(F, d)
<1>1. IsDir(F, d)
  BY BelowFold DEF FrameOK
<1>2. Append(d, n) \in Path
  BY AddPath
<1>3. ASSUME NEW k \in 0..(Len(Append(d, n)) - 1) PROVE IsDir(F, SubSeq(Append(d, n), 1, k))
  <2>1. k \in 0..Len(d)
    BY AddPath, PathLen
  <2>2. SubSeq(Append(d, n), 1, k) = SubSeq(d, 1, k) /\ SubSeq(d, 1, k) \in Path
        /\ IsInDir(d, SubSeq(d, 1, k))
    BY <2>1, AddPrefix, PrefixIn
  <2> QED BY <1>1, <2>2, DirOver
<1>4. Loc(F, Append(d, n)) = Append(d, n)
  BY <1>2, <1>3, LocOfWay
<1> QED BY <1>1, <1>4 DEF LinkAt

\* The child's directories fit again.
LEMMA ChildFrame ==
    ASSUME NEW F, Disk(F), PlainDir(F, StowDir), NEW L,
           NEW a \in Path, NEW d \in Path, FrameOK(F, L, a, d), NEW n \in Name,
           DirAt(F, Append(a, n)), Lexists(F, Append(d, n)), ~LinkAt(F, Append(d, n)),
           DirAt(F, Append(d, n))
    PROVE  FrameOK(F, L, Append(a, n), Append(d, n))
<1>1. Append(a, n) \in Path /\ Append(d, n) \in Path /\ IsInDir(Append(a, n), StowDir)
  BY AddPath, InAdd, SetupAssumption DEF FrameOK
<1>2. IsDir(F, Append(a, n))
  BY <1>1, PlainName, SetupAssumption
<1>3. CASE IsDir(F, d)
  <2>1. ASSUME NEW k \in 0..(Len(Append(d, n)) - 1) PROVE IsDir(F, SubSeq(Append(d, n), 1, k))
    <3>1. k \in 0..Len(d)
      BY AddPath, PathLen
    <3>2. SubSeq(Append(d, n), 1, k) = SubSeq(d, 1, k) /\ SubSeq(d, 1, k) \in Path
          /\ IsInDir(d, SubSeq(d, 1, k))
      BY <3>1, AddPrefix, PrefixIn
    <3> QED BY <1>3, <3>2, DirOver
  <2>2. Loc(F, Append(d, n)) = Append(d, n)
    BY <1>1, <2>1, LocOfWay
  <2>3. Stat(F, Append(d, n)) = Append(d, n)
    BY <1>1, <2>2, StatOfNode DEF Lexists
  <2> QED BY <1>1, <1>2, <2>3 DEF FrameOK, DirAt
<1>4. CASE Unfolding(F, L, a, d)
  BY <1>1, <1>2, <1>4, ChildWay, BelowFold DEF FrameOK
<1> QED BY <1>3, <1>4 DEF FrameOK
-----------------------------------------------------------------------------
(***************************************************************************)
(* The steps of the planner.                                               *)
(***************************************************************************)
Ready == CheckOK /\ Straight /\ PlannerOK /\ StowDir \in stow_dirs

\* The calls keep their directories.
SameCalls ==
    \A k \in DOMAIN stack' :
        /\ k \in DOMAIN stack
        /\ stack'[k].base = stack[k].base /\ stack'[k].dir = stack[k].dir

LEMMA DoneSame ==
    ASSUME CheckOK, stack # <<>>, NEW n \in Name, Done(n)
    PROVE  SameCalls
<1>1. stack \in Seq(Call) /\ Len(stack) \in DOMAIN stack /\ stack[Len(stack)] \in Call
  BY TopTyped DEF CheckOK, CheckTypeOK, Top
<1>2. stack' = [stack EXCEPT ![Len(stack)] = [stack[Len(stack)] EXCEPT !.kids = @ \ {n}]]
  BY DEF Done
<1>3. DOMAIN stack' = DOMAIN stack
  BY <1>1, <1>2
<1>4. [stack[Len(stack)] EXCEPT !.kids = @ \ {n}].base = stack[Len(stack)].base
      /\ [stack[Len(stack)] EXCEPT !.kids = @ \ {n}].dir = stack[Len(stack)].dir
  BY <1>1 DEF Call
<1> QED BY <1>1, <1>2, <1>3, <1>4 DEF SameCalls

LEMMA CallsKept ==
    ASSUME CheckOK, CallsOK, SameCalls, UNCHANGED <<fs, host, stow_dirs>>,
           NEW M, links' = M, M \in Seq(Op), Grown(links, M), PlanOK(fs, M), RemovesManaged(M)
    PROVE  CallsOK'
<1>1. links \in Seq(Op)
  BY DEF CheckOK, CheckTypeOK
<1>2. \A k \in DOMAIN stack' : FrameOK(fs, M, stack'[k].base, stack'[k].dir)
  BY <1>1, FrameGrows DEF CallsOK, SameCalls
<1>3. RemovesManaged(links)'
  BY DEF RemovesManaged, Managed, match_stow_dirs, match_auto_stow_dirs, Config
<1> QED BY <1>2, <1>3 DEF CallsOK

\* What a child of the innermost call finds.
LEMMA ChildFacts ==
    ASSUME CheckOK, CallsOK, stack # <<>>, NEW n \in Name
    PROVE  /\ FrameOK(fs, links, Top.base, Top.dir) /\ Top.base \in Path /\ Top.dir \in Path
           /\ Base(n) \in Path /\ There(n) \in Path
           /\ IsInDir(Base(n), StowDir)
           /\ Way(fs, links, Len(links), There(n))
           /\ LinkAt(fs, There(n)) => Loc(fs, There(n)) = There(n) /\ IsLink(fs, There(n))
<1>1. Top \in Call /\ Len(stack) \in DOMAIN stack /\ Base(n) \in Path /\ There(n) \in Path
  BY TopTyped DEF CheckOK, CheckTypeOK
<1>2. FrameOK(fs, links, Top.base, Top.dir) /\ Top.base \in Path /\ Top.dir \in Path
  BY <1>1 DEF CallsOK, Top, Call
<1>3. IsInDir(Base(n), StowDir)
  BY <1>2, InAdd, SetupAssumption DEF Base, FrameOK
<1>4. Disk(fs)
  BY DEF CheckOK
<1> QED BY <1>1, <1>2, <1>3, <1>4, ChildWay, ChildLink DEF There

LEMMA SkipKeeps ==
    ASSUME CheckOK, CallsOK, phase = "check", NEW n \in Name, Skip(n)
    PROVE  PlannerOK'
<1>1. SameCalls
  BY DoneSame DEF Skip, CheckOK, CheckTypeOK
<1>2. links \in Seq(Op) /\ Grown(links, links)
  BY GrownSelf DEF CheckOK, CheckTypeOK
<1>3. CallsOK'
  BY <1>1, <1>2, CallsKept DEF Skip, CallsOK, setupVars, listVars
<1> QED BY <1>3 DEF Skip, PlannerOK

LEMMA PlanKeeps ==
    ASSUME CheckOK, CallsOK, phase = "check", NEW n \in Name, NEW l \in Op, Plan(n, l),
           PlanOK(fs, Push(links, l)), RemovesManaged(Push(links, l))
    PROVE  PlannerOK'
<1>1. SameCalls
  BY DoneSame DEF Plan, CheckOK, CheckTypeOK
<1>2. Push(links, l) \in Seq(Op) /\ Grown(links, Push(links, l))
  BY PushGrows DEF CheckOK, CheckTypeOK
<1>3. CallsOK'
  BY <1>1, <1>2, CallsKept DEF Plan, setupVars, listVars
<1> QED BY <1>3 DEF Plan, PlannerOK

\* Something is put at the child's place.
LEMMA PlanMakeKeeps ==
    ASSUME CheckOK, CallsOK, phase = "check", NEW n \in Name, NEW l \in Op, Plan(n, l),
           l.act \notin {"REMOVE", "COPY_DIR"}, ~l.sub, l.target = There(n)
    PROVE  PlannerOK'
<1>1. Way(fs, links, Len(links), There(n)) /\ links \in Seq(Op)
  BY ChildFacts DEF CheckOK, CheckTypeOK
<1>2. PlanOK(fs, Push(links, l)) /\ RemovesManaged(Push(links, l))
  BY <1>1, PushMake DEF CallsOK
<1> QED BY <1>2, PlanKeeps

LEMMA StopKeeps ==
    ASSUME phase' \in Stopped PROVE PlannerOK'
BY DEF PlannerOK, Stopped

LEMMA ObstacleKeeps ==
    ASSUME CheckOK, CallsOK, phase = "check", NEW n \in Name, Obstacle(n)
    PROVE  PlannerOK'
BY SkipKeeps, StopKeeps DEF Obstacle, Stop, Stopped

LEMMA DiveKeeps ==
    ASSUME CheckOK, CallsOK, phase = "check", NEW n \in Name, NEW into, DiveTo(n, into),
           UNCHANGED <<links, fs, host, stow_dirs>>,
           DirAt(fs, into) => FrameOK(fs, links, Base(n), into)
    PROVE  PlannerOK'
<1>1. SameCalls
  BY DoneSame DEF DiveTo, CheckOK, CheckTypeOK
<1>2. links \in Seq(Op) /\ Grown(links, links)
  BY GrownSelf DEF CheckOK, CheckTypeOK
<1>3. CallsOK'
  BY <1>1, <1>2, CallsKept DEF CallsOK
<1>4. phase' = "dive" /\ at'.into = into /\ at'.base = Base(n)
  BY DEF DiveTo
<1> QED BY <1>3, <1>4 DEF PlannerOK

\* Where a link of the target is followed.
LEMMA TraverseFrame ==
    ASSUME Ready, phase = "check", NEW n \in Name, OpenDir(n), LinkAt(fs, There(n)),
           There(n) \in trav \/ match_auto_traverse(Buf(n)), DirAt(fs, Buf(n))
    PROVE  FrameOK(fs, links, Base(n), Buf(n))
<1>1. CheckOK /\ CallsOK /\ stack # <<>> /\ Disk(fs) /\ PlainDir(fs, StowDir)
  BY DEF Ready, PlannerOK, CheckOK, CheckTypeOK, Straight
<1>2. IsInDir(Base(n), StowDir) /\ Base(n) \in Path
      /\ IsLink(fs, There(n)) /\ Buf(n) = fs[There(n)].ref
  BY <1>1, ChildFacts DEF Buf, LinkBuf
<1>3. IsDir(fs, Base(n))
  BY <1>1, <1>2, PlainName, SetupAssumption DEF OpenDir, FoundDir, IsDirNode
<1>4. There(n) \in DOMAIN fs
  BY <1>2 DEF IsLink
<1>5. IsDir(fs, Buf(n))
  BY <1>2, <1>4 DEF Ready, Straight
<1> QED BY <1>2, <1>3, <1>5 DEF FrameOK

\* A directory that a package has is among the children Node::scan keeps.
LEMMA ChildOfDir ==
    ASSUME Disk(fs), Config.nignores = <<>>, NEW d \in Path, PlainDir(fs, d),
           NEW a \in Path, IsInDir(a, d), NEW m \in Name, NEW z \in Path, IsDir(fs, Append(a, m) \o z)
    PROVE  m \in Children(a)
<1>1. Append(a, m) \in Path /\ IsInDir(Append(a, m) \o z, Append(a, m)) /\ IsInDir(Append(a, m), d)
  BY AddPath, JoinIn, InAdd
<1>2. IsDir(fs, Append(a, m))
  BY <1>1, DirOver
<1>3. m \in Entries(fs, a)
  BY <1>2, PlainName DEF IsDir
<1>4. IsDirNode(Append(a, m))
  BY <1>1, <1>2, PlainName DEF IsDirNode
<1>5. Passes(a)
  BY DEF Passes
<1> QED BY <1>3, <1>4, <1>5 DEF Children, IgnoredFile

\* What two packages both have below a and b is the business of the call that
\* is made for a and b.
LEMMA CommonCovers ==
    ASSUME Disk(fs), Config.nignores = <<>>,
           NEW d \in Path, PlainDir(fs, d), NEW a \in Path, IsInDir(a, d),
           NEW e \in Path, PlainDir(fs, e), NEW b \in Path, IsInDir(b, e),
           NEW x \in Path, x # <<>>, IsDir(fs, a \o x), IsDir(fs, b \o x)
    PROVE  \E m \in Children(a) \cap Children(b) :
              \A w \in Path : IsInDir(w \o x, Append(w, m))
<1>1. PICK m \in Name, z \in Path : x = <<m>> \o z
  BY FirstName
<1>2. \A w \in Path : w \o x = Append(w, m) \o z
  BY <1>1, AddJoin
<1>3. m \in Children(a) /\ m \in Children(b)
  BY <1>2, ChildOfDir
<1>4. \A w \in Path : IsInDir(w \o x, Append(w, m))
  BY <1>2, AddPath, JoinIn
<1> QED BY <1>3, <1>4

\* What a foreign link that is taken for another package's leads to.
LEMMA FoldedPlain ==
    ASSUME Ready, phase = "check", NEW n \in Name, LinkedDir(n), OtherPackage(n), Readable(fs, Buf(n))
    PROVE  /\ IsLink(fs, There(n)) /\ fs[There(n)].ref = Buf(n) /\ Buf(n) \in Path
           /\ PlainDir(fs, Buf(n)) /\ Managed(Buf(n))
           /\ IsDir(fs, Base(n))
<1>1. CheckOK /\ CallsOK /\ stack # <<>> /\ Disk(fs) /\ PlainDir(fs, StowDir) /\ LinkAt(fs, There(n))
  BY DEF Ready, PlannerOK, CheckOK, CheckTypeOK, Straight, LinkedDir
<1>2. IsInDir(Base(n), StowDir) /\ Base(n) \in Path
      /\ IsLink(fs, There(n)) /\ Buf(n) = fs[There(n)].ref
  BY <1>1, ChildFacts DEF Buf, LinkBuf
<1>3. Buf(n) \in Path
  BY <1>1, LinkBufPath DEF Buf
<1>4. IsDir(fs, Base(n))
  BY <1>1, <1>2, PlainName, SetupAssumption DEF LinkedDir, OpenDir, FoundDir, IsDirNode
<1>5. PlainDir(fs, Buf(n))
  <2>1. CASE match_stow_dirs(Buf(n))
    <3>1. PICK d \in stow_dirs : IsInDir(Buf(n), d)
      BY <2>1 DEF match_stow_dirs
    <3>2. d \in Path /\ PlainDir(fs, d)
      BY <1>1 DEF CheckOK, SetupTypeOK, Ready, Straight
    <3>3. IsDir(fs, Buf(n))
      BY <1>1, <1>3, <3>1, <3>2, PlainName
    <3> QED BY <1>1, <1>3, <3>1, <3>2, <3>3, PlainBelow
  <2>2. CASE match_auto_stow_dirs(Buf(n))
    BY <2>2 DEF match_auto_stow_dirs, Ready, Straight, Readable
  <2> QED BY <2>1, <2>2 DEF OtherPackage
<1> QED BY <1>2, <1>3, <1>4, <1>5 DEF OtherPackage, Managed

\* The first call of checkDirs.
LEMMA ChildFoldedKeeps ==
    ASSUME Ready, NEW n \in Name, ChildFolded(n)
    PROVE  PlannerOK'
<1> DEFINE w == There(n)  a == Base(n)  b == Buf(n)
           L == Push(links, RemoveOp(w))  M == Push(L, MkdirOp(w))
<1>1. phase = "check" /\ CheckOK /\ CallsOK /\ stack # <<>> /\ Disk(fs) /\ PlainDir(fs, StowDir)
      /\ links \in Seq(Op) /\ Config.nignores = <<>>
  BY DEF ChildFolded, LinkedDir, OpenDir, FoundDir, Found, Ready, PlannerOK, CheckOK, CheckTypeOK,
         Straight
<1>2. CASE ~(Readable(fs, a) /\ Readable(fs, b))
  BY <1>2, StopKeeps DEF ChildFolded, CheckDirs, Stopped
<1>3. CASE Readable(fs, a) /\ Readable(fs, b)
  <2> DEFINE frame == [a |-> a, b |-> b, w |-> w,
                       common |-> Children(a) \cap Children(b), rest |-> Children(b) \ Children(a)]
             c == [entry |-> w, into |-> w, base |-> a]
  <2>1. links' = M /\ deps' = <<frame>> /\ phase' = "deps" /\ at' = c /\ Done(n)
        /\ UNCHANGED <<setupVars, fs>>
    <3>1. links' = M /\ deps' = Append(<<>>, frame) /\ phase' = "deps" /\ at' = c /\ Done(n)
          /\ UNCHANGED <<setupVars, fs>>
      BY <1>3 DEF ChildFolded, CheckDirs
    <3>2. Append(<<>>, frame) = <<frame>>
      OBVIOUS
    <3> QED BY <3>1, <3>2
  <2>2. IsLink(fs, w) /\ fs[w].ref = b /\ b \in Path /\ PlainDir(fs, b) /\ Managed(b) /\ IsDir(fs, a)
    BY <1>1, <1>3, FoldedPlain DEF ChildFolded
  <2>3. w \in Path /\ a \in Path /\ IsInDir(a, StowDir) /\ Way(fs, links, Len(links), w)
    BY <1>1, ChildFacts
  <2> HIDE DEF w, a, b
  <2>4. L \in Seq(Op) /\ Grown(links, L) /\ PlanOK(fs, L) /\ RemovesManaged(L)
    <3>1. RemoveOp(w) \in Op
      BY <2>3, NamedOpTyped
    <3> QED BY <1>1, <2>2, <2>3, <3>1, PushGrows, PushRemove DEF CallsOK
  <2> HIDE DEF L
  <2>5. Way(fs, L, Len(L), w)
    BY <1>1, <2>3, <2>4, WayGrows
  <2>6. M \in Seq(Op) /\ Grown(L, M) /\ PlanOK(fs, M) /\ RemovesManaged(M) /\ Made(M, w)
    <3>1. MkdirOp(w) \in Op
      BY <2>3, NamedOpTyped
    <3> QED BY <2>3, <2>4, <2>5, <3>1, PushGrows, PushMkdir
  <2> HIDE DEF M
  <2>7. Grown(links, M) /\ Way(fs, M, Len(M), w)
    BY <1>1, <2>4, <2>5, <2>6, GrownTrans, WayGrows
  <2>8. CallsOK'
    <3>1. SameCalls
      BY <1>1, <2>1, DoneSame
    <3> QED BY <1>1, <2>1, <2>6, <2>7, <3>1, CallsKept DEF setupVars, listVars
  <2>9. DepsOK(fs, M, <<frame>>, c)
    <3>1. After(w, w) = <<>> /\ w \o <<>> = w /\ a \o <<>> = a /\ b \o <<>> = b
      BY <2>2, <2>3, InSelf, PathLen
    <3>2. DepsFrameOK(fs, M, c, b, frame)
      BY <2>2, <2>3, <2>6, <2>7, <3>1 DEF DepsFrameOK, PlainDir
    <3>3. ASSUME NEW x \in NamesIn(fs, b), IsDir(fs, a \o x), IsDir(fs, b \o x)
          PROVE  Made(M, w \o x) \/ \E m \in frame.common : IsInDir(w \o x, Append(w, m))
      <4>1. x \in Path
        BY <1>1, <2>2, NamesAre
      <4>2. CASE x = <<>>
        BY <2>6, <3>1, <4>2
      <4>3. CASE x # <<>>
        <5>1. IsInDir(b, b)
          BY <2>2, InSelf
        <5> QED BY <1>1, <2>2, <2>3, <3>3, <4>1, <4>3, <5>1, CommonCovers, SetupAssumption
      <4> QED BY <4>2, <4>3
    <3> HIDE DEF frame
    <3>4. \A k \in DOMAIN <<frame>> : <<frame>>[k] = frame
      OBVIOUS
    <3>5. 1 \in DOMAIN <<frame>> /\ frame.w = w
      BY DEF frame
    <3> QED BY <2>2, <2>3, <3>2, <3>3, <3>4, <3>5 DEF DepsOK
  <2>10. fs' = fs /\ IsDir(fs, a)
    BY <2>1, <2>2
  <2> HIDE DEF frame
  <2> QED BY <2>1, <2>8, <2>9, <2>10 DEF PlannerOK
<1> QED BY <1>2, <1>3

LEMMA CheckChildKeeps ==
    ASSUME Ready, NEW n \in Name, CheckChild(n)
    PROVE  PlannerOK'
<1>1. phase = "check"
  BY DEF CheckChild, ChildOwn, ChildExec, ChildCopied, ChildConflict,
         ChildProtected, ChildDir, ChildTraversed, ChildAutoTraverse, ChildForeign,
         ChildFolded, ChildMissing, FoundFile, FoundDir, Found, Missing, OpenDir, LinkedDir
<1>2. CheckOK /\ CallsOK /\ stack # <<>> /\ Disk(fs) /\ PlainDir(fs, StowDir)
      /\ Config.copy = {} /\ StowDir \in stow_dirs
  BY <1>1 DEF Ready, PlannerOK, CheckOK, CheckTypeOK, Straight
<1>3. There(n) \in Path /\ Base(n) \in Path /\ IsInDir(Base(n), StowDir)
      /\ (LinkAt(fs, There(n)) => Loc(fs, There(n)) = There(n) /\ IsLink(fs, There(n)))
      /\ FrameOK(fs, links, Top.base, Top.dir) /\ Top.base \in Path /\ Top.dir \in Path
  BY <1>2, ChildFacts
<1>4. \A l \in Op : l.act \notin {"REMOVE", "COPY_DIR"} /\ l.sub = FALSE /\ l.target = There(n) /\ Plan(n, l)
                      => PlannerOK'
  BY <1>1, <1>2, PlanMakeKeeps
<1>5. CASE ChildOwn(n)
  <2>1. CASE Plan(n, RemoveOp(There(n)))
    <3>1. IsLink(fs, There(n)) /\ fs[There(n)].ref = Base(n)
      BY <1>3, <1>5 DEF ChildOwn, OwnLink, LinkBuf
    <3>2. Managed(fs[There(n)].ref)
      BY <1>2, <1>3, <3>1 DEF Managed, match_stow_dirs
    <3>3. links \in Seq(Op) /\ RemoveOp(There(n)) \in Op
      BY <1>2, <1>3, NamedOpTyped DEF CheckOK, CheckTypeOK
    <3>4. PlanOK(fs, Push(links, RemoveOp(There(n)))) /\ RemovesManaged(Push(links, RemoveOp(There(n))))
      BY <1>2, <1>3, <3>1, <3>2, <3>3, PushRemove DEF CallsOK
    <3> QED BY <1>1, <1>2, <2>1, <3>3, <3>4, PlanKeeps
  <2> QED BY <1>1, <1>2, <1>5, <2>1, SkipKeeps DEF ChildOwn
<1>6. CASE ChildExec(n)
  <2>1. exec_of(n) \in {"", "exec", "exec-unstow"}
    BY DEF exec_of
  <2>2. MkOp("EXEC", Base(n), There(n), exec_of(n)) \in Op
    BY <1>3, <2>1, OpTyped
  <2> QED BY <1>4, <1>6, <2>2 DEF ChildExec, MkOp
<1>7. CASE ChildCopied(n)
  <2>1. MkOp("COPY", Base(n), There(n), "") \in Op
    BY <1>3, OpTyped
  <2> QED BY <1>1, <1>2, <1>4, <1>7, <2>1, SkipKeeps DEF ChildCopied, MkOp
<1>8. CASE ChildConflict(n)
  BY <1>1, <1>2, <1>8, SkipKeeps, ObstacleKeeps DEF ChildConflict
<1>9. CASE ChildProtected(n) \/ ChildForeign(n)
  BY <1>1, <1>2, <1>9, ObstacleKeeps DEF ChildProtected, ChildForeign
<1>10. CASE ChildDir(n)
  <2>1. Lexists(fs, There(n)) /\ ~LinkAt(fs, There(n)) /\ DirAt(fs, Base(n))
    BY <1>10 DEF ChildDir, OpenDir, FoundDir, Found, IsDirNode
  <2>2. DirAt(fs, There(n)) => FrameOK(fs, links, Base(n), There(n))
    BY <1>2, <1>3, <2>1, ChildFrame DEF There, Base
  <2> QED BY <1>1, <1>2, <1>10, <2>2, DiveKeeps DEF ChildDir, setupVars, listVars
<1>11. CASE ChildTraversed(n)
  <2>1. DirAt(fs, Buf(n)) => FrameOK(fs, links, Base(n), Buf(n))
    BY <1>1, <1>11, TraverseFrame DEF ChildTraversed
  <2> QED BY <1>1, <1>2, <1>11, <2>1, DiveKeeps DEF ChildTraversed, setupVars, listVars
<1>12. CASE ChildAutoTraverse(n)
  <2>1. DirAt(fs, Buf(n)) => FrameOK(fs, links, Base(n), Buf(n))
    BY <1>1, <1>12, TraverseFrame DEF ChildAutoTraverse, LinkedDir
  <2> QED BY <1>1, <1>2, <1>12, <2>1, DiveKeeps DEF ChildAutoTraverse
<1>13. CASE ChildFolded(n)
  BY <1>13, ChildFoldedKeeps
<1>14. CASE ChildMissing(n)
  <2>1. Install(n) \in {MkOp("COPY", Base(n), There(n), ""), LinkOp(Base(n), There(n))}
    BY <1>2 DEF Install, match_copy
  <2>2. Install(n) \in Op
    BY <1>2, InstallTyped
  <2>3. Install(n).act \notin {"REMOVE", "COPY_DIR"} /\ Install(n).sub = FALSE /\ Install(n).target = There(n)
    <3>1. \A a \in {"COPY", "SET_LINK"} :
              LET l == MkOp(a, Base(n), There(n), "")
              IN  l.act \notin {"REMOVE", "COPY_DIR"} /\ l.sub = FALSE /\ l.target = There(n)
      BY DEF MkOp
    <3>2. \E a \in {"COPY", "SET_LINK"} : Install(n) = MkOp(a, Base(n), There(n), "")
      BY <2>1 DEF LinkOp
    <3> QED BY <3>1, <3>2
  <2>4. Skip(n) \/ Plan(n, Install(n)) \/ Stop("refused")
    BY <1>14 DEF ChildMissing
  <2> QED BY <1>1, <1>2, <1>4, <2>2, <2>3, <2>4, SkipKeeps, StopKeeps DEF Stop, Stopped
<1> QED BY <1>5, <1>6, <1>7, <1>8, <1>9, <1>10, <1>11, <1>12, <1>13, <1>14 DEF CheckChild

\* The innermost call of checkDirs works in two packages that hold no links,
\* and where the plan leads.
LEMMA DepsFacts ==
    ASSUME Ready, phase = "deps", NEW n \in Name
    PROVE  /\ CheckOK /\ CallsOK /\ Disk(fs) /\ Config.nignores = <<>> /\ links \in Seq(Op)
           /\ deps \in Seq(DepsCall) /\ Len(deps) \in DOMAIN deps /\ at \in Child
           /\ at.entry \in Path /\ at.base \in Path /\ fs[at.entry].ref \in Path
           /\ PlainDir(fs, StowDir) /\ PlainDir(fs, fs[at.entry].ref) /\ IsInDir(at.base, StowDir)
           /\ Deps.w \in Path /\ Way(fs, links, Len(links), Deps.w)
           /\ A(n) \in Path /\ B(n) \in Path /\ W(n) \in Path
           /\ IsInDir(A(n), StowDir) /\ IsInDir(B(n), fs[at.entry].ref)
           /\ Way(fs, links, Len(links), W(n))
           /\ \E y \in Path : /\ W(n) = at.entry \o y /\ y = After(W(n), at.entry)
                              /\ A(n) = at.base \o y /\ B(n) = fs[at.entry].ref \o y
<1> DEFINE e == at.entry  r == fs[e].ref  y == After(Deps.w, e)
<1>1. /\ CheckOK /\ CallsOK /\ Disk(fs) /\ Config.nignores = <<>> /\ links \in Seq(Op)
      /\ deps \in Seq(DepsCall) /\ at \in Child /\ DepsOK(fs, links, deps, at)
      /\ PlainDir(fs, StowDir)
  BY DEF Ready, PlannerOK, CheckOK, CheckTypeOK, Straight
<1>2. Len(deps) \in DOMAIN deps /\ Deps \in DepsCall /\ A(n) \in Path /\ B(n) \in Path /\ W(n) \in Path
  BY <1>1, DepsTyped
<1>3. e \in Path /\ at.base \in Path /\ IsLink(fs, e) /\ PlainDir(fs, r) /\ IsInDir(at.base, StowDir)
      /\ DepsFrameOK(fs, links, at, r, Deps)
  BY <1>1, <1>2 DEF DepsOK, Child, Deps
<1>4. r \in Path /\ Deps.w \in Path
  BY <1>1, <1>2, <1>3 DEF IsLink, Disk, Node, DepsCall
<1>5. Deps.w = e \o y /\ Deps.a = at.base \o y /\ Deps.b = r \o y
      /\ Way(fs, links, Len(links), Deps.w) /\ Made(links, Deps.w)
  BY <1>3 DEF DepsFrameOK
<1>6. y \in Path
  <2>1. Len(e) \in Nat /\ Len(Deps.w) \in Nat
    BY <1>3, <1>4, PathLen
  <2> QED BY <1>4, <2>1 DEF After, Path
<1> HIDE DEF y, r, e
<1>7. Append(y, n) \in Path /\ W(n) = e \o Append(y, n) /\ A(n) = at.base \o Append(y, n)
      /\ B(n) = r \o Append(y, n)
  <2>1. Append(y, n) \in Path
    BY <1>6, AddPath
  <2>2. \A p \in Path : Append(p \o y, n) = p \o Append(y, n)
    BY <1>6, JoinAdd
  <2>3. W(n) = Append(e \o y, n) /\ A(n) = Append(at.base \o y, n) /\ B(n) = Append(r \o y, n)
    BY <1>5 DEF W, A, B
  <2> QED BY <1>3, <1>4, <2>1, <2>2, <2>3
<1>8. After(W(n), e) = Append(y, n)
  BY <1>3, <1>7, JoinIn
<1>9. IsInDir(A(n), StowDir)
  BY <1>2, <1>3, <1>7, JoinIn, InTrans, SetupAssumption
<1>10. IsInDir(B(n), r)
  BY <1>4, <1>7, JoinIn
<1>11. Way(fs, links, Len(links), W(n))
  BY <1>4, <1>5, WayAdd DEF W
<1>12. \E z \in Path : /\ W(n) = e \o z /\ z = After(W(n), e)
                       /\ A(n) = at.base \o z /\ B(n) = r \o z
  BY <1>7, <1>8
<1> QED BY <1>1, <1>2, <1>3, <1>4, <1>5, <1>9, <1>10, <1>11, <1>12 DEF r, e

\* What both packages have below the name the call comes to.
LEMMA DepsBelow ==
    ASSUME Ready, phase = "deps", NEW n \in Name, NEW x \in Path, IsInDir(at.entry \o x, W(n))
    PROVE  \E z \in Path : /\ at.entry \o x = W(n) \o z
                           /\ at.base \o x = A(n) \o z
                           /\ fs[at.entry].ref \o x = B(n) \o z
<1>1. at.entry \in Path /\ at.base \in Path /\ fs[at.entry].ref \in Path /\ W(n) \in Path
  BY DepsFacts
<1>2. PICK y \in Path : W(n) = at.entry \o y /\ A(n) = at.base \o y /\ B(n) = fs[at.entry].ref \o y
  BY DepsFacts
<1>3. PICK z \in Path : at.entry \o x = W(n) \o z
  <2>1. at.entry \o x \in Path
    BY <1>1, JoinPath
  <2> QED BY <1>1, <2>1, InDir
<1>4. \A p \in Path : p \o x = (p \o y) \o z
  <2>1. PICK e \in Path : e \o x = (e \o y) \o z
    BY <1>1, <1>2, <1>3
  <2>2. \A p \in Path : (p \o y) \o z = p \o (y \o z)
    BY JoinAssoc
  <2>3. y \o z \in Path
    BY JoinPath
  <2>4. e \o x = e \o (y \o z)
    BY <2>1, <2>2
  <2>5. x = y \o z
    BY <2>3, <2>4, JoinCancel
  <2> QED BY <2>2, <2>5
<1>5. at.base \o x = (at.base \o y) \o z /\ fs[at.entry].ref \o x = (fs[at.entry].ref \o y) \o z
  BY <1>1, <1>4
<1> QED BY <1>2, <1>3, <1>5

\* The calls after one name less is to do.
LEMMA HandledSame ==
    ASSUME deps \in Seq(DepsCall), deps # <<>>, NEW n \in Name
    PROVE  /\ Handled(n) \in Seq(DepsCall) /\ DOMAIN Handled(n) = DOMAIN deps
           /\ \A k \in DOMAIN deps :
                 /\ Handled(n)[k].a = deps[k].a /\ Handled(n)[k].b = deps[k].b
                 /\ Handled(n)[k].w = deps[k].w
                 /\ \A m \in deps[k].common :
                       m \in Handled(n)[k].common \/ (k = Len(deps) /\ m = n)
<1> DEFINE i == Len(deps)  f == [deps[i] EXCEPT !.common = @ \ {n}]
<1>1. i \in DOMAIN deps /\ deps[i] \in DepsCall
  OBVIOUS
<1>2. f \in DepsCall /\ f.a = deps[i].a /\ f.b = deps[i].b /\ f.w = deps[i].w
      /\ f.common = deps[i].common \ {n}
  BY <1>1 DEF DepsCall
<1>3. Handled(n) = [deps EXCEPT ![i] = f]
  BY DEF Handled
<1> HIDE DEF f
<1> QED BY <1>1, <1>2, <1>3
\* A directory that both packages have below the name the call comes to.
LEMMA DepsShared ==
    ASSUME Ready, phase = "deps", NEW n \in Name, NEW x \in Path, IsInDir(at.entry \o x, W(n)),
           IsDir(fs, at.base \o x), IsDir(fs, fs[at.entry].ref \o x)
    PROVE  /\ IsDir(fs, A(n)) /\ IsDir(fs, B(n)) /\ IsDirNode(A(n)) /\ IsDirNode(B(n))
           /\ \/ at.entry \o x = W(n)
              \/ \E m \in Children(A(n)) \cap Children(B(n)) :
                    IsInDir(at.entry \o x, Append(W(n), m))
<1> DEFINE r == fs[at.entry].ref
<1>1. /\ Disk(fs) /\ Config.nignores = <<>> /\ r \in Path
      /\ PlainDir(fs, StowDir) /\ PlainDir(fs, r)
      /\ A(n) \in Path /\ B(n) \in Path /\ W(n) \in Path
      /\ IsInDir(A(n), StowDir) /\ IsInDir(B(n), r)
  BY DepsFacts
<1>2. PICK z \in Path : at.entry \o x = W(n) \o z /\ at.base \o x = A(n) \o z /\ r \o x = B(n) \o z
  BY DepsBelow
<1> HIDE DEF r
<1>3. IsDir(fs, A(n) \o z) /\ IsDir(fs, B(n) \o z)
  BY <1>2 DEF r
<1>4. IsDir(fs, A(n)) /\ IsDir(fs, B(n))
  BY <1>1, <1>3, JoinIn, DirOver
<1>5. IsDirNode(A(n)) /\ IsDirNode(B(n))
  BY <1>1, <1>4, PlainName, SetupAssumption DEF IsDirNode
<1>6. CASE z = <<>>
  BY <1>1, <1>2, <1>4, <1>5, <1>6, PathLen
<1>7. CASE z # <<>>
  <2>1. PICK m \in Children(A(n)) \cap Children(B(n)) :
            \A w \in Path : IsInDir(w \o z, Append(w, m))
    BY <1>1, <1>3, <1>7, CommonCovers, SetupAssumption
  <2> QED BY <1>1, <1>2, <1>4, <1>5, <2>1
<1> QED BY <1>6, <1>7

\* checkDirs goes on.
LEMMA DepsKept ==
    ASSUME Ready, phase = "deps", phase' = "deps",
           UNCHANGED <<stack, at, host, stow_dirs, fs>>,
           NEW M \in Seq(Op), links' = M, Grown(links, M), PlanOK(fs, M), RemovesManaged(M),
           NEW D, deps' = D,
           \A k \in DOMAIN D : DepsFrameOK(fs, M, at, fs[at.entry].ref, D[k]),
           \A x \in NamesIn(fs, fs[at.entry].ref) :
              /\ IsDir(fs, at.base \o x) /\ IsDir(fs, fs[at.entry].ref \o x)
              /\ ~Made(M, at.entry \o x)
              => \E k \in DOMAIN D : \E n \in D[k].common :
                    IsInDir(at.entry \o x, Append(D[k].w, n))
    PROVE  PlannerOK'
<1>1. CheckOK /\ CallsOK /\ DepsOK(fs, links, deps, at) /\ IsDir(fs, at.base)
  BY DEF Ready, PlannerOK
<1>2. SameCalls
  BY DEF SameCalls
<1>3. CallsOK'
  BY <1>1, <1>2, CallsKept
<1>4. DepsOK(fs, M, D, at)
  BY <1>1 DEF DepsOK
<1>5. DepsOK(fs, links, deps, at)'
  BY <1>4 DEF DepsOK, DepsFrameOK, NamesIn
<1> QED BY <1>1, <1>3, <1>5 DEF PlannerOK

\* What was covered before is covered by a call in D, when D keeps the names
\* to come.
LEMMA DepsCovered ==
    ASSUME Ready, phase = "deps", NEW M \in Seq(Op), Grown(links, M),
           NEW x \in NamesIn(fs, fs[at.entry].ref),
           IsDir(fs, at.base \o x), IsDir(fs, fs[at.entry].ref \o x), ~Made(M, at.entry \o x)
    PROVE  \E k \in DOMAIN deps : \E n \in deps[k].common :
              n \in Name /\ IsInDir(at.entry \o x, Append(deps[k].w, n))
<1>1. DepsOK(fs, links, deps, at) /\ deps \in Seq(DepsCall) /\ links \in Seq(Op)
  BY DEF Ready, PlannerOK, CheckOK, CheckTypeOK
<1>2. ~Made(links, at.entry \o x)
  BY <1>1, MadeGrows
<1>3. \A k \in DOMAIN deps : deps[k].common \subseteq Name
  <2>1. \A k \in DOMAIN deps : deps[k] \in DepsCall
    BY <1>1
  <2> QED BY <2>1 DEF DepsCall
<1> QED BY <1>1, <1>2, <1>3 DEF DepsOK

LEMMA DepsHarmlessKeeps ==
    ASSUME Ready, NEW n \in Name, DepsHarmless(n)
    PROVE  PlannerOK'
<1>1. phase = "deps" /\ phase' = "deps" /\ deps' = Handled(n)
      /\ UNCHANGED <<stack, at, links, host, stow_dirs, fs>>
  BY DEF DepsHarmless, Shared, setupVars, listVars
<1>2. CheckOK /\ CallsOK /\ Disk(fs) /\ links \in Seq(Op) /\ deps \in Seq(DepsCall)
      /\ Len(deps) \in DOMAIN deps /\ fs[at.entry].ref \in Path
  BY <1>1, DepsFacts
<1>3. deps # <<>>
  BY <1>2
<1>4. /\ DOMAIN Handled(n) = DOMAIN deps
      /\ \A k \in DOMAIN deps :
            /\ Handled(n)[k].a = deps[k].a /\ Handled(n)[k].b = deps[k].b
            /\ Handled(n)[k].w = deps[k].w
            /\ \A m \in deps[k].common :
                  m \in Handled(n)[k].common \/ (k = Len(deps) /\ m = n)
  BY <1>2, <1>3, HandledSame
<1>5. Grown(links, links)
  BY <1>2, GrownSelf
<1> DEFINE D == Handled(n)
<1>6. deps' = D
  BY <1>1
<1>7. \A k \in DOMAIN D : DepsFrameOK(fs, links, at, fs[at.entry].ref, D[k])
  BY <1>1, <1>4 DEF Ready, PlannerOK, DepsOK, DepsFrameOK
<1>8. ASSUME NEW x \in NamesIn(fs, fs[at.entry].ref),
             IsDir(fs, at.base \o x), IsDir(fs, fs[at.entry].ref \o x), ~Made(links, at.entry \o x)
      PROVE  \E k \in DOMAIN D : \E m \in D[k].common : IsInDir(at.entry \o x, Append(D[k].w, m))
  <2>1. PICK k \in DOMAIN deps, m \in Name :
            m \in deps[k].common /\ IsInDir(at.entry \o x, Append(deps[k].w, m))
    BY <1>1, <1>2, <1>5, <1>8, DepsCovered
  <2>2. ~(k = Len(deps) /\ m = n)
    <3> SUFFICES ASSUME k = Len(deps), m = n PROVE FALSE
      OBVIOUS
    <3>1. x \in Path
      BY <1>2, NamesAre
    <3>2. IsInDir(at.entry \o x, W(n))
      BY <2>1 DEF W, Deps
    <3>3. IsDirNode(A(n))
      BY <1>1, <1>8, <3>1, <3>2, DepsShared
    <3> QED BY <3>3 DEF DepsHarmless, Harmless
  <2> QED BY <1>4, <2>1, <2>2
<1> HIDE DEF D
<1> QED BY <1>1, <1>2, <1>5, <1>6, <1>7, <1>8, DepsKept DEF CallsOK

\* A directory of both: the plan makes it, and the next call comes to what
\* is in it.
LEMMA DepsDirKeeps ==
    ASSUME Ready, NEW n \in Name, DepsDir(n)
    PROVE  PlannerOK'
<1>1. phase = "deps"
  BY DEF DepsDir, Shared
<1>2. CASE ~(Readable(fs, A(n)) /\ Readable(fs, B(n)))
  BY <1>2, StopKeeps DEF DepsDir, CheckDirs, Stopped
<1>3. CASE Readable(fs, A(n)) /\ Readable(fs, B(n))
  <2> DEFINE frame == [a |-> A(n), b |-> B(n), w |-> W(n),
                       common |-> Children(A(n)) \cap Children(B(n)),
                       rest |-> Children(B(n)) \ Children(A(n))]
             M == Push(links, MkdirOp(W(n)))
             H == Handled(n)
             D == Append(H, frame)
             r == fs[at.entry].ref
  <2>1. links' = M /\ deps' = D /\ phase' = "deps" /\ UNCHANGED <<stack, at, host, stow_dirs, fs>>
    BY <1>3 DEF DepsDir, CheckDirs, setupVars, listVars
  <2>2. /\ CheckOK /\ CallsOK /\ Disk(fs) /\ links \in Seq(Op) /\ deps \in Seq(DepsCall)
        /\ Len(deps) \in DOMAIN deps /\ r \in Path /\ at.entry \in Path
        /\ PlainDir(fs, StowDir) /\ PlainDir(fs, r)
        /\ A(n) \in Path /\ B(n) \in Path /\ W(n) \in Path
        /\ IsInDir(A(n), StowDir) /\ IsInDir(B(n), r)
        /\ Way(fs, links, Len(links), W(n))
        /\ \E y \in Path : /\ W(n) = at.entry \o y /\ y = After(W(n), at.entry)
                           /\ A(n) = at.base \o y /\ B(n) = r \o y
    BY <1>1, DepsFacts
  <2>3. deps # <<>>
    BY <2>2
  <2>4. /\ H \in Seq(DepsCall) /\ DOMAIN H = DOMAIN deps
        /\ \A k \in DOMAIN deps :
              /\ H[k].a = deps[k].a /\ H[k].b = deps[k].b /\ H[k].w = deps[k].w
              /\ \A m \in deps[k].common : m \in H[k].common \/ (k = Len(deps) /\ m = n)
    BY <2>2, <2>3, HandledSame
  <2>5. M \in Seq(Op) /\ Grown(links, M) /\ PlanOK(fs, M) /\ RemovesManaged(M) /\ Made(M, W(n))
        /\ Way(fs, M, Len(M), W(n))
    <3>1. MkdirOp(W(n)) \in Op
      BY <2>2, NamedOpTyped
    <3>2. M \in Seq(Op) /\ Grown(links, M)
      BY <2>2, <3>1, PushGrows
    <3>3. PlanOK(fs, M) /\ RemovesManaged(M) /\ Made(M, W(n))
      BY <2>2, PushMkdir DEF CallsOK
    <3> HIDE DEF M
    <3> QED BY <2>2, <3>2, <3>3, WayGrows
  <2>6. /\ DOMAIN D = DOMAIN deps \cup {Len(deps) + 1} /\ D[Len(deps) + 1] = frame
        /\ \A k \in DOMAIN deps : D[k] = H[k]
    <3>1. Len(H) = Len(deps) /\ Len(deps) \in Nat
      BY <2>2, <2>4
    <3> HIDE DEF H, frame
    <3> QED BY <2>2, <2>4, <3>1
  <2>7. IsDir(fs, A(n)) /\ IsDir(fs, B(n))
    BY <1>3, <2>2, PlainName, SetupAssumption
  <2>8. DepsFrameOK(fs, M, at, r, frame)
    <3>1. frame.a = A(n) /\ frame.b = B(n) /\ frame.w = W(n)
      OBVIOUS
    <3> HIDE DEF frame, M, r
    <3> QED BY <2>2, <2>5, <2>7, <3>1 DEF DepsFrameOK
  <2>9. frame.common = Children(A(n)) \cap Children(B(n)) /\ frame.w = W(n)
    OBVIOUS
  <2> HIDE DEF frame, M, H, D
  <2>10. \A k \in DOMAIN deps : DepsFrameOK(fs, M, at, r, D[k])
    <3> SUFFICES ASSUME NEW k \in DOMAIN deps PROVE DepsFrameOK(fs, M, at, r, D[k])
      OBVIOUS
    <3>1. DepsFrameOK(fs, links, at, r, deps[k])
      BY <1>1 DEF Ready, PlannerOK, DepsOK, r
    <3>2. DepsFrameOK(fs, M, at, r, deps[k])
      BY <2>2, <2>5, <3>1, DepsFrameGrows
    <3> QED BY <2>4, <2>6, <3>2 DEF DepsFrameOK
  <2>11. \A k \in DOMAIN D : DepsFrameOK(fs, M, at, r, D[k])
    BY <2>6, <2>8, <2>10
  <2>12. ASSUME NEW x \in NamesIn(fs, r), IsDir(fs, at.base \o x), IsDir(fs, r \o x),
                ~Made(M, at.entry \o x)
         PROVE  \E k \in DOMAIN D : \E m \in D[k].common : IsInDir(at.entry \o x, Append(D[k].w, m))
    <3>1. PICK k \in DOMAIN deps, m \in Name :
              m \in deps[k].common /\ IsInDir(at.entry \o x, Append(deps[k].w, m))
      BY <1>1, <2>2, <2>5, <2>12, DepsCovered DEF r
    <3>2. CASE m \in H[k].common
      BY <2>4, <2>6, <3>1, <3>2
    <3>3. CASE k = Len(deps) /\ m = n
      <4>1. x \in Path
        BY <2>2, <2>12, NamesAre
      <4>2. IsInDir(at.entry \o x, W(n))
        BY <3>1, <3>3 DEF W, Deps
      <4>3. at.entry \o x # W(n)
        BY <2>5, <2>12
      <4>4. PICK q \in Children(A(n)) \cap Children(B(n)) : IsInDir(at.entry \o x, Append(W(n), q))
        BY <1>1, <2>12, <4>1, <4>2, <4>3, DepsShared DEF r
      <4> QED BY <2>6, <2>9, <4>4
    <3> QED BY <2>4, <3>1, <3>2, <3>3
  <2> QED BY <1>1, <2>1, <2>5, <2>11, <2>12, DepsKept DEF r
<1> QED BY <1>2, <1>3
\* A conflict leaves what has been planned, or ends the run.
LEMMA DepsConflictKeeps ==
    ASSUME Ready, NEW n \in Name, DepsConflict(n)
    PROVE  PlannerOK'
<1>1. CASE Stop("refused")
  BY <1>1, StopKeeps DEF Stop, Stopped
<1>2. CASE phase' = "check" /\ UNCHANGED <<stack, links, setupVars, fs>>
  <2>1. phase = "deps"
    BY DEF DepsConflict, Shared
  <2>2. CheckOK /\ CallsOK /\ links \in Seq(Op)
    BY <2>1 DEF Ready, PlannerOK, CheckOK, CheckTypeOK
  <2>3. SameCalls
    BY <1>2 DEF SameCalls
  <2>4. Grown(links, links)
    BY <2>2, GrownSelf
  <2>5. CallsOK'
    BY <1>2, <2>2, <2>3, <2>4, CallsKept DEF CallsOK, setupVars, listVars
  <2> QED BY <1>2, <2>5 DEF PlannerOK
<1> QED BY <1>1, <1>2 DEF DepsConflict

\* A link for what only the other package has.
LEMMA DepsLinkKeeps ==
    ASSUME Ready, NEW n \in Name, DepsLink(n)
    PROVE  PlannerOK'
<1> DEFINE M == Push(links, LinkOp(B(n), W(n)))
           D == [deps EXCEPT ![Len(deps)].rest = @ \ {n}]
<1>1. phase = "deps" /\ phase' = "deps" /\ links' = M /\ deps' = D
      /\ UNCHANGED <<stack, at, host, stow_dirs, fs>>
  BY DEF DepsLink, setupVars, listVars
<1>2. CheckOK /\ CallsOK /\ Disk(fs) /\ links \in Seq(Op) /\ deps \in Seq(DepsCall)
      /\ Len(deps) \in DOMAIN deps /\ fs[at.entry].ref \in Path
      /\ B(n) \in Path /\ W(n) \in Path /\ Way(fs, links, Len(links), W(n))
  BY <1>1, DepsFacts
<1>3. M \in Seq(Op) /\ Grown(links, M) /\ PlanOK(fs, M) /\ RemovesManaged(M)
  <2>1. LinkOp(B(n), W(n)) \in Op
    BY <1>2, NamedOpTyped
  <2>2. LinkOp(B(n), W(n)).act = "SET_LINK" /\ LinkOp(B(n), W(n)).sub = FALSE
        /\ LinkOp(B(n), W(n)).target = W(n)
    BY DEF LinkOp, MkOp
  <2>3. M \in Seq(Op) /\ Grown(links, M)
    BY <1>2, <2>1, PushGrows
  <2> DEFINE l == LinkOp(B(n), W(n))
  <2>4. l.act \notin {"REMOVE", "COPY_DIR"} /\ Way(fs, links, Len(links), l.target)
    BY <1>2, <2>2
  <2>5. PlanOK(fs, M) /\ RemovesManaged(M)
    BY <1>2, <2>1, <2>2, <2>4, PushMake DEF CallsOK
  <2> QED BY <2>3, <2>5
<1>4. /\ DOMAIN D = DOMAIN deps
      /\ \A k \in DOMAIN deps :
            D[k].a = deps[k].a /\ D[k].b = deps[k].b /\ D[k].w = deps[k].w
            /\ D[k].common = deps[k].common
  <2> DEFINE i == Len(deps)  f == [deps[i] EXCEPT !.rest = @ \ {n}]
  <2>1. i \in DOMAIN deps /\ deps[i] \in DepsCall
    BY <1>2
  <2>2. f.a = deps[i].a /\ f.b = deps[i].b /\ f.w = deps[i].w /\ f.common = deps[i].common
    BY <2>1 DEF DepsCall
  <2>3. D = [deps EXCEPT ![i] = f]
    OBVIOUS
  <2> HIDE DEF f, D
  <2> QED BY <1>2, <2>1, <2>2, <2>3
<1> HIDE DEF M, D
<1>5. \A k \in DOMAIN D : DepsFrameOK(fs, M, at, fs[at.entry].ref, D[k])
  <2> SUFFICES ASSUME NEW k \in DOMAIN deps PROVE DepsFrameOK(fs, M, at, fs[at.entry].ref, D[k])
    BY <1>4
  <2>1. DepsFrameOK(fs, links, at, fs[at.entry].ref, deps[k])
    BY <1>1 DEF Ready, PlannerOK, DepsOK
  <2>2. DepsFrameOK(fs, M, at, fs[at.entry].ref, deps[k])
    BY <1>2, <1>3, <2>1, DepsFrameGrows
  <2> QED BY <1>4, <2>2 DEF DepsFrameOK
<1>6. ASSUME NEW x \in NamesIn(fs, fs[at.entry].ref),
             IsDir(fs, at.base \o x), IsDir(fs, fs[at.entry].ref \o x), ~Made(M, at.entry \o x)
      PROVE  \E k \in DOMAIN D : \E m \in D[k].common : IsInDir(at.entry \o x, Append(D[k].w, m))
  BY <1>1, <1>2, <1>3, <1>4, <1>6, DepsCovered
<1> QED BY <1>1, <1>3, <1>5, <1>6, DepsKept

LEMMA WayPrefix ==
    ASSUME NEW F, NEW L, NEW m, NEW p \in Path, NEW y \in Path, Way(F, L, m, p \o y)
    PROVE  Way(F, L, m, p)
<1> SUFFICES ASSUME NEW k \in 0..(Len(p) - 1)
             PROVE  IsDir(F, SubSeq(p, 1, k)) \/ MadeBy(L, m, SubSeq(p, 1, k))
  BY DEF Way
<1>1. Len(p) \in Nat /\ Len(y) \in Nat /\ Len(p \o y) = Len(p) + Len(y)
  BY PathLen, JoinPath
<1>2. k \in 0..(Len(p) + Len(y)) /\ k <= Len(p) /\ k \in 0..(Len(p \o y) - 1)
  BY <1>1
<1>3. SubSeq(p \o y, 1, k) = SubSeq(p, 1, k)
  BY <1>2, JoinPrefix
<1> QED BY <1>2, <1>3 DEF Way

\* The outermost call returns: what both packages have is made, the fold can
\* be dived through.
LEMMA UnfoldingMade ==
    ASSUME Ready, phase = "deps", Len(deps) = 1, Deps.common = {}
    PROVE  FrameOK(fs, links, at.base, at.into)
<1> DEFINE e == at.entry  r == fs[e].ref
<1>1. /\ CheckOK /\ Disk(fs) /\ DepsOK(fs, links, deps, at) /\ IsDir(fs, at.base)
      /\ deps \in Seq(DepsCall) /\ at \in Child
  BY DEF Ready, PlannerOK, CheckOK, CheckTypeOK
<1>2. e \in Path /\ at.into = e /\ IsLink(fs, e) /\ PlainDir(fs, r) /\ IsInDir(at.base, StowDir)
      /\ DepsFrameOK(fs, links, at, r, deps[1])
  BY <1>1 DEF DepsOK, Child
<1>3. e \in DOMAIN fs /\ r \in Path /\ deps[1].w \in Path /\ IsDir(fs, r)
  <2>1. e \in DOMAIN fs /\ IsDir(fs, r)
    BY <1>2 DEF IsLink, PlainDir
  <2>2. r \in Path
    BY <1>1, <2>1 DEF Disk, Node
  <2>3. deps[1] \in DepsCall
    BY <1>1
  <2> QED BY <2>1, <2>2, <2>3 DEF DepsCall
<1> HIDE DEF e
<1>4. Way(fs, links, Len(links), e)
  <2> DEFINE y == After(deps[1].w, e)
  <2>1. deps[1].w = e \o y /\ Way(fs, links, Len(links), deps[1].w)
    BY <1>2 DEF DepsFrameOK, e
  <2>2. y \in Path
    <3>1. Len(e) \in Nat /\ Len(deps[1].w) \in Nat
      BY <1>2, <1>3, PathLen
    <3> QED BY <1>3, <3>1 DEF After, Path
  <2> HIDE DEF y
  <2> QED BY <1>2, <2>1, <2>2, WayPrefix
<1>5. \A k \in DOMAIN deps : deps[k].common = {}
  <2>1. \A k \in DOMAIN deps : k = Len(deps)
    BY <1>1
  <2> QED BY <2>1 DEF Deps
<1>6. Mirrored(fs, links, at.base, r, e)
  BY <1>1, <1>5 DEF DepsOK, Mirrored, e
<1>7. IsInDir(e, e) /\ r \o After(e, e) = r
  BY <1>2, <1>3, InSelf, PathLen
<1>8. Unfolding(fs, links, at.base, e)
  BY <1>2, <1>3, <1>4, <1>6, <1>7 DEF Unfolding
<1> QED BY <1>1, <1>2, <1>8 DEF FrameOK

LEMMA DepsReturnKeeps ==
    ASSUME Ready, DepsReturn
    PROVE  PlannerOK'
<1>1. phase = "deps" /\ Deps.common = {} /\ UNCHANGED <<stack, at, host, stow_dirs, fs>>
  BY DEF DepsReturn, setupVars, listVars
<1>2. /\ CheckOK /\ CallsOK /\ DepsOK(fs, links, deps, at) /\ links \in Seq(Op)
      /\ deps \in Seq(DepsCall) /\ deps # <<>> /\ Disk(fs)
  BY <1>1 DEF Ready, PlannerOK, CheckOK, CheckTypeOK
<1>3. Len(deps) \in Nat /\ Len(deps) > 0 /\ Deps \in DepsCall
  BY <1>2 DEF Deps
<1>4. CASE Len(deps) = 1
  <2>1. phase' = "dive" /\ links' = links
    BY <1>4 DEF DepsReturn
  <2>2. SameCalls
    BY <1>1 DEF SameCalls
  <2>3. Grown(links, links)
    BY <1>2, GrownSelf
  <2>4. CallsOK'
    BY <1>1, <1>2, <2>1, <2>2, <2>3, CallsKept DEF CallsOK
  <2>5. FrameOK(fs, links, at.base, at.into)
    BY <1>1, <1>4, UnfoldingMade
  <2> QED BY <1>1, <2>1, <2>4, <2>5 DEF PlannerOK
<1>5. CASE Len(deps) > 1
  <2> DEFINE M == Push(links, MkdirOp(Deps.w))  D == SubSeq(deps, 1, Len(deps) - 1)
             r == fs[at.entry].ref
  <2>1. phase' = "deps" /\ links' = M /\ deps' = D
    BY <1>5 DEF DepsReturn
  <2>2. Deps.w \in Path /\ Way(fs, links, Len(links), Deps.w)
    <3>1. Len(deps) \in DOMAIN deps
      BY <1>2, <1>3
    <3>2. DepsFrameOK(fs, links, at, r, Deps)
      BY <1>2, <3>1 DEF DepsOK, Deps
    <3> QED BY <1>3, <3>2 DEF DepsFrameOK, DepsCall
  <2>3. M \in Seq(Op) /\ Grown(links, M) /\ PlanOK(fs, M) /\ RemovesManaged(M)
    <3>1. MkdirOp(Deps.w) \in Op
      BY <2>2, NamedOpTyped
    <3> QED BY <1>2, <2>2, <3>1, PushGrows, PushMkdir DEF CallsOK
  <2>4. /\ \A k \in DOMAIN D : k \in DOMAIN deps /\ D[k] = deps[k]
        /\ \A k \in DOMAIN deps : k \in DOMAIN D \/ deps[k].common = {}
    <3>1. DOMAIN D = 1..(Len(deps) - 1) /\ \A k \in DOMAIN D : D[k] = deps[k]
      BY <1>2, <1>3
    <3>2. DOMAIN deps = 1..Len(deps)
      BY <1>2
    <3>3. \A k \in 1..Len(deps) : k \in 1..(Len(deps) - 1) \/ k = Len(deps)
      BY <1>3
    <3> HIDE DEF D
    <3>4. \A k \in DOMAIN D : k \in DOMAIN deps
      BY <1>3, <3>1, <3>2
    <3>5. \A k \in DOMAIN deps : k \in DOMAIN D \/ k = Len(deps)
      BY <3>1, <3>2, <3>3
    <3> QED BY <1>1, <3>1, <3>4, <3>5 DEF Deps
  <2> HIDE DEF M, D
  <2>5. \A k \in DOMAIN D : DepsFrameOK(fs, M, at, r, D[k])
    BY <1>2, <2>3, <2>4, DepsFrameGrows DEF DepsOK
  <2>6. ASSUME NEW x \in NamesIn(fs, r), IsDir(fs, at.base \o x), IsDir(fs, r \o x),
               ~Made(M, at.entry \o x)
        PROVE  \E k \in DOMAIN D : \E m \in D[k].common : IsInDir(at.entry \o x, Append(D[k].w, m))
    <3>1. PICK k \in DOMAIN deps, m \in Name :
              m \in deps[k].common /\ IsInDir(at.entry \o x, Append(deps[k].w, m))
      BY <1>1, <2>3, <2>6, DepsCovered
    <3> QED BY <2>4, <3>1
  <2> QED BY <1>1, <2>1, <2>3, <2>5, <2>6, DepsKept
<1>6. Len(deps) = 1 \/ Len(deps) > 1
  <2>1. \A k \in Nat : k > 0 => k = 1 \/ k > 1
    OBVIOUS
  <2> QED BY <1>3, <2>1
<1> QED BY <1>4, <1>5, <1>6
\* A call of check.
LEMMA EnterKeeps ==
    ASSUME NEW dir, NEW base, NEW frames \in Seq(Call), Enter(dir, base, frames),
           PlanOK(fs, links), RemovesManaged(links),
           \A k \in DOMAIN frames : FrameOK(fs, links, frames[k].base, frames[k].dir),
           DirAt(fs, dir) => FrameOK(fs, links, base, dir)
    PROVE  PlannerOK'
<1>1. CASE phase' \in Stopped
  BY <1>1, StopKeeps
<1>2. CASE phase' \notin Stopped
  <2> DEFINE frame == [dir |-> dir, base |-> base, kids |-> Children(base)]
  <2>1. /\ stack' = Append(frames, frame) /\ phase' = "check" /\ Usable(dir)
        /\ UNCHANGED <<links, setupVars, fs>>
    BY <1>2 DEF Enter, Stop, Stopped
  <2>2. FrameOK(fs, links, frame.base, frame.dir)
    BY <2>1 DEF Usable
  <2> HIDE DEF frame
  <2>3. \A k \in DOMAIN stack' : (k \in DOMAIN frames /\ stack'[k] = frames[k]) \/ stack'[k] = frame
    <3>1. Len(frames) \in Nat /\ DOMAIN frames = 1..Len(frames)
          /\ DOMAIN stack' = 1..(Len(frames) + 1)
          /\ stack'[Len(frames) + 1] = frame
          /\ \A k \in DOMAIN frames : stack'[k] = frames[k]
      BY <2>1
    <3> QED BY <3>1
  <2>4. \A k \in DOMAIN stack' : FrameOK(fs, links, stack'[k].base, stack'[k].dir)
    BY <2>2, <2>3
  <2>5. RemovesManaged(links)'
    BY <2>1 DEF RemovesManaged, Managed, match_stow_dirs, match_auto_stow_dirs, Config,
                setupVars, listVars
  <2> QED BY <2>1, <2>4, <2>5 DEF PlannerOK, CallsOK
<1> QED BY <1>1, <1>2

LEMMA DiveStepKeeps ==
    ASSUME Ready, DiveNotDir \/ DiveCopyDir \/ Dive
    PROVE  PlannerOK'
<1>1. phase = "dive"
  BY DEF DiveNotDir, DiveCopyDir, Dive
<1>2. CheckOK /\ CallsOK /\ links \in Seq(Op) /\ stack \in Seq(Call) /\ Config.copy = {}
  BY <1>1 DEF Ready, PlannerOK, CheckOK, CheckTypeOK, Straight
<1>3. CASE DiveNotDir
  <2>1. SameCalls
    BY <1>3 DEF DiveNotDir, Surface, SameCalls
  <2>2. Grown(links, links)
    BY <1>2, GrownSelf
  <2>3. CallsOK'
    BY <1>2, <1>3, <2>1, <2>2, CallsKept DEF CallsOK, DiveNotDir, Surface, setupVars, listVars
  <2> QED BY <1>3, <2>3 DEF DiveNotDir, Surface, PlannerOK
<1>4. ~DiveCopyDir
  BY <1>2 DEF DiveCopyDir, match_copy
<1>5. CASE Dive
  <2>1. DirAt(fs, at.into) => FrameOK(fs, links, at.base, at.into)
    BY <1>1 DEF Ready, PlannerOK
  <2> QED BY <1>2, <1>5, <2>1, EnterKeeps DEF Dive, CallsOK
<1> QED BY <1>3, <1>4, <1>5

LEMMA CheckReturnKeeps ==
    ASSUME Ready, CheckReturn
    PROVE  PlannerOK'
<1>1. phase = "check" /\ phase' = "check" /\ Len(stack) > 1
      /\ stack' = SubSeq(stack, 1, Len(stack) - 1) /\ UNCHANGED <<links, host, stow_dirs, fs>>
  BY DEF CheckReturn, setupVars, listVars
<1>2. CheckOK /\ CallsOK /\ links \in Seq(Op) /\ stack \in Seq(Call)
  BY <1>1 DEF Ready, PlannerOK, CheckOK, CheckTypeOK
<1>3. SameCalls
  <2>1. DOMAIN stack' = 1..(Len(stack) - 1) /\ \A k \in DOMAIN stack' : stack'[k] = stack[k]
    BY <1>1, <1>2
  <2>2. DOMAIN stack = 1..Len(stack) /\ Len(stack) \in Nat
    BY <1>2
  <2>3. \A k \in DOMAIN stack' : k \in DOMAIN stack
    BY <2>1, <2>2
  <2> QED BY <2>1, <2>3 DEF SameCalls
<1>4. Grown(links, links)
  BY <1>2, GrownSelf
<1>5. CallsOK'
  BY <1>1, <1>2, <1>3, <1>4, CallsKept DEF CallsOK
<1> QED BY <1>1, <1>5 DEF PlannerOK

\* The planner as a whole: what it plans fits the disk.
THEOREM CheckStepKeeps ==
    ASSUME Ready, CheckStep
    PROVE  PlannerOK'
<1>1. ASSUME NEW n \in Name, CheckDeps(n) PROVE PlannerOK'
  BY <1>1, DepsDirKeeps, DepsHarmlessKeeps, DepsConflictKeeps, DepsLinkKeeps DEF CheckDeps
<1> QED BY <1>1, CheckChildKeeps, DepsReturnKeeps, DiveStepKeeps, CheckReturnKeeps DEF CheckStep

\* What check begins with.
LEMMA BeginPassKeeps ==
    ASSUME TypeOK, PlanInv, Straight, BeginPass
    PROVE  PlannerOK'
<1>1. Disk(fs) /\ package \in Path /\ links = <<>> /\ IsInDir(package, StowDir)
      /\ PlainDir(fs, StowDir) /\ Enter(Target, package, <<>>)
  BY DEF BeginPass, TypeOK, SetupTypeOK, PlanInv, Straight
<1>2. PlanOK(fs, <<>>) /\ RemovesManaged(<<>>)
  BY DEF PlanOK, WaysReady, RemovesManaged
<1>3. CASE phase' \in Stopped
  BY <1>3, StopKeeps
<1>4. CASE phase' \notin Stopped
  <2>1. Usable(Target) /\ Readable(fs, package)
    BY <1>1, <1>4 DEF Enter, Stop, Stopped
  <2>2. IsDir(fs, package)
    BY <1>1, <2>1, PlainName, SetupAssumption
  <2>3. FrameOK(fs, links, package, Target)
    BY <1>1, <2>1, <2>2 DEF FrameOK, Straight, Usable
  <2>4. \A k \in DOMAIN <<>> : FrameOK(fs, links, <<>>[k].base, <<>>[k].dir)
    OBVIOUS
  <2>5. <<>> \in Seq(Call)
    OBVIOUS
  <2> QED BY <1>1, <1>2, <2>3, <2>4, <2>5, EnterKeeps
<1> QED BY <1>3, <1>4
-----------------------------------------------------------------------------
(***************************************************************************)
(* A plan is carried out as it was made: the steps of the executor keep    *)
(* TodoOK, so that PlanInv is an invariant, and what follows from it for   *)
(* the places that are written to.                                         *)
(***************************************************************************)
\* A plan is something to carry out.
LEMMA PlanToDo ==
    ASSUME NEW F, Disk(F), NEW L \in Seq(Op), PlanOK(F, L)
    PROVE  TodoOK(F, L)
<1>1. ASSUME NEW i \in DOMAIN L, NEW j \in DOMAIN L, Removes(L, i), Removes(L, j),
             IsInDir(L[i].origin, L[j].origin)
      PROVE  i = j
  <2>1. IsLink(F, L[i].origin) /\ IsLink(F, L[j].origin)
    BY <1>1 DEF PlanOK
  <2>2. L[i].origin \in DOMAIN F /\ L[j].origin \in Path /\ ~IsDir(F, L[j].origin)
    BY <2>1 DEF IsLink, IsDir, Disk
  <2>3. L[i].origin = L[j].origin
    BY <1>1, <2>2, DirAbove
  <2> QED BY <1>1, <2>3 DEF PlanOK
<1> QED BY <1>1 DEF PlanOK, TodoOK

\* A disk with more on it does as well.
LEMMA TodoStays ==
    ASSUME NEW F, NEW G, NEW L, TodoOK(F, L),
           \A q : IsDir(F, q) => IsDir(G, q),
           \A q : IsLink(F, q) => IsLink(G, q)
    PROVE  TodoOK(G, L)
<1>1. WaysReady(G, L)
  BY DEF TodoOK, WaysReady, Way
<1> QED BY <1>1 DEF TodoOK

\* The rest of a list after its first operation.
LEMMA RestIs ==
    ASSUME NEW L \in Seq(Op), L # <<>>
    PROVE  /\ SubSeq(L, 2, Len(L)) \in Seq(Op) /\ Len(L) \in Nat \ {0}
           /\ DOMAIN SubSeq(L, 2, Len(L)) = 1..(Len(L) - 1)
           /\ \A i \in 1..(Len(L) - 1) : SubSeq(L, 2, Len(L))[i] = L[i + 1] /\ i + 1 \in DOMAIN L
<1>1. Len(L) \in Nat /\ Len(L) # 0 /\ DOMAIN L = 1..Len(L)
  BY EmptySeq
<1>2. SubSeq(L, 2, Len(L)) \in Seq(Op) /\ Len(SubSeq(L, 2, Len(L))) = Len(L) - 1
  BY <1>1
<1>3. \A i \in 1..(Len(L) - 1) : SubSeq(L, 2, Len(L))[i] = L[i + 1]
  BY <1>1
<1>4. \A i \in 1..(Len(L) - 1) : i + 1 \in 1..Len(L)
  BY <1>1
<1> QED BY <1>1, <1>2, <1>3, <1>4

\* The first operation has been done: it took no directory away that something
\* is still to be put in, and it has made the directory it was to make.
LEMMA RestToDo ==
    ASSUME NEW F, NEW G, NEW L \in Seq(Op), L # <<>>, TodoOK(F, L),
           \/ \A q : IsDir(F, q) => IsDir(G, q)
           \/ \A i \in 2..Len(L) : Removes(L, i),
           L[1].act = "MKDIR" => IsDir(G, L[1].target),
           \A i \in 2..Len(L) : Removes(L, i) =>
              /\ IsLink(F, L[i].origin) => IsLink(G, L[i].origin)
              /\ IsDir(F, L[i].origin) => IsDir(G, L[i].origin)
    PROVE  TodoOK(G, SubSeq(L, 2, Len(L)))
<1> DEFINE R == SubSeq(L, 2, Len(L))
<1>1. /\ Len(L) \in Nat \ {0} /\ R \in Seq(Op) /\ DOMAIN R = 1..(Len(L) - 1)
      /\ \A i \in 1..(Len(L) - 1) : R[i] = L[i + 1] /\ i + 1 \in DOMAIN L
  BY RestIs
<1> HIDE DEF R
<1>2. \A i \in DOMAIN R : /\ i \in Nat \ {0} /\ i + 1 \in 2..Len(L) /\ R[i] = L[i + 1]
                          /\ i + 1 \in DOMAIN L /\ Removes(R, i) = Removes(L, i + 1)
  BY <1>1 DEF Removes
<1>3. Len(R) = Len(L) - 1
  BY <1>1
<1>4. ASSUME NEW i \in DOMAIN R, ~Removes(R, i)
      PROVE  Way(G, R, i - 1, R[i].target)
  <2>1. Way(F, L, i, R[i].target)
    <3>1. (i + 1) - 1 = i
      BY <1>2
    <3>2. Way(F, L, (i + 1) - 1, L[i + 1].target)
      BY <1>2, <1>4 DEF TodoOK, WaysReady
    <3> QED BY <1>2, <3>1, <3>2
  <2>2. \A q : IsDir(F, q) => IsDir(G, q)
    BY <1>2, <1>4
  <2>3. ASSUME NEW p, MadeBy(L, i, p) PROVE IsDir(G, p) \/ MadeBy(R, i - 1, p)
    <3>1. PICK j \in 1..i : L[j].act = "MKDIR" /\ L[j].target = p
      BY <2>3 DEF MadeBy
    <3>2. CASE j = 1
      BY <3>1, <3>2
    <3>3. CASE j # 1
      <4>1. j - 1 \in 1..(i - 1) /\ j - 1 \in 1..(Len(L) - 1) /\ (j - 1) + 1 = j
        BY <1>1, <1>2, <3>3
      <4>2. R[j - 1] = L[j]
        BY <1>1, <4>1
      <4> QED BY <3>1, <4>1, <4>2 DEF MadeBy
    <3> QED BY <3>2, <3>3
  <2> QED BY <2>1, <2>2, <2>3 DEF Way
<1>5. WaysReady(G, R)
  <2>1. \A i \in DOMAIN R : R[i].act # "COPY_DIR" /\ ~R[i].sub
    BY <1>2 DEF TodoOK, WaysReady
  <2> QED BY <1>4, <2>1 DEF WaysReady
<1>6. ASSUME NEW i \in DOMAIN R, Removes(R, i)
      PROVE  \/ IsLink(G, R[i].origin)
             \/ IsDir(G, R[i].origin) /\ \A j \in (i + 1)..Len(R) : Removes(R, j)
  <2>1. \/ IsLink(F, R[i].origin)
        \/ IsDir(F, R[i].origin) /\ \A j \in (i + 2)..Len(L) : Removes(L, j)
    <3>1. (i + 1) + 1 = i + 2
      BY <1>2
    <3>2. \/ IsLink(F, L[i + 1].origin)
          \/ IsDir(F, L[i + 1].origin) /\ \A j \in ((i + 1) + 1)..Len(L) : Removes(L, j)
      BY <1>2, <1>6 DEF TodoOK
    <3> QED BY <1>2, <3>1, <3>2
  <2>2. (IsLink(F, R[i].origin) => IsLink(G, R[i].origin))
        /\ (IsDir(F, R[i].origin) => IsDir(G, R[i].origin))
    BY <1>2, <1>6
  <2>3. \A j \in (i + 1)..Len(R) : j \in DOMAIN R /\ j + 1 \in (i + 2)..Len(L)
    BY <1>1, <1>2, <1>3
  <2> QED BY <1>2, <2>1, <2>2, <2>3
<1>7. ASSUME NEW i \in DOMAIN R, NEW j \in DOMAIN R, Removes(R, i), Removes(R, j),
             IsInDir(R[i].origin, R[j].origin)
      PROVE  i = j
  <2>1. i + 1 = j + 1
    BY <1>2, <1>7 DEF TodoOK
  <2> QED BY <1>2, <2>1
<1> QED BY <1>5, <1>6, <1>7 DEF TodoOK, R

\* An empty directory is appended, none above or below it is to go yet.
LEMMA ParentToDo ==
    ASSUME NEW G, NEW R \in Seq(Op), TodoOK(G, R), NEW P \in Path, IsDir(G, P),
           \A i \in DOMAIN R : Removes(R, i) =>
              ~IsInDir(R[i].origin, P) /\ ~IsInDir(P, R[i].origin)
    PROVE  TodoOK(G, Append(R, RemoveOp(P)))
<1> DEFINE l == RemoveOp(P)  M == Append(R, l)
<1>0. l \in Op /\ l.act = "REMOVE" /\ l.origin = P /\ l.sub = FALSE
  BY NamedOpTyped, EmptyPath DEF RemoveOp, MkOp
<1> HIDE DEF l
<1>1. /\ Len(R) \in Nat /\ DOMAIN R = 1..Len(R) /\ Len(M) = Len(R) + 1
      /\ DOMAIN M = 1..(Len(R) + 1) /\ M[Len(R) + 1] = l
      /\ \A i \in 1..Len(R) : M[i] = R[i]
  BY <1>0
<1> HIDE DEF M
<1>2. \A i \in DOMAIN M : i \in DOMAIN R \/ i = Len(R) + 1
  BY <1>1
<1>3. \A i \in DOMAIN R : i \in DOMAIN M /\ M[i] = R[i] /\ Removes(M, i) = Removes(R, i)
                          /\ i - 1 \in 0..Len(R)
  BY <1>1 DEF Removes
<1>4. Removes(M, Len(R) + 1)
  BY <1>0, <1>1 DEF Removes
<1>5. WaysReady(G, M)
  <2> SUFFICES ASSUME NEW i \in DOMAIN M
               PROVE  /\ M[i].act # "COPY_DIR" /\ ~M[i].sub
                      /\ ~Removes(M, i) => Way(G, M, i - 1, M[i].target)
    BY DEF WaysReady
  <2>1. CASE i = Len(R) + 1
    BY <1>0, <1>1, <1>4, <2>1
  <2>2. CASE i \in DOMAIN R
    <3>1. R[i].act # "COPY_DIR" /\ ~R[i].sub /\ (~Removes(R, i) => Way(G, R, i - 1, R[i].target))
      BY <2>2 DEF TodoOK, WaysReady
    <3>2. Grown(R, M) /\ M \in Seq(Op)
      BY <1>0, <1>1 DEF Grown, M
    <3> QED BY <1>3, <2>2, <3>1, <3>2, WayGrows
  <2> QED BY <1>2, <2>1, <2>2
<1>6. ASSUME NEW i \in DOMAIN M, Removes(M, i)
      PROVE  \/ IsLink(G, M[i].origin)
             \/ IsDir(G, M[i].origin) /\ \A j \in (i + 1)..Len(M) : Removes(M, j)
  <2>1. CASE i = Len(R) + 1
    <3>1. \A j \in (i + 1)..Len(M) : FALSE
      BY <1>1, <2>1
    <3> QED BY <1>0, <1>1, <2>1, <3>1
  <2>2. CASE i \in DOMAIN R
    <3>1. \/ IsLink(G, R[i].origin)
          \/ IsDir(G, R[i].origin) /\ \A j \in (i + 1)..Len(R) : Removes(R, j)
      BY <1>3, <1>6, <2>2 DEF TodoOK
    <3>2. \A j \in (i + 1)..Len(M) : j = Len(R) + 1 \/ (j \in DOMAIN R /\ j \in (i + 1)..Len(R))
      BY <1>1, <2>2
    <3> QED BY <1>3, <1>4, <2>2, <3>1, <3>2
  <2> QED BY <1>2, <2>1, <2>2
<1>7. ASSUME NEW i \in DOMAIN M, NEW j \in DOMAIN M, Removes(M, i), Removes(M, j),
             IsInDir(M[i].origin, M[j].origin)
      PROVE  i = j
  <2>1. CASE i \in DOMAIN R /\ j \in DOMAIN R
    BY <1>3, <1>7, <2>1 DEF TodoOK
  <2>2. CASE i \in DOMAIN R /\ j = Len(R) + 1
    BY <1>0, <1>1, <1>3, <1>7, <2>2
  <2>3. CASE i = Len(R) + 1 /\ j \in DOMAIN R
    BY <1>0, <1>1, <1>3, <1>7, <2>3
  <2> QED BY <1>2, <2>1, <2>2, <2>3
<1> QED BY <1>5, <1>6, <1>7 DEF TodoOK, M, l
-----------------------------------------------------------------------------
(***************************************************************************)
(* The steps of the executor.                                              *)
(***************************************************************************)
ToDo == TodoOK(fs, todo) /\ RemovesManaged(todo)

\* Directories stay, links stay what they are.
Keeps(F, G) ==
    \A q : /\ IsDir(F, q) => IsDir(G, q)
           /\ IsLink(F, q) => IsLink(G, q) /\ G[q] = F[q]

LEMMA PutKeeps ==
    ASSUME NEW F, NEW l, l \notin DOMAIN F \/ IsFile(F, l), NEW n
    PROVE  Keeps(F, Put(F, l, n))
BY DEF Keeps, Put, IsDir, IsLink, IsFile

\* What is put goes to a place named directly.
LEMMA MakePlace ==
    ASSUME ExecOK, todo # <<>>, TodoOK(fs, todo), Current.act # "REMOVE"
    PROVE  /\ LinksAbove(fs, Current.target) = {} /\ Loc(fs, Current.target) = Current.target
           /\ \A k \in 0..(Len(Current.target) - 1) : IsDir(fs, SubSeq(Current.target, 1, k))
           /\ Current.act # "COPY_DIR" /\ ~Current.sub
<1>1. todo \in Seq(Op) /\ 1 \in DOMAIN todo /\ Current.target \in Path
  BY CurrentTyped, RestIs DEF ExecOK, ExecTypeOK
<1>2. /\ Current.act # "COPY_DIR" /\ ~Current.sub /\ Way(fs, todo, 1 - 1, Current.target)
  BY <1>1 DEF TodoOK, WaysReady, Current, Removes
<1>3. \A p : ~MadeBy(todo, 1 - 1, p)
  BY DEF MadeBy
<1>4. \A k \in 0..(Len(Current.target) - 1) : IsDir(fs, SubSeq(Current.target, 1, k))
  BY <1>2, <1>3 DEF Way
<1> QED BY <1>1, <1>2, <1>4, LocOfWay

\* What is removed is there under its own name; nothing above or below it is
\* to be removed after it, and after a directory nothing is put anywhere.
LEMMA RemovePlace ==
    ASSUME ExecOK, todo # <<>>, TodoOK(fs, todo), Current.act = "REMOVE"
    PROVE  /\ Current.origin \in DOMAIN fs /\ Current.origin \in Path
           /\ LinksAbove(fs, Current.origin) = {} /\ Loc(fs, Current.origin) = Current.origin
           /\ \/ IsLink(fs, Current.origin)
              \/ IsDir(fs, Current.origin) /\ \A i \in 2..Len(todo) : Removes(todo, i)
           /\ \A i \in 2..Len(todo) : Removes(todo, i) =>
                 /\ ~IsInDir(todo[i].origin, Current.origin)
                 /\ ~IsInDir(Current.origin, todo[i].origin)
<1> DEFINE p == Current.origin
<1>1. todo \in Seq(Op) /\ 1 \in DOMAIN todo /\ p \in Path /\ Removes(todo, 1) /\ p = todo[1].origin
  BY CurrentTyped, RestIs DEF ExecOK, ExecTypeOK, Removes, Current
<1>2. \A i \in 2..Len(todo) : i \in DOMAIN todo /\ i # 1
  BY <1>1
<1>3. IsLink(fs, p) \/ (IsDir(fs, p) /\ \A i \in (1 + 1)..Len(todo) : Removes(todo, i))
  BY <1>1 DEF TodoOK
<1>4. \A i \in 2..Len(todo) : Removes(todo, i) =>
          ~IsInDir(todo[i].origin, p) /\ ~IsInDir(p, todo[i].origin)
  BY <1>1, <1>2 DEF TodoOK
<1>5. p \in DOMAIN fs /\ Disk(fs)
  BY <1>3 DEF IsLink, IsDir, ExecOK, CheckOK
<1>6. \A k \in 0..(Len(p) - 1) : IsDir(fs, SubSeq(p, 1, k))
  BY <1>5 DEF Disk
<1>7. LinksAbove(fs, p) = {} /\ Loc(fs, p) = p
  BY <1>1, <1>6, LocOfWay
<1> QED BY <1>1, <1>3, <1>4, <1>5, <1>7

\* RemovesManaged reads the list of the packages and the links it is about.
LEMMA ManagedStays ==
    ASSUME UNCHANGED <<host, stow_dirs>>, NEW L, NEW M, RemovesManaged(L), M = todo',
           \A i \in DOMAIN M : Removes(M, i) /\ IsLink(fs', M[i].origin) =>
              \E j \in DOMAIN L : /\ Removes(L, j) /\ L[j].origin = M[i].origin
                                  /\ IsLink(fs, L[j].origin) /\ fs'[L[j].origin] = fs[L[j].origin]
    PROVE  RemovesManaged(todo)'
BY DEF RemovesManaged, Removes, Managed, match_stow_dirs, match_auto_stow_dirs, Config

\* The operation is done, directories and links are kept.
LEMMA DoneToDo ==
    ASSUME ExecOK, todo # <<>>, ToDo, UNCHANGED <<host, stow_dirs>>, todo' = Rest,
           Keeps(fs, fs'), Current.act = "MKDIR" => IsDir(fs', Current.target)
    PROVE  ToDo'
<1>1. /\ todo \in Seq(Op) /\ TodoOK(fs, todo) /\ RemovesManaged(todo)
      /\ Rest = SubSeq(todo, 2, Len(todo)) /\ Current = todo[1]
  BY DEF ExecOK, ExecTypeOK, ToDo, Rest, Current
<1>2. TodoOK(fs', Rest)
  BY <1>1, RestToDo DEF Keeps
<1>3. ASSUME NEW i \in DOMAIN Rest, Removes(Rest, i), IsLink(fs', Rest[i].origin)
      PROVE  \E j \in DOMAIN todo : /\ Removes(todo, j) /\ todo[j].origin = Rest[i].origin
                                    /\ IsLink(fs, todo[j].origin)
                                    /\ fs'[todo[j].origin] = fs[todo[j].origin]
  <2>1. i + 1 \in DOMAIN todo /\ Rest[i] = todo[i + 1]
    BY <1>1, RestIs
  <2>2. IsLink(fs, Rest[i].origin) \/ IsDir(fs, Rest[i].origin)
    BY <1>1, <1>3, <2>1 DEF TodoOK, Removes
  <2>3. ~IsDir(fs', Rest[i].origin)
    BY <1>3 DEF IsLink, IsDir
  <2> QED BY <1>3, <2>1, <2>2, <2>3 DEF Removes, Keeps
<1>4. RemovesManaged(todo)'
  BY <1>1, <1>3, ManagedStays
<1> QED BY <1>2, <1>4 DEF ToDo

\* A node is removed; unstow may append the directory it was in.
LEMMA RemovedToDo ==
    ASSUME ExecOK, todo # <<>>, ToDo, Current.act = "REMOVE", UNCHANGED <<host, opt, keep, stow_dirs>>,
           Current.origin # <<>>,
           Removed(Current.origin, Drop(fs, Current.origin)), Disk(fs')
    PROVE  ToDo'
<1> DEFINE p == Current.origin  P == Parent(p)  G == Drop(fs, p)
<1>1. /\ todo \in Seq(Op) /\ TodoOK(fs, todo) /\ RemovesManaged(todo) /\ Disk(fs)
      /\ Rest = SubSeq(todo, 2, Len(todo)) /\ Current = todo[1]
      /\ Rest \in Seq(Op)
  BY RestIs DEF ExecOK, CheckOK, ExecTypeOK, ToDo, Rest, Current
<1>2. /\ p \in DOMAIN fs /\ p \in Path /\ Loc(fs, p) = p
      /\ IsLink(fs, p) \/ \A i \in 2..Len(todo) : Removes(todo, i)
      /\ \A i \in 2..Len(todo) : Removes(todo, i) =>
            ~IsInDir(todo[i].origin, p) /\ ~IsInDir(p, todo[i].origin)
  BY <1>1, RemovePlace
<1>3. fs' = G /\ Disk(G) /\ todo' = Rest \o ParentRemoval(G, p)
  BY DEF Removed
<1>4. /\ \A q : IsDir(fs, q) /\ q # p => IsDir(G, q)
      /\ \A q : IsLink(fs, q) /\ q # p => IsLink(G, q)
      /\ \A q \in DOMAIN G : q \in DOMAIN fs /\ G[q] = fs[q] /\ q # p
  BY <1>2 DEF Drop, IsDir, IsLink
<1>5. ~IsDir(fs, p) \/ \A i \in 2..Len(todo) : Removes(todo, i)
  BY <1>2 DEF IsDir, IsLink
<1> HIDE DEF G
<1>6. \A i \in DOMAIN Rest : i + 1 \in 2..Len(todo) /\ Rest[i] = todo[i + 1]
                             /\ Removes(Rest, i) = Removes(todo, i + 1)
                             /\ i + 1 \in DOMAIN todo
  <2>1. /\ DOMAIN Rest = 1..(Len(todo) - 1) /\ Len(todo) \in Nat
        /\ \A i \in 1..(Len(todo) - 1) : Rest[i] = todo[i + 1] /\ i + 1 \in DOMAIN todo
    BY <1>1, RestIs
  <2>2. \A i \in 1..(Len(todo) - 1) : i + 1 \in 2..Len(todo)
    BY <2>1
  <2> QED BY <2>1, <2>2 DEF Removes
<1>7. \A i \in 2..Len(todo) : Removes(todo, i) => todo[i].origin # p
  BY <1>2, InSelf
<1>8. TodoOK(G, Rest)
  <2>1. (\A q : IsDir(fs, q) => IsDir(G, q)) \/ \A i \in 2..Len(todo) : Removes(todo, i)
    BY <1>4, <1>5
  <2>2. \A i \in 2..Len(todo) : Removes(todo, i) =>
           /\ IsLink(fs, todo[i].origin) => IsLink(G, todo[i].origin)
           /\ IsDir(fs, todo[i].origin) => IsDir(G, todo[i].origin)
    BY <1>4, <1>7
  <2>3. todo[1].act # "MKDIR"
    BY <1>1
  <2> QED BY <1>1, <2>1, <2>2, <2>3, RestToDo
<1>9. CASE ParentRemoval(G, p) = <<>>
  <2>1. todo' = Rest
    BY <1>1, <1>3, <1>9
  <2>2. RemovesManaged(todo)'
    <3> DEFINE M == Rest
    <3>1. M = todo'
      BY <2>1
    <3>2. ASSUME NEW i \in DOMAIN M, Removes(M, i), IsLink(fs', M[i].origin)
          PROVE  \E j \in DOMAIN todo : /\ Removes(todo, j) /\ todo[j].origin = M[i].origin
                                        /\ IsLink(fs, todo[j].origin)
                                        /\ fs'[todo[j].origin] = fs[todo[j].origin]
      BY <1>3, <1>4, <1>6, <3>2 DEF IsLink
    <3> HIDE DEF M
    <3> QED BY <1>1, <3>1, <3>2, ManagedStays
  <2> QED BY <1>3, <1>8, <2>1, <2>2 DEF ToDo
<1>10. CASE ParentRemoval(G, p) # <<>>
  <2>1. Readable(G, P) /\ Entries(G, P) = {} /\ ParentRemoval(G, p) = <<RemoveOp(P)>>
    BY <1>10 DEF ParentRemoval
  <2>2. P \in Path /\ Len(P) = Len(p) - 1 /\ Len(p) \in Nat \ {0} /\ IsDir(fs, P) /\ P # p
        /\ IsInDir(p, P)
    <3>1. P \in Path /\ Len(P) = Len(p) - 1 /\ Len(p) \in Nat \ {0}
      BY <1>2, ParentPath, PathLen, EmptySeq DEF Path
    <3>2. Len(P) \in 0..Len(p) /\ P = SubSeq(p, 1, Len(P))
      BY <3>1 DEF Parent
    <3>3. IsInDir(p, P)
      BY <1>2, <3>2, PrefixIn
    <3>4. P # p
      BY <3>1
    <3> QED BY <1>1, <1>2, <3>1, <3>3, <3>4, DirAbove
  <2> HIDE DEF P
  <2>3. IsDir(G, P) /\ Stat(G, P) = P
    <3>1. IsDir(G, P)
      BY <1>4, <2>2
    <3>2. Loc(G, P) = P
      BY <1>3, <3>1, LocOfNode DEF IsDir
    <3> QED BY <1>3, <2>2, <3>1, <3>2, StatOfDir
  <2>4. ASSUME NEW i \in DOMAIN Rest, Removes(Rest, i)
        PROVE  ~IsInDir(Rest[i].origin, P) /\ ~IsInDir(P, Rest[i].origin)
    <3> DEFINE o == Rest[i].origin
    <3>1. o \in DOMAIN G /\ o \in Path
      <4>1. IsLink(G, o) \/ IsDir(G, o)
        BY <1>8, <2>4 DEF TodoOK
      <4> QED BY <1>3, <4>1 DEF IsLink, IsDir, Disk
    <3>2. ~IsInDir(p, o)
      BY <1>2, <1>6, <2>4
    <3> HIDE DEF o
    <3>3. ~IsInDir(P, o)
      BY <1>2, <2>2, <3>1, <3>2, InTrans
    <3>4. ~IsInDir(o, P)
      <4> SUFFICES ASSUME IsInDir(o, P) PROVE FALSE
        OBVIOUS
      <4>1. PICK x \in Path : o = P \o x
        BY <2>2, <3>1, InDir
      <4>2. x # <<>>
        BY <2>2, <3>3, <4>1, InSelf, PathLen
      <4>3. PICK n \in Name, z \in Path : x = <<n>> \o z
        BY <4>2, FirstName
      <4>4. o = Append(P, n) \o z /\ Append(P, n) \in Path
        BY <2>2, <4>1, <4>3, AddJoin, AddPath
      <4>5. IsInDir(o, Append(P, n))
        BY <4>4, JoinIn
      <4>6. Append(P, n) \in DOMAIN G
        BY <1>3, <3>1, <4>4, <4>5, DirAbove DEF IsDir
      <4>7. n \in Entries(G, P)
        BY <2>3, <4>6 DEF Entries
      <4> QED BY <2>1, <4>7
    <3> QED BY <3>3, <3>4 DEF o
  <2>5. todo' = Append(Rest, RemoveOp(P)) /\ RemoveOp(P) \in Op
    <3>1. RemoveOp(P) \in Op
      BY <2>2, NamedOpTyped
    <3> QED BY <1>1, <1>3, <2>1, <3>1, AppendIsConcat
  <2>6. TodoOK(G, Append(Rest, RemoveOp(P)))
    BY <1>1, <1>8, <2>2, <2>3, <2>4, ParentToDo
  <2>7. RemovesManaged(todo)'
    <3> DEFINE l == RemoveOp(P)  M == Append(Rest, l)
    <3>1. l.origin = P
      BY DEF RemoveOp, MkOp
    <3> HIDE DEF l
    <3>2. /\ \A i \in DOMAIN M : i \in DOMAIN Rest \/ M[i] = l
          /\ \A i \in DOMAIN Rest : M[i] = Rest[i]
      BY <1>1
    <3> HIDE DEF M
    <3>3. ASSUME NEW i \in DOMAIN M, Removes(M, i), IsLink(fs', M[i].origin)
          PROVE  \E j \in DOMAIN todo : /\ Removes(todo, j) /\ todo[j].origin = M[i].origin
                                        /\ IsLink(fs, todo[j].origin)
                                        /\ fs'[todo[j].origin] = fs[todo[j].origin]
      <4>1. M[i] # l
        BY <1>3, <2>3, <3>1, <3>3 DEF IsLink, IsDir
      <4>2. i \in DOMAIN Rest /\ M[i] = Rest[i] /\ Removes(Rest, i)
        BY <3>2, <3>3, <4>1 DEF Removes
      <4> QED BY <1>3, <1>4, <1>6, <3>3, <4>2 DEF IsLink
    <3>4. M = todo'
      BY <2>5 DEF M, l
    <3> QED BY <1>1, <3>3, <3>4, ManagedStays
  <2> QED BY <1>3, <2>5, <2>6, <2>7 DEF ToDo
<1> QED BY <1>9, <1>10
LEMMA RemoveKeeps ==
    ASSUME ExecOK, ToDo, ExecRemoveDir \/ ExecUnlink, phase' = "exec"
    PROVE  ToDo'
<1> DEFINE p == Current.origin
<1>1. /\ phase = "exec" /\ todo # <<>> /\ Current.act = "REMOVE"
      /\ UNCHANGED <<host, opt, keep, stow_dirs>>
  BY DEF ExecRemoveDir, ExecUnlink, Doing, Frame, setupVars, listVars
<1>2. ExecOK' /\ p \in Path /\ Rest \in Seq(Op)
  BY <1>1, RemoveTyped, CurrentTyped
<1>3. Loc(fs, p) = p
  BY <1>1, RemovePlace DEF ToDo
<1>4. CASE Removed(p, fs) /\ keep_dir(fs, p)
  <2>1. fs' = fs /\ todo' = Rest
    BY <1>2, <1>4 DEF Removed, ParentRemoval
  <2>2. Keeps(fs, fs')
    BY <2>1 DEF Keeps
  <2> QED BY <1>1, <2>1, <2>2, DoneToDo
<1>5. CASE Removed(p, Drop(fs, p)) /\ Changeable(fs, Loc(fs, p))
  <2>1. p # <<>> /\ Disk(fs')
    BY <1>2, <1>3, <1>5 DEF Changeable, ExecOK, CheckOK
  <2> QED BY <1>1, <1>5, <2>1, RemovedToDo
<1>6. ~Failed
  BY DEF Failed
<1> QED BY <1>4, <1>5, <1>6 DEF ExecRemoveDir, ExecUnlink, CanRmdir, CanUnlink

\* What is made, and where: nothing was there, or a file.
LEMMA MakeKeeps ==
    ASSUME ExecOK, ToDo, ExecMkdir \/ ExecSetLink, phase' = "exec"
    PROVE  ToDo'
<1> DEFINE t == Current.target
<1>1. /\ phase = "exec" /\ todo # <<>> /\ Current.act \in {"MKDIR", "SET_LINK"}
      /\ UNCHANGED <<host, opt, keep, stow_dirs>>
  BY DEF ExecMkdir, ExecSetLink, Doing, Frame, setupVars, listVars
<1>2. Loc(fs, t) = t
  BY <1>1, MakePlace DEF ToDo
<1>3. CanMake(fs, t) /\ todo' = Rest
      /\ (fs' = Put(fs, t, Dir) \/ fs' = Put(fs, t, Link(Current.origin)))
      /\ (Current.act = "MKDIR" => fs' = Put(fs, t, Dir))
  BY <1>1, <1>2 DEF ExecMkdir, ExecSetLink, Doing, Try, Failed
<1>4. t \notin DOMAIN fs
  BY <1>2, <1>3 DEF CanMake, Lexists
<1>5. Keeps(fs, fs')
  BY <1>3, <1>4, PutKeeps
<1>6. IsDir(Put(fs, t, Dir), t)
  BY DEF Put, IsDir, Dir
<1> QED BY <1>1, <1>3, <1>5, <1>6, DoneToDo

LEMMA CopyKeeps ==
    ASSUME ExecOK, ToDo, file_copy \/ dir_copy \/ ExecCommand, phase' = "exec"
    PROVE  ToDo' /\ Keeps(fs, fs')
<1> DEFINE t == Current.target
<1>1. /\ phase = "exec" /\ todo # <<>> /\ Current.act \notin {"REMOVE", "MKDIR"}
      /\ UNCHANGED <<host, opt, keep, stow_dirs>>
  BY DEF file_copy, dir_copy, ExecCommand, Doing, Frame, setupVars, listVars
<1>2. Current.act # "COPY_DIR" /\ ~Current.sub
  BY <1>1, MakePlace DEF ToDo
<1>3. ~dir_copy
  BY <1>2 DEF dir_copy, Doing
<1>4. todo' = Rest /\ (fs' = fs \/ (CanOpenW(fs, t) /\ \E c : fs' = Write(fs, t, c)))
  BY <1>2, <1>3 DEF file_copy, CopyFailed, CanCopy, ExecCommand
<1>5. Keeps(fs, fs')
  <2>1. CASE fs' = fs
    BY <2>1 DEF Keeps
  <2>2. CASE CanOpenW(fs, t) /\ \E c : fs' = Write(fs, t, c)
    <3>1. Stat(fs, t) \notin DOMAIN fs \/ IsFile(fs, Stat(fs, t))
      BY <2>2 DEF CanOpenW
    <3> QED BY <2>2, <3>1, PutKeeps DEF Write
  <2> QED BY <1>4, <2>1, <2>2
<1> QED BY <1>1, <1>4, <1>5, DoneToDo

\* The executor as a whole.
THEOREM ExecStepToDo ==
    ASSUME ExecOK, phase = "check" => PlannerOK, phase = "exec" => ToDo, ExecStep
    PROVE  phase' = "exec" => ToDo'
<1> SUFFICES ASSUME phase' = "exec" PROVE ToDo'
  OBVIOUS
<1>1. CASE ExecBegin
  <2>1. phase = "check" /\ todo' = links
        /\ UNCHANGED <<host, stow_dirs, fs>>
    BY <1>1 DEF ExecBegin, Planned, setupVars, listVars
  <2>2. links \in Seq(Op) /\ Disk(fs) /\ PlanOK(fs, links) /\ RemovesManaged(links)
    BY <2>1 DEF ExecOK, CheckOK, CheckTypeOK, PlannerOK, CallsOK
  <2>3. TodoOK(fs, links)
    BY <2>2, PlanToDo
  <2>4. RemovesManaged(todo)'
    BY <2>1, <2>2 DEF RemovesManaged, Removes, Managed, match_stow_dirs, match_auto_stow_dirs, Config
  <2> QED BY <2>1, <2>3, <2>4 DEF ToDo
<1>2. CASE ExecRemoveDir \/ ExecUnlink
  BY <1>2, RemoveKeeps DEF ExecRemoveDir, ExecUnlink, Doing
<1>3. CASE ExecMkdir \/ ExecSetLink
  BY <1>3, MakeKeeps DEF ExecMkdir, ExecSetLink, Doing
<1>4. CASE file_copy \/ dir_copy \/ ExecCommand
  BY <1>4, CopyKeeps DEF file_copy, dir_copy, ExecCommand, Doing
<1>5. ~ExecEnd
  BY DEF ExecEnd
<1> QED BY <1>1, <1>2, <1>3, <1>4, <1>5 DEF ExecStep
-----------------------------------------------------------------------------
(***************************************************************************)
(* PlanInv is an invariant.                                                *)
(***************************************************************************)
LEMMA PlanInit == Init => PlanInv
BY DEF Init, PlanInv, PlannerOK

LEMMA SelectKeeps ==
    ASSUME NEW q \in Seq(Pkg), q # <<>>, NEW o, Select(q, o)
    PROVE  package' \in Path /\ IsInDir(package', StowDir) /\ phase' = "begin"
<1>1. Head(q) \in Name
  BY SetupAssumption
<1>2. IsInDir(PkgDir(Head(q)), StowDir) /\ PkgDir(Head(q)) \in Path
  BY <1>1, InAdd, InSelf, AddPath, SetupAssumption DEF PkgDir
<1> QED BY <1>2 DEF Select

LEMMA EditKeeps ==
    ASSUME TypeOK, PlanInv, UserEdit
    PROVE  PlanInv'
<1>1. phase = "exec" /\ UNCHANGED <<setupVars, phase, checkVars, execVars>>
  BY DEF UserEdit
<1>2. PICK e \in Hosts[host].edits : CanMake(fs, e.place) /\ fs' = Put(fs, Loc(fs, e.place), e.node)
  BY DEF UserEdit
<1>3. Keeps(fs, fs')
  BY <1>2, PutKeeps DEF CanMake, Lexists
<1>4. TodoOK(fs, todo) /\ RemovesManaged(todo) /\ links = <<>>
  BY <1>1 DEF PlanInv
<1>5. TodoOK(fs', todo)
  BY <1>3, <1>4, TodoStays DEF Keeps
<1>6. RemovesManaged(todo)'
  <2>1. \A i \in DOMAIN todo : Removes(todo, i) => IsLink(fs, todo[i].origin) \/ IsDir(fs, todo[i].origin)
    BY <1>4 DEF TodoOK
  <2>2. \A i \in DOMAIN todo : Removes(todo, i) /\ IsLink(fs', todo[i].origin)
           => IsLink(fs, todo[i].origin) /\ fs'[todo[i].origin] = fs[todo[i].origin]
    BY <1>3, <2>1 DEF Keeps, IsLink, IsDir
  <2> QED BY <1>1, <1>4, <2>2, ManagedStays DEF setupVars, listVars, execVars
<1> QED BY <1>1, <1>4, <1>5, <1>6 DEF PlanInv, PlannerOK, setupVars, listVars, checkVars, execVars

LEMMA PlanNext == TypeOK /\ Straight /\ PlanInv /\ [Next]_vars => PlanInv'
<1> SUFFICES ASSUME TypeOK, Straight, PlanInv, [Next]_vars PROVE PlanInv'
  OBVIOUS
<1>1. CASE User
  <2>1. PICK c \in Hosts[host].commands : Start(c) \/ StartUnknown(c)
    BY <1>1 DEF User
  <2>2. CASE Start(c)
    <3>1. c.pkgs \in Seq(Pkg) /\ c.pkgs # <<>>
      BY HostTyped DEF TypeOK, SetupTypeOK, Command
    <3>2. phase = "idle" /\ Select(c.pkgs, c.opt) /\ links' = links
          /\ stow_dirs' = CheckedDirs(fs, {StowDir} \cup Config.stowDirs)
      BY <2>2 DEF Start, checkVars
    <3>3. Disk(fs) /\ PlainDir(fs, StowDir) /\ StowDir \in Path
      BY SetupAssumption DEF TypeOK, Straight
    <3>4. DirAt(fs, StowDir)
      <4>1. IsInDir(StowDir, StowDir) /\ IsDir(fs, StowDir)
        BY <3>3, InSelf DEF PlainDir
      <4> QED BY <3>3, <4>1, PlainName
    <3>5. StowDir \in stow_dirs'
      BY <3>2, <3>4 DEF CheckedDirs
    <3> QED BY <3>1, <3>2, <3>5, SelectKeeps DEF PlanInv, PlannerOK
  <2>3. CASE StartUnknown(c)
    BY <2>3 DEF StartUnknown, PlanInv, PlannerOK, setupVars, listVars, checkVars
  <2> QED BY <2>1, <2>2, <2>3
<1>2. CASE BeginPass
  <2>1. phase = "begin" /\ phase' \in {"check"} \cup Stopped /\ UNCHANGED setupVars
    BY <1>2 DEF BeginPass, Enter, Stop, Stopped
  <2>2. PlannerOK'
    BY <1>2, BeginPassKeeps
  <2> QED BY <2>1, <2>2 DEF PlanInv, Stopped, setupVars, listVars
<1>3. CASE Check
  <2>1. CheckOK' /\ PlanStep /\ Ready
    <3>1. CheckOK
      BY DEF TypeOK, CheckOK
    <3>2. CheckOK' /\ PlanStep
      BY <1>3, <3>1, CheckStepTyped DEF Check
    <3> QED BY <3>1, <3>2 DEF Ready, PlanInv, PlanStep, Planning
  <2>2. PlannerOK'
    BY <1>3, <2>1, CheckStepKeeps DEF Check
  <2>3. UNCHANGED <<package, stow_dirs>>
    BY <1>3 DEF Check, CheckStep, CheckChild, CheckDeps, ChildOwn, ChildExec, ChildCopied,
                ChildConflict, ChildProtected, ChildDir, ChildTraversed, ChildAutoTraverse,
                ChildForeign, ChildFolded, ChildMissing, DepsDir, DepsHarmless, DepsConflict,
                DepsLink, DepsReturn, DiveNotDir, DiveCopyDir, Dive, CheckReturn, Skip, Plan,
                Obstacle, Stop, Enter, Surface, setupVars, listVars
  <2> QED BY <2>1, <2>2, <2>3 DEF PlanInv, PlanStep, Planning, Stopped
<1>4. CASE Exec
  <2>1. ExecOK /\ ExecOK' /\ ExecPhases /\ ExecStep
    BY <1>4, ExecStepTyped DEF TypeOK, CheckOK, ExecOK, Exec
  <2>2. phase' = "exec" => ToDo'
    BY <2>1, ExecStepToDo DEF PlanInv, ToDo
  <2>3. links' = <<>> /\ UNCHANGED <<package, stow_dirs>>
    BY <2>1 DEF ExecStep, ExecBegin, ExecRemoveDir, ExecUnlink, ExecMkdir, ExecSetLink, file_copy,
                dir_copy, ExecCommand, ExecEnd, Frame, Doing, PlanInv, checkVars, setupVars, listVars
  <2> QED BY <2>1, <2>2, <2>3 DEF PlanInv, PlannerOK, ExecPhases, ToDo
<1>5. CASE Again
  BY <1>5 DEF Again, PlanInv, PlannerOK, listVars, checkVars
<1>6. CASE NextPackage
  <2>1. phase = "done" /\ Select(Tail(queue), opt) /\ UNCHANGED <<links, stow_dirs>>
    BY <1>6 DEF NextPackage, listVars, checkVars
  <2>2. Tail(queue) \in Seq(Pkg) /\ Tail(queue) # <<>>
    <3>1. queue \in Seq(Pkg) /\ Len(queue) > 1
      BY <1>6 DEF NextPackage, TypeOK, MainTypeOK
    <3>2. Tail(queue) \in Seq(Pkg) /\ Len(Tail(queue)) > 0
      BY <3>1
    <3> QED BY <3>2, NonEmpty
  <2> QED BY <2>1, <2>2, SelectKeeps DEF PlanInv, PlannerOK
<1>7. CASE Return \/ Die
  <2>1. phase' = "idle" /\ links' = <<>>
    BY <1>7 DEF Return, Die, Quit
  <2> QED BY <2>1 DEF PlanInv, PlannerOK
<1>8. CASE UserEdit
  BY <1>8, EditKeeps
<1>9. CASE UNCHANGED vars
  BY <1>9 DEF vars, setupVars, listVars, checkVars, execVars, mainVars, PlanInv, PlannerOK, CallsOK,
              RemovesManaged, Managed, match_stow_dirs, match_auto_stow_dirs, Config
<1> QED BY <1>1, <1>2, <1>3, <1>4, <1>5, <1>6, <1>7, <1>8, <1>9 DEF Next, Process

\* The plan, the calls of check and checkDirs that make it, and what exec_list
\* has left of it fit the disk at every moment.
THEOREM PlansFit == Spec /\ []Straight => []PlanInv
BY TypeCorrect, PlanInit, PlanNext, PTL DEF Spec

\* Nothing is written through a link: when its turn comes, every operation of
\* the plan names its place directly, also what check saw through a folded
\* directory (unify_links and the order of the list in exec_list).
THEOREM PlacesDirect == Spec /\ []Straight => []NoWriteThroughLink
<1>1. TypeOK /\ PlanInv => NoWriteThroughLink
  <2> SUFFICES ASSUME TypeOK, PlanInv, phase = "exec", todo # <<>>
               PROVE  LinksAbove(fs, Place(Current)) = {}
    BY DEF NoWriteThroughLink
  <2>1. ExecOK /\ TodoOK(fs, todo)
    BY DEF TypeOK, ExecOK, CheckOK, PlanInv
  <2> QED BY <2>1, MakePlace, RemovePlace DEF Place
<1> QED BY <1>1, PlansFit, TypeCorrect, PTL
-----------------------------------------------------------------------------
\* The one step that takes a directory away is the removal of one that is not
\* kept, under its own name.
LEMMA DirGoes ==
    ASSUME ExecOK, phase = "exec" => ToDo, ExecStep, NEW d, IsDir(fs, d), ~IsDir(fs', d)
    PROVE  ~keep_dir(fs, d)
<1>1. CASE ExecRemoveDir
  <2>1. /\ phase = "exec" /\ todo # <<>> /\ Current.act = "REMOVE"
        /\ fs' = fs \/ (~keep_dir(fs, Current.origin) /\ fs' = Drop(fs, Current.origin))
    BY <1>1 DEF ExecRemoveDir, Doing, Removed, Failed
  <2>2. Loc(fs, Current.origin) = Current.origin
    BY <2>1, RemovePlace DEF ToDo
  <2> QED BY <2>1, <2>2, DropKeepsDirs
<1>2. CASE ExecUnlink
  <2>1. fs' = fs \/ (fs' = Drop(fs, Current.origin) /\ ~IsDir(fs, Loc(fs, Current.origin)))
    BY <1>2 DEF ExecUnlink, Removed, Failed
  <2> QED BY <2>1, DropKeepsDirs
<1>3. CASE ExecMkdir \/ ExecSetLink
  <2>1. \/ fs' = fs
        \/ /\ ~IsDir(fs, Loc(fs, Current.target))
           /\ \E n : fs' = Put(fs, Loc(fs, Current.target), n)
    BY <1>3 DEF ExecMkdir, ExecSetLink, Try, Failed, CanMake, Lexists, IsDir
  <2> QED BY <2>1, PutKeepsDirs
<1>4. CASE file_copy \/ dir_copy \/ ExecCommand
  <2>1. phase = "exec" /\ phase' = "exec"
    BY <1>4 DEF file_copy, dir_copy, ExecCommand, CopyFailed, Doing
  <2> QED BY <1>4, <2>1, CopyKeeps DEF Keeps
<1>5. CASE ExecBegin \/ ExecEnd
  BY <1>5 DEF ExecBegin, ExecEnd
<1> QED BY <1>1, <1>2, <1>3, <1>4, <1>5 DEF ExecStep

\* Only the executor takes directories away.
LEMMA DirGoesInExec ==
    ASSUME TypeOK, Next, NEW d, IsDir(fs, d), ~IsDir(fs', d)
    PROVE  Exec
<1>1. ~Check
  BY CheckStepTyped DEF Check, TypeOK, CheckOK, PlanStep
<1>2. ~BeginPass
  BY DEF BeginPass, Enter, Stop
<1>3. ~(User \/ Again \/ NextPackage \/ Return \/ Die)
  BY DEF User, Start, StartUnknown, Again, NextPackage, Return, Die, Quit
<1>4. ~UserEdit
  <2> SUFFICES ASSUME UserEdit PROVE FALSE
    OBVIOUS
  <2>1. PICK e \in Hosts[host].edits :
            CanMake(fs, e.place) /\ fs' = Put(fs, Loc(fs, e.place), e.node)
    BY DEF UserEdit
  <2>2. ~IsDir(fs, Loc(fs, e.place))
    BY <2>1 DEF CanMake, Lexists, IsDir
  <2> QED BY <2>1, <2>2, PutKeepsDirs
<1> QED BY <1>1, <1>2, <1>3, <1>4 DEF Next, Process

\* A relative entry of [keep-dirs] is obeyed as well: exec_list asks keep_dir
\* for the name it is about to remove, and that is the directory's own name.
THEOREM KeepEndsObeyed == Spec /\ []Straight => KeptEndsStay
<1>1. TypeOK /\ PlanInv /\ [Next]_vars
         => [\A d \in DOMAIN fs : IsDir(fs, d) /\ (\E k \in Config.keepEnds : IsSuffix(k, d))
                                    => IsDir(fs', d)]_vars
  <2> SUFFICES ASSUME TypeOK, PlanInv, Next, NEW d \in DOMAIN fs, IsDir(fs, d),
                      \E k \in Config.keepEnds : IsSuffix(k, d), ~IsDir(fs', d)
               PROVE  FALSE
    OBVIOUS
  <2>1. ExecOK /\ ExecStep
    BY DirGoesInExec DEF Exec, TypeOK, CheckOK, ExecOK
  <2>2. phase = "exec" => ToDo
    BY DEF PlanInv, ToDo
  <2>3. ~keep_dir(fs, d)
    BY <2>1, <2>2, DirGoes
  <2> QED BY <2>3 DEF keep_dir, compare_keep_dir
<1> QED BY <1>1, PlansFit, TypeCorrect, PTL DEF Spec, KeptEndsStay
-----------------------------------------------------------------------------
(***************************************************************************)
(* Tidy hosts.                                                             *)
(***************************************************************************)
LEMMA RootsTyped ==
    ASSUME host \in DOMAIN Hosts
    PROVE  StowRoots = RootsOf(host) /\ StowRoots \subseteq Path /\ StowDir \in StowRoots
           /\ \A p \in Pkg : PkgDir(p) \in Path /\ IsInDir(PkgDir(p), StowDir)
<1>1. Config \in ConfigType /\ Config.stowDirs \subseteq Path /\ StowDir \in Path
  BY HostTyped, SetupAssumption DEF ConfigType
<1>2. ASSUME NEW p \in Pkg PROVE PkgDir(p) \in Path /\ IsInDir(PkgDir(p), StowDir)
  <2>1. p \in Name
    BY SetupAssumption
  <2>2. PkgDir(p) \in Path
    BY <1>1, <2>1, AddPath DEF PkgDir
  <2>3. IsInDir(PkgDir(p), StowDir)
    BY <1>1, <2>1, InAdd, InSelf DEF PkgDir
  <2> QED BY <2>2, <2>3
<1> QED BY <1>1, <1>2 DEF StowRoots, RootsOf, Config
-----------------------------------------------------------------------------
(***************************************************************************)
(* Places outside the stow directories.                                    *)
(***************************************************************************)
\* A link is in no stow directory, and none is below it.
LEMMA BelowLinkOutside ==
    ASSUME NEW F, Disk(F), NEW l, IsLink(F, l), NEW p \in Path, IsInDir(p, l),
           NEW r \in Path, PlainDir(F, r)
    PROVE  ~IsInDir(p, r)
<1> SUFFICES ASSUME IsInDir(p, r) PROVE FALSE
  OBVIOUS
<1>1. l \in DOMAIN F /\ l \in Path /\ ~IsDir(F, l)
  BY DEF IsLink, IsDir, Disk
<1>2. ~IsInDir(l, r)
  BY <1>1 DEF PlainDir
<1>3. IsInDir(r, l)
  BY <1>1, <1>2, InBoth
<1> QED BY <1>1, <1>3, DirOver DEF PlainDir

\* What holds something outside is outside.
LEMMA OutsideAbove ==
    ASSUME NEW p \in Path, NEW q \in Path, IsInDir(p, q), NEW r \in Path, ~IsInDir(p, r)
    PROVE  ~IsInDir(q, r)
BY InTrans

\* A child of a call has the name of something in the package, so it is in no
\* stow directory: no package has the name of one.
LEMMA AlignedOutside ==
    ASSUME NEW F, Disk(F), NEW roots \in SUBSET Path, TidyDisk(F, roots),
           NEW p \in Pkg, PkgDir(p) \in Path, Target \in Path,
           NEW z \in Path, PkgDir(p) \o z \in DOMAIN F,
           NEW r \in roots, ~IsInDir(Target, r)
    PROVE  ~IsInDir(Target \o z, r)
<1> SUFFICES ASSUME IsInDir(Target \o z, r) PROVE FALSE
  OBVIOUS
<1>1. r \in Path /\ Target \o z \in Path /\ IsInDir(Target \o z, Target)
  BY JoinPath, JoinIn
<1>2. IsInDir(r, Target)
  BY <1>1, InBoth
<1>3. r = Target \o After(r, Target) /\ After(r, Target) \in Path
  BY <1>1, <1>2, InDir
<1>4. PICK t \in Path : Target \o z = r \o t
  BY <1>1, InDir
<1>5. z = After(r, Target) \o t
  <2> DEFINE s == After(r, Target)
  <2>1. s \in Path /\ r = Target \o s
    BY <1>3
  <2> HIDE DEF s
  <2>2. (Target \o s) \o t = Target \o (s \o t)
    BY <2>1, JoinAssoc
  <2>3. Target \o z = Target \o (s \o t)
    BY <1>4, <2>1, <2>2
  <2>4. s \o t \in Path
    BY <2>1, JoinPath
  <2> QED BY <2>3, <2>4, JoinCancel DEF s
<1>6. PkgDir(p) \o After(r, Target) \in DOMAIN F
  <2> DEFINE s == After(r, Target)
  <2>1. s \in Path /\ z = s \o t
    BY <1>3, <1>5
  <2> HIDE DEF s
  <2>2. PkgDir(p) \o s \in Path /\ PkgDir(p) \o z = (PkgDir(p) \o s) \o t
    <3>1. PkgDir(p) \o s \in Path
      BY <2>1, JoinPath
    <3>2. (PkgDir(p) \o s) \o t = PkgDir(p) \o (s \o t)
      BY <2>1, JoinAssoc
    <3> QED BY <2>1, <3>1, <3>2
  <2>3. IsInDir(PkgDir(p) \o z, PkgDir(p) \o s)
    BY <2>2, JoinIn
  <2>4. PkgDir(p) \o s \in DOMAIN F
    BY <2>2, <2>3, DirAbove DEF IsDir
  <2> QED BY <2>4 DEF s
<1> QED BY <1>2, <1>6 DEF TidyDisk
-----------------------------------------------------------------------------
(***************************************************************************)
(* What leaves a disk tidy.                                                *)
(***************************************************************************)
\* Something new, in no stow directory; a link is not on the way to the target.
LEMMA PutTidy ==
    ASSUME NEW F, NEW roots \in SUBSET Path, TidyDisk(F, roots), StowDir \in roots,
           NEW l \in Path, l \notin DOMAIN F, \A r \in roots : ~IsInDir(l, r), NEW n \in Node,
           n.kind = "link" => \A k \in 0..Len(Target) : l # SubSeq(Target, 1, k),
           \A p \in Pkg : PkgDir(p) \in Path /\ IsInDir(PkgDir(p), StowDir)
    PROVE  TidyDisk(Put(F, l, n), roots)
<1> DEFINE G == Put(F, l, n)
<1>1. DOMAIN G = DOMAIN F \cup {l} /\ \A q \in DOMAIN G : G[q] = IF q = l THEN n ELSE F[q]
  BY DEF Put
<1> HIDE DEF G
<1>2. ASSUME NEW r \in roots PROVE PlainDir(G, r)
  <2>1. PlainDir(F, r)
    BY DEF TidyDisk
  <2> QED BY <1>1, <2>1 DEF PlainDir, IsDir, IsLink
<1>3. ASSUME NEW k \in 0..Len(Target) PROVE ~IsLink(G, SubSeq(Target, 1, k))
  <2>1. ~IsLink(F, SubSeq(Target, 1, k))
    BY DEF TidyDisk
  <2> QED BY <1>1, <2>1 DEF IsLink
<1>4. ASSUME NEW r \in roots, NEW p \in Pkg, IsInDir(r, Target),
             PkgDir(p) \o After(r, Target) \in DOMAIN G
      PROVE  FALSE
  <2> DEFINE s == After(r, Target)
  <2>1. Target \in Path /\ StowDir \in Path /\ s \in Path
    BY <1>4, SetupAssumption, InDir
  <2> HIDE DEF s
  <2>2. PkgDir(p) \o s \in Path /\ IsInDir(PkgDir(p) \o s, PkgDir(p))
    BY <2>1, JoinIn, JoinPath
  <2>3. IsInDir(PkgDir(p) \o s, StowDir)
    BY <2>1, <2>2, InTrans
  <2>4. PkgDir(p) \o s # l
    BY <2>3
  <2>5. PkgDir(p) \o s \in DOMAIN F
    BY <1>1, <1>4, <2>4 DEF s
  <2> QED BY <1>4, <2>5 DEF s, TidyDisk
<1> QED BY <1>2, <1>3, <1>4 DEF TidyDisk, G

LEMMA DropTidy ==
    ASSUME NEW F, NEW roots, TidyDisk(F, roots), NEW p, p \notin roots, Loc(F, p) = p
    PROVE  TidyDisk(Drop(F, p), roots)
<1>1. DOMAIN Drop(F, p) = DOMAIN F \ {p} /\ \A q \in DOMAIN F \ {p} : Drop(F, p)[q] = F[q]
  BY DEF Drop
<1>2. \A r \in roots : PlainDir(Drop(F, p), r)
  BY <1>1 DEF TidyDisk, PlainDir, IsDir, IsLink
<1>3. \A k \in 0..Len(Target) : ~IsLink(Drop(F, p), SubSeq(Target, 1, k))
  BY <1>1 DEF TidyDisk, IsLink
<1> QED BY <1>1, <1>2, <1>3 DEF TidyDisk

\* A place strictly in the target is not on the way to it.
LEMMA BelowTarget ==
    ASSUME NEW l \in Path, IsInDir(l, Target), l # Target, NEW k \in 0..Len(Target)
    PROVE  l # SubSeq(Target, 1, k)
<1>1. Target \in Path
  BY SetupAssumption
<1>2. IsInDir(Target, SubSeq(Target, 1, k)) /\ SubSeq(Target, 1, k) \in Path
  BY <1>1, PrefixIn
<1> QED BY <1>1, <1>2, InAnti
-----------------------------------------------------------------------------
\* On a tidy host the surroundings are straight.
LEMMA TidyIsStraight ==
    ASSUME TypeOK, TidyInv
    PROVE  Straight
<1>1. host \in DOMAIN Hosts /\ Disk(fs) /\ Target \in Path
  BY SetupAssumption DEF TypeOK, SetupTypeOK
<1>2. /\ Config.copy = {} /\ Config.nignores = <<>> /\ Config.autoTraverse = {}
      /\ Config.autoStow = {} /\ trav = {} /\ stow_dirs \subseteq StowRoots /\ StowDir \in StowRoots
      /\ TidyDisk(fs, StowRoots)
  BY <1>1, RootsTyped DEF TidyInv, TidyHost, Config
<1>3. DirAt(fs, Target) => IsDir(fs, Target)
  <2>1. Len(Target) \in Nat /\ SubSeq(Target, 1, Len(Target)) = Target
    BY <1>1, PathLen
  <2>2. Loc(fs, Target) = Target
    BY <1>1, <1>2, <2>1, LocDirect DEF TidyDisk
  <2>3. ~IsLink(fs, Target)
    <3>1. Len(Target) \in 0..Len(Target)
      BY <2>1
    <3>2. ~IsLink(fs, SubSeq(Target, 1, Len(Target)))
      BY <1>2, <3>1 DEF TidyDisk
    <3> QED BY <2>1, <3>2
  <2>4. Stat(fs, Target) = Target
    BY <1>1, <2>2, <2>3 DEF Stat, Lead, Follow
  <2> QED BY <2>4 DEF DirAt
<1>4. \A d \in {StowDir} \cup stow_dirs : PlainDir(fs, d)
  BY <1>2 DEF TidyDisk
<1> QED BY <1>2, <1>3, <1>4 DEF Straight, match_auto_traverse
-----------------------------------------------------------------------------
(***************************************************************************)
(* The planner.                                                            *)
(***************************************************************************)
\* The parts of TidyInv that a step of check works with.
TidyReady == CheckOK /\ Straight /\ PlannerOK /\ TidyInv /\ IsInDir(package, StowDir)

LEMMA TidyFacts ==
    ASSUME TidyReady
    PROVE  /\ Disk(fs) /\ Target \in Path /\ StowRoots \subseteq Path /\ StowDir \in StowRoots
           /\ TidyDisk(fs, StowRoots) /\ \A r \in StowRoots : PlainDir(fs, r) /\ ~IsInDir(Target, r)
           /\ Config.copy = {} /\ Config.copyInDir = {} /\ Config.exec = <<>>
           /\ Config.autoTraverse = {} /\ trav = {}
           /\ package \in Path /\ links \in Seq(Op) /\ stack \in Seq(Call) /\ at \in Child
<1>1. host \in DOMAIN Hosts /\ Disk(fs) /\ Target \in Path
  BY SetupAssumption DEF TidyReady, CheckOK, SetupTypeOK
<1>2. StowRoots = RootsOf(host) /\ StowRoots \subseteq Path /\ StowDir \in StowRoots
  BY <1>1, RootsTyped
<1>3. TidyHost(host) /\ TidyDisk(fs, StowRoots) /\ trav = {}
  BY DEF TidyReady, TidyInv
<1>4. \A r \in StowRoots : PlainDir(fs, r) /\ ~IsInDir(Target, r)
  BY <1>2, <1>3 DEF TidyDisk, TidyHost
<1>5. /\ Config.copy = {} /\ Config.copyInDir = {} /\ Config.exec = <<>>
      /\ Config.autoTraverse = {}
  BY <1>3 DEF TidyHost, Config
<1> QED BY <1>1, <1>2, <1>3, <1>4, <1>5 DEF TidyReady, CheckOK, SetupTypeOK, CheckTypeOK

\* A step of check that leaves the disk and the lists alone keeps TidyInv, when
\* the plan and the calls stay tidy.
LEMMA TidyKept ==
    ASSUME TidyReady, phase # "idle", UNCHANGED <<fs, host, trav, stow_dirs, package>>,
           phase' \notin {"idle", "exec"},
           phase' \in Planning => OpsTidy(links') /\ \A k \in DOMAIN stack' : CallTidy(stack'[k]),
           phase' \in {"deps", "dive"} => Aligned(at'.base, at'.into)
    PROVE  TidyInv'
<1>1. TidyHost(host)' /\ TidyDisk(fs, StowRoots)' /\ trav' = {} /\ (stow_dirs \subseteq StowRoots)'
  BY DEF TidyReady, TidyInv, StowRoots, Config
<1>2. \E p \in Pkg : package' = PkgDir(p)
  BY DEF TidyReady, TidyInv
<1>3. phase' \in Planning => OpsTidy(links)' /\ (\A k \in DOMAIN stack : CallTidy(stack[k]))'
  BY DEF OpsTidy, CallTidy, Aligned, Outside, StowRoots, Config, Place
<1>4. phase' \in {"deps", "dive"} => Aligned(at.base, at.into)'
  BY DEF Aligned
<1> QED BY <1>1, <1>2, <1>3, <1>4 DEF TidyInv, Planning

\* An operation more.
LEMMA PushTidy ==
    ASSUME NEW L \in Seq(Op), OpsTidy(L), NEW l \in Op, l.act \in {"REMOVE", "MKDIR", "SET_LINK"},
           Outside(Place(l)), l.act # "REMOVE" => IsInDir(l.target, Target) /\ l.target # Target
    PROVE  OpsTidy(Push(L, l))
<1> DEFINE M == Push(L, l)
<1>1. M = L \/ M = Append(L, l)
  BY DEF Push
<1>2. \A i \in DOMAIN M : (i \in DOMAIN L /\ M[i] = L[i]) \/ M[i] = l
  BY <1>1
<1> HIDE DEF M
<1> QED BY <1>2 DEF OpsTidy, Removes, M

\* A child of a call: its place in the target is in no stow directory.
LEMMA ThereTidy ==
    ASSUME TidyReady, phase = "check", NEW n \in Name, n \in Top.kids
    PROVE  /\ Base(n) \in Path /\ There(n) \in Path
           /\ Aligned(Base(n), There(n)) /\ Outside(There(n))
           /\ IsInDir(There(n), Target) /\ There(n) # Target
<1>1. Len(stack) \in DOMAIN stack /\ Top \in Call /\ CallTidy(Top)
  <2>1. stack \in Seq(Call) /\ stack # <<>>
    BY DEF TidyReady, CheckOK, CheckTypeOK
  <2>2. Len(stack) \in DOMAIN stack
    BY <2>1, EmptySeq
  <2> QED BY <2>1, <2>2 DEF TidyReady, TidyInv, Top
<1>2. /\ Top.base \in Path /\ Top.dir \in Path /\ IsInDir(Top.base, package)
      /\ Top.dir = Target \o After(Top.base, package) /\ Append(Top.base, n) \in DOMAIN fs
  BY <1>1 DEF Call, CallTidy, Aligned
<1>3. package \in Path /\ Target \in Path /\ Disk(fs) /\ StowRoots \subseteq Path
      /\ TidyDisk(fs, StowRoots) /\ \A r \in StowRoots : ~IsInDir(Target, r)
  BY TidyFacts
<1>4. PICK p \in Pkg : package = PkgDir(p)
  BY DEF TidyReady, TidyInv
<1> DEFINE y == After(Top.base, package)  z == Append(y, n)
<1>5. y \in Path /\ Top.base = package \o y
  BY <1>2, <1>3, InDir
<1>6. z \in Path /\ z # <<>>
  BY <1>5, AddPath
<1>7. Base(n) = package \o z /\ There(n) = Target \o z
  <2> HIDE DEF y
  <2>1. package \o Append(y, n) = Append(package \o y, n)
        /\ Target \o Append(y, n) = Append(Target \o y, n)
    BY <1>3, <1>5, JoinAdd
  <2>2. Top.dir = Target \o y
    BY <1>2 DEF y
  <2> QED BY <1>5, <2>1, <2>2 DEF Base, There
<1> HIDE DEF z, y
<1>8. Base(n) \in Path /\ IsInDir(Base(n), package) /\ After(Base(n), package) = z
  BY <1>3, <1>6, <1>7, JoinIn, JoinPath
<1>9. There(n) \in Path /\ IsInDir(There(n), Target) /\ After(There(n), Target) = z
  BY <1>3, <1>6, <1>7, JoinIn, JoinPath
<1>10. There(n) # Target
  BY <1>3, <1>6, <1>9, InSelf
<1>11. Outside(There(n))
  <2>1. PkgDir(p) \o z \in DOMAIN fs
    BY <1>2, <1>4, <1>7 DEF Base
  <2> QED BY <1>3, <1>4, <1>6, <1>7, <2>1, AlignedOutside DEF Outside
<1> QED BY <1>7, <1>8, <1>9, <1>10, <1>11 DEF Aligned

\* The calls after a child is done.
LEMMA DoneTidy ==
    ASSUME TidyReady, phase = "check", NEW n \in Name, Done(n), UNCHANGED <<fs, package>>
    PROVE  \A k \in DOMAIN stack' : CallTidy(stack'[k])
<1>1. stack \in Seq(Call) /\ \A k \in DOMAIN stack : CallTidy(stack[k])
  BY DEF TidyReady, CheckOK, CheckTypeOK, TidyInv
<1>2. DOMAIN stack' = DOMAIN stack
      /\ \A k \in DOMAIN stack : /\ stack'[k].base = stack[k].base /\ stack'[k].dir = stack[k].dir
                                 /\ stack'[k].kids \subseteq stack[k].kids
  BY <1>1 DEF Done, Call
<1> QED BY <1>1, <1>2 DEF CallTidy, Aligned

LEMMA SkipTidy ==
    ASSUME TidyReady, phase = "check", NEW n \in Name, Skip(n)
    PROVE  TidyInv'
<1>1. \A k \in DOMAIN stack' : CallTidy(stack'[k])
  BY DoneTidy DEF Skip, setupVars
<1> QED BY <1>1, TidyKept DEF Skip, TidyReady, TidyInv, setupVars, listVars

LEMMA PlanTidy ==
    ASSUME TidyReady, phase = "check", NEW n \in Name, n \in Top.kids, NEW l \in Op, Plan(n, l),
           \/ l.act = "REMOVE" /\ l.origin = There(n)
           \/ l.act \in {"MKDIR", "SET_LINK"} /\ l.target = There(n)
    PROVE  TidyInv'
<1>1. \A k \in DOMAIN stack' : CallTidy(stack'[k])
  BY DoneTidy DEF Plan, setupVars
<1>2. Outside(There(n)) /\ IsInDir(There(n), Target) /\ There(n) # Target
  BY ThereTidy
<1>3. OpsTidy(Push(links, l))
  BY <1>2, PushTidy DEF Place, TidyReady, TidyInv, CheckOK, CheckTypeOK
<1> QED BY <1>1, <1>3, TidyKept DEF Plan, setupVars, listVars

LEMMA StopTidy ==
    ASSUME TidyReady, phase \in Planning, NEW p \in Stopped, Stop(p)
    PROVE  TidyInv'
BY TidyKept DEF Stop, Stopped, Planning, setupVars, listVars

LEMMA ObstacleTidy ==
    ASSUME TidyReady, phase = "check", NEW n \in Name, Obstacle(n)
    PROVE  TidyInv'
BY SkipTidy, StopTidy DEF Obstacle, Stopped, Planning

\* Nothing is copied and no command is given.
LEMMA NoCopies ==
    ASSUME TidyReady, NEW n
    PROVE  ~match_copy(n) /\ ~match_exec(n) /\ \A f : ~Copied(n, f)
<1>1. Config.copy = {} /\ Config.copyInDir = {} /\ Config.exec = <<>>
  BY TidyFacts
<1>2. DOMAIN <<>> = {}
  OBVIOUS
<1> QED BY <1>1, <1>2 DEF match_copy, match_exec, RulesFor, Copied, match_copy_file_in_dir

\* The link of another package is unfolded.
LEMMA ChildFoldedTidy ==
    ASSUME TidyReady, NEW n \in Name, ChildFolded(n)
    PROVE  TidyInv'
<1> DEFINE w == There(n)  L == Push(links, RemoveOp(w))  M == Push(L, MkdirOp(w))
<1>1. phase = "check" /\ n \in Top.kids /\ Done(n) /\ UNCHANGED <<setupVars, fs>>
      /\ at' = [entry |-> w, into |-> w, base |-> Base(n)]
      /\ ((phase' = "deps" /\ links' = M) \/ (phase' = "aborted" /\ UNCHANGED links))
  BY DEF ChildFolded, LinkedDir, OpenDir, FoundDir, Found, CheckDirs
<1>2. w \in Path /\ Outside(w) /\ IsInDir(w, Target) /\ w # Target /\ Aligned(Base(n), w)
  BY <1>1, ThereTidy
<1>3. links \in Seq(Op) /\ OpsTidy(links)
  BY <1>1 DEF TidyReady, TidyInv, CheckOK, CheckTypeOK
<1> HIDE DEF w
<1>4. RemoveOp(w) \in Op /\ MkdirOp(w) \in Op
  BY <1>2, NamedOpTyped
<1>5. /\ RemoveOp(w).act = "REMOVE" /\ Place(RemoveOp(w)) = w
      /\ MkdirOp(w).act = "MKDIR" /\ Place(MkdirOp(w)) = w /\ MkdirOp(w).target = w
  BY DEF RemoveOp, MkdirOp, MkOp, Place
<1>6. L \in Seq(Op) /\ OpsTidy(L)
  BY <1>2, <1>3, <1>4, <1>5, PushTidy, PushTyped
<1> HIDE DEF L
<1>7. OpsTidy(M)
  BY <1>2, <1>4, <1>5, <1>6, PushTidy
<1> HIDE DEF M
<1>8. \A k \in DOMAIN stack' : CallTidy(stack'[k])
  BY <1>1, DoneTidy DEF setupVars
<1> QED BY <1>1, <1>2, <1>7, <1>8, TidyKept DEF setupVars, listVars, Planning

LEMMA CheckChildTidy ==
    ASSUME TidyReady, NEW n \in Name, CheckChild(n)
    PROVE  TidyInv'
<1>1. phase = "check" /\ n \in Top.kids
  BY DEF CheckChild, ChildOwn, ChildExec, ChildCopied, ChildConflict,
         ChildProtected, ChildDir, ChildTraversed, ChildAutoTraverse, ChildForeign,
         ChildFolded, ChildMissing, FoundFile, FoundDir, Found, Missing, OpenDir, LinkedDir
<1>2. There(n) \in Path /\ Base(n) \in Path /\ Aligned(Base(n), There(n))
  BY <1>1, ThereTidy
<1>3. RemoveOp(There(n)) \in Op /\ LinkOp(Base(n), There(n)) \in Op
  BY <1>2, NamedOpTyped
<1>4. CASE ChildOwn(n)
  <2>1. Skip(n) \/ Plan(n, RemoveOp(There(n)))
    BY <1>4 DEF ChildOwn
  <2>2. RemoveOp(There(n)).act = "REMOVE" /\ RemoveOp(There(n)).origin = There(n)
    BY DEF RemoveOp, MkOp
  <2> QED BY <1>1, <1>3, <2>1, <2>2, SkipTidy, PlanTidy
<1>5. ~ChildExec(n) /\ ~ChildCopied(n)
  BY NoCopies DEF ChildExec, ChildCopied
<1>6. CASE ChildConflict(n) \/ ChildProtected(n) \/ ChildForeign(n)
  BY <1>1, <1>6, SkipTidy, ObstacleTidy DEF ChildConflict, ChildProtected, ChildForeign
<1>7. CASE ChildDir(n)
  <2>1. /\ Done(n) /\ phase' = "dive" /\ UNCHANGED <<deps, links, setupVars, fs>>
        /\ at' = [entry |-> There(n), into |-> There(n), base |-> Base(n)]
    BY <1>7 DEF ChildDir, DiveTo
  <2>2. \A k \in DOMAIN stack' : CallTidy(stack'[k])
    BY <1>1, <2>1, DoneTidy DEF setupVars
  <2>3. OpsTidy(links')
    BY <1>1, <2>1 DEF TidyReady, TidyInv
  <2> QED BY <1>1, <1>2, <2>1, <2>2, <2>3, TidyKept DEF setupVars, listVars, Planning
<1>8. ~ChildTraversed(n) /\ ~ChildAutoTraverse(n)
  BY TidyFacts DEF ChildTraversed, ChildAutoTraverse, match_auto_traverse
<1>9. CASE ChildFolded(n)
  BY <1>9, ChildFoldedTidy
<1>10. CASE ChildMissing(n)
  <2>1. Install(n) = LinkOp(Base(n), There(n))
    BY NoCopies DEF Install
  <2>2. Skip(n) \/ Plan(n, LinkOp(Base(n), There(n))) \/ Stop("refused")
    BY <1>10, <2>1 DEF ChildMissing
  <2>3. LinkOp(Base(n), There(n)).act = "SET_LINK" /\ LinkOp(Base(n), There(n)).target = There(n)
    BY DEF LinkOp, MkOp
  <2> QED BY <1>1, <1>3, <2>2, <2>3, SkipTidy, PlanTidy, StopTidy DEF Stopped, Planning
<1> QED BY <1>4, <1>5, <1>6, <1>7, <1>8, <1>9, <1>10 DEF CheckChild
-----------------------------------------------------------------------------
(***************************************************************************)
(* checkDirs works at and below a link of the target.                      *)
(***************************************************************************)
LEMMA WTidy ==
    ASSUME TidyReady, phase = "deps", NEW p \in {Deps.w} \cup {W(n) : n \in Name}
    PROVE  p \in Path /\ Outside(p) /\ IsInDir(p, Target) /\ p # Target
<1>1. Disk(fs) /\ Target \in Path /\ StowRoots \subseteq Path /\ at \in Child /\ package \in Path
      /\ \A r \in StowRoots : PlainDir(fs, r)
  BY TidyFacts
<1>2. deps \in Seq(DepsCall) /\ deps # <<>> /\ DepsOK(fs, links, deps, at) /\ Aligned(at.base, at.into)
  BY DEF TidyReady, CheckOK, CheckTypeOK, PlannerOK, TidyInv
<1>3. Len(deps) \in DOMAIN deps /\ Deps \in DepsCall
  <2>1. Len(deps) \in DOMAIN deps
    BY <1>2, EmptySeq
  <2> QED BY <1>2, <2>1 DEF Deps
<1>4. /\ at.entry \in Path /\ at.base \in Path /\ IsLink(fs, at.entry) /\ at.into = at.entry
      /\ Deps.w = at.entry \o After(Deps.w, at.entry) /\ Deps.w \in Path
  BY <1>1, <1>2, <1>3 DEF DepsOK, DepsFrameOK, Deps, Child, DepsCall
<1>5. IsInDir(Deps.w, at.entry)
  <2> DEFINE y == After(Deps.w, at.entry)
  <2>1. Len(at.entry) \in Nat /\ Len(Deps.w) \in Nat
    BY <1>4, PathLen
  <2>2. y \in Path
    BY <1>4, <2>1 DEF After, Path
  <2>3. Deps.w = at.entry \o y
    BY <1>4
  <2> HIDE DEF y
  <2> QED BY <1>4, <2>2, <2>3, JoinIn
<1>6. p \in Path /\ IsInDir(p, at.entry)
  <2>1. ASSUME NEW n \in Name PROVE W(n) \in Path /\ IsInDir(W(n), at.entry)
    BY <1>4, <1>5, AddPath, InAdd DEF W
  <2> QED BY <1>4, <1>5, <2>1
<1>7. IsInDir(at.entry, Target) /\ at.entry # Target
  <2>1. at.entry = Target \o After(at.base, package) /\ After(at.base, package) \in Path
    BY <1>1, <1>2, <1>4, InDir DEF Aligned
  <2>2. IsInDir(at.entry, Target)
    <3> DEFINE s == After(at.base, package)
    <3>1. s \in Path /\ at.entry = Target \o s
      BY <2>1
    <3> HIDE DEF s
    <3> QED BY <1>1, <3>1, JoinIn
  <2>3. ~IsLink(fs, Target)
    <3>1. Len(Target) \in 0..Len(Target) /\ SubSeq(Target, 1, Len(Target)) = Target
      BY <1>1, PathLen
    <3>2. TidyDisk(fs, StowRoots)
      BY TidyFacts
    <3>3. ~IsLink(fs, SubSeq(Target, 1, Len(Target)))
      BY <3>1, <3>2 DEF TidyDisk
    <3> QED BY <3>1, <3>3
  <2> QED BY <1>4, <2>2, <2>3
<1>8. IsInDir(p, Target) /\ p # Target
  <2>1. IsInDir(p, Target)
    BY <1>1, <1>4, <1>6, <1>7, InTrans
  <2>2. ASSUME p = Target PROVE FALSE
    BY <1>1, <1>4, <1>6, <1>7, <2>2, InAnti
  <2> QED BY <2>1, <2>2
<1>9. Outside(p)
  BY <1>1, <1>4, <1>6, BelowLinkOutside DEF Outside
<1> QED BY <1>6, <1>8, <1>9

\* A step of checkDirs that adds at most one operation.
LEMMA DepsTidy ==
    ASSUME TidyReady, phase = "deps", phase' \in {"check", "deps", "dive"} \cup Stopped,
           UNCHANGED <<stack, setupVars, fs>>,
           phase' \in {"deps", "dive"} => UNCHANGED at,
           \/ links' = links
           \/ \E l \in Op : /\ links' = Push(links, l) /\ l.act \in {"MKDIR", "SET_LINK"}
                            /\ l.target \in {Deps.w} \cup {W(n) : n \in Name}
    PROVE  TidyInv'
<1>1. /\ links \in Seq(Op) /\ OpsTidy(links) /\ \A k \in DOMAIN stack : CallTidy(stack[k])
      /\ Aligned(at.base, at.into)
  BY DEF TidyReady, TidyInv, CheckOK, CheckTypeOK
<1>2. OpsTidy(links')
  <2>1. CASE links' = links
    BY <1>1, <2>1
  <2>2. CASE links' # links
    <3>1. PICK l \in Op : /\ links' = Push(links, l) /\ l.act \in {"MKDIR", "SET_LINK"}
                          /\ l.target \in {Deps.w} \cup {W(n) : n \in Name}
      BY <2>2
    <3>2. Outside(l.target) /\ IsInDir(l.target, Target) /\ l.target # Target
      BY <3>1, WTidy
    <3>3. Place(l) = l.target /\ l.act # "REMOVE" /\ l.act \in {"REMOVE", "MKDIR", "SET_LINK"}
      BY <3>1 DEF Place
    <3>4. OpsTidy(Push(links, l))
      BY <1>1, <3>2, <3>3, PushTidy
    <3> QED BY <3>1, <3>4
  <2> QED BY <2>1, <2>2
<1> QED BY <1>1, <1>2, TidyKept DEF setupVars, listVars, Stopped, Planning

LEMMA CheckDepsTidy ==
    ASSUME TidyReady, NEW n \in Name, CheckDeps(n)
    PROVE  TidyInv'
<1>1. phase = "deps"
  BY DEF CheckDeps, DepsDir, DepsHarmless, DepsConflict, DepsLink, Shared
<1>2. W(n) \in Path /\ B(n) \in Path
  BY <1>1, DepsTyped DEF TidyReady
<1>3. CASE DepsDir(n)
  <2>1. MkdirOp(W(n)) \in Op /\ MkdirOp(W(n)).act = "MKDIR" /\ MkdirOp(W(n)).target = W(n)
    BY <1>2, NamedOpTyped DEF MkdirOp, MkOp
  <2>2. /\ phase' \in {"deps", "aborted"} /\ UNCHANGED <<stack, at, setupVars, fs>>
        /\ links' = links \/ links' = Push(links, MkdirOp(W(n)))
    BY <1>3 DEF DepsDir, CheckDirs
  <2> QED BY <1>1, <2>1, <2>2, DepsTidy DEF Stopped
<1>4. CASE DepsHarmless(n)
  BY <1>1, <1>4, DepsTidy DEF DepsHarmless
<1>5. CASE DepsConflict(n)
  BY <1>1, <1>5, DepsTidy DEF DepsConflict, Stop, checkVars, Stopped
<1>6. CASE DepsLink(n)
  <2>1. LinkOp(B(n), W(n)) \in Op /\ LinkOp(B(n), W(n)).act = "SET_LINK"
        /\ LinkOp(B(n), W(n)).target = W(n)
    BY <1>2, NamedOpTyped DEF LinkOp, MkOp
  <2>2. UNCHANGED <<phase, stack, at, setupVars, fs>> /\ links' = Push(links, LinkOp(B(n), W(n)))
    BY <1>6 DEF DepsLink
  <2> QED BY <1>1, <2>1, <2>2, DepsTidy
<1> QED BY <1>3, <1>4, <1>5, <1>6 DEF CheckDeps

LEMMA DepsReturnTidy ==
    ASSUME TidyReady, DepsReturn
    PROVE  TidyInv'
<1>1. phase = "deps" /\ phase' \in {"deps", "dive"} /\ UNCHANGED <<stack, at, setupVars, fs>>
      /\ links' \in {links, Push(links, MkdirOp(Deps.w))}
  BY DEF DepsReturn
<1>2. Deps.w \in Path
  BY <1>1, WTidy
<1>3. MkdirOp(Deps.w) \in Op /\ MkdirOp(Deps.w).act = "MKDIR" /\ MkdirOp(Deps.w).target = Deps.w
  BY <1>2, NamedOpTyped DEF MkdirOp, MkOp
<1> QED BY <1>1, <1>3, DepsTidy
-----------------------------------------------------------------------------
\* check is called for a directory of the package and the one it stands for in
\* the target.
LEMMA EnterTidy ==
    ASSUME TidyReady, phase # "idle", NEW dir, NEW base \in Path, NEW frames \in Seq(Call),
           Enter(dir, base, frames), OpsTidy(links), \A k \in DOMAIN frames : CallTidy(frames[k]),
           Aligned(base, dir)
    PROVE  TidyInv'
<1> DEFINE frame == [dir |-> dir, base |-> base, kids |-> Children(base)]
<1>1. UNCHANGED <<links, setupVars, fs>>
      /\ (phase' \in Stopped \/ (phase' = "check" /\ stack' = Append(frames, frame)))
  BY DEF Enter, Stop, Stopped, checkVars
<1>2. CallTidy(frame)
  <2>1. IsInDir(base, StowDir) /\ PlainDir(fs, StowDir) /\ Disk(fs)
    BY TidyFacts, InTrans, SetupAssumption DEF TidyReady, Aligned
  <2>2. Entries(fs, base) = {n \in Name : Append(base, n) \in DOMAIN fs}
    BY <2>1, PlainName, SetupAssumption
  <2> QED BY <2>2 DEF CallTidy, Children
<1> HIDE DEF frame
<1>3. phase' = "check" => \A k \in DOMAIN stack' : CallTidy(stack'[k])
  <2> SUFFICES ASSUME stack' = Append(frames, frame), NEW k \in DOMAIN stack' PROVE CallTidy(stack'[k])
    BY <1>1 DEF Stopped
  <2>1. (k \in DOMAIN frames /\ stack'[k] = frames[k]) \/ stack'[k] = frame
    OBVIOUS
  <2> QED BY <1>2, <2>1
<1> QED BY <1>1, <1>3, TidyKept DEF setupVars, listVars, Stopped, Planning

LEMMA DiveTidy ==
    ASSUME TidyReady, DiveNotDir \/ DiveCopyDir \/ Dive
    PROVE  TidyInv'
<1>1. phase = "dive"
  BY DEF DiveNotDir, DiveCopyDir, Dive
<1>2. /\ stack \in Seq(Call) /\ OpsTidy(links) /\ \A k \in DOMAIN stack : CallTidy(stack[k])
      /\ Aligned(at.base, at.into) /\ at.base \in Path
  BY <1>1 DEF TidyReady, TidyInv, CheckOK, CheckTypeOK, Child
<1>3. CASE DiveNotDir
  BY <1>1, <1>2, <1>3, TidyKept DEF DiveNotDir, Surface, setupVars, listVars, Planning
<1>4. ~DiveCopyDir
  BY NoCopies DEF DiveCopyDir
<1>5. CASE Dive
  BY <1>1, <1>2, <1>5, EnterTidy DEF Dive
<1> QED BY <1>3, <1>4, <1>5

LEMMA CheckReturnTidy ==
    ASSUME TidyReady, CheckReturn
    PROVE  TidyInv'
<1>1. phase = "check" /\ phase' = "check" /\ Len(stack) > 1
      /\ stack' = SubSeq(stack, 1, Len(stack) - 1) /\ UNCHANGED <<links, setupVars, fs>>
  BY DEF CheckReturn
<1>2. stack \in Seq(Call) /\ OpsTidy(links) /\ \A k \in DOMAIN stack : CallTidy(stack[k])
  BY <1>1 DEF TidyReady, TidyInv, CheckOK, CheckTypeOK
<1>3. \A k \in DOMAIN stack' : k \in DOMAIN stack /\ stack'[k] = stack[k]
  BY <1>1, <1>2
<1> QED BY <1>1, <1>2, <1>3, TidyKept DEF setupVars, listVars, Planning

\* The planner keeps to the target.
LEMMA CheckStepTidy ==
    ASSUME TidyReady, CheckStep
    PROVE  TidyInv'
BY CheckChildTidy, CheckDepsTidy, DepsReturnTidy, DiveTidy, CheckReturnTidy DEF CheckStep

LEMMA BeginPassTidy ==
    ASSUME TypeOK, PlanInv, TidyInv, BeginPass
    PROVE  TidyInv'
<1>1. phase = "begin" /\ Enter(Target, package, <<>>) /\ links = <<>>
      /\ package \in Path /\ Target \in Path
  BY SetupAssumption DEF BeginPass, PlanInv, TypeOK, SetupTypeOK
<1>2. TidyReady
  BY <1>1, TidyIsStraight DEF TidyReady, TypeOK, CheckOK, PlanInv
<1>3. Aligned(package, Target)
  BY <1>1, InSelf, PathLen DEF Aligned
<1>4. OpsTidy(<<>>) /\ (\A k \in DOMAIN <<>> : CallTidy(<<>>[k])) /\ <<>> \in Seq(Call)
  <2>1. DOMAIN <<>> = {} /\ <<>> \in Seq(Call)
    OBVIOUS
  <2> QED BY <2>1 DEF OpsTidy
<1> QED BY <1>1, <1>2, <1>3, <1>4, EnterTidy
-----------------------------------------------------------------------------
(***************************************************************************)
(* The executor.                                                           *)
(***************************************************************************)
\* What one operation does to the disk: it takes its place away, or makes
\* something at it that was not there.
Changes(op) ==
    \/ fs' = fs
    \/ op.act = "REMOVE" /\ op.origin \in DOMAIN fs /\ fs' = Drop(fs, op.origin)
    \/ /\ op.act # "REMOVE" /\ op.target \notin DOMAIN fs
       /\ \E n \in {Dir, Link(op.origin)} : fs' = Put(fs, op.target, n)

LEMMA ExecChange ==
    ASSUME ExecOK, phase = "exec", ToDo, OpsTidy(todo), ExecStep
    PROVE  \/ fs' = fs /\ phase' # "exec"
           \/ /\ todo # <<>> /\ Changes(Current)
              /\ \/ phase' # "exec" \/ todo' = Rest
                 \/ /\ Current.act = "REMOVE" /\ Current.origin # <<>>
                    /\ todo' = Append(Rest, RemoveOp(Parent(Current.origin)))
<1>1. CASE ExecEnd
  BY <1>1 DEF ExecEnd
<1>2. CASE ExecBegin
  BY <1>2 DEF ExecBegin, Planned
<1>3. ~(file_copy \/ dir_copy \/ ExecCommand)
  <2> SUFFICES ASSUME todo # <<>>, Current.act \in {"COPY", "COPY_DIR", "EXEC"} PROVE FALSE
    BY DEF file_copy, dir_copy, ExecCommand, Doing
  <2>1. 1 \in DOMAIN todo
    BY EmptySeq DEF ExecOK, ExecTypeOK
  <2> QED BY <2>1 DEF OpsTidy, Current
<1>4. CASE ExecRemoveDir \/ ExecUnlink
  <2> DEFINE p == Current.origin
  <2>1. todo # <<>> /\ Current.act = "REMOVE"
    BY <1>4 DEF ExecRemoveDir, ExecUnlink, Doing
  <2>2. p \in DOMAIN fs /\ Loc(fs, p) = p
    BY <2>1, RemovePlace DEF ToDo
  <2>3. Rest \in Seq(Op)
    BY <2>1, CurrentTyped
  <2>4. \/ fs' = fs /\ phase' # "exec"
        \/ keep_dir(fs, p) /\ Removed(p, fs)
        \/ p # <<>> /\ Removed(p, Drop(fs, p))
    BY <1>4, <2>2 DEF ExecRemoveDir, ExecUnlink, Failed, CanRmdir, CanUnlink, Changeable
  <2>5. CASE fs' = fs /\ phase' # "exec"
    BY <2>5
  <2>6. CASE keep_dir(fs, p) /\ Removed(p, fs)
    <3>1. todo' = Rest \o <<>> /\ fs' = fs
      BY <2>6 DEF Removed, ParentRemoval
    <3> QED BY <2>1, <2>3, <3>1 DEF Changes
  <2>7. CASE p # <<>> /\ Removed(p, Drop(fs, p))
    <3>1. fs' = Drop(fs, p) /\ (todo' = Rest \o <<>> \/ todo' = Rest \o <<RemoveOp(Parent(p))>>)
      BY <2>7 DEF Removed, ParentRemoval
    <3>2. Rest \o <<>> = Rest /\ Rest \o <<RemoveOp(Parent(p))>> = Append(Rest, RemoveOp(Parent(p)))
      BY <2>3
    <3> QED BY <2>1, <2>2, <2>7, <3>1, <3>2 DEF Changes
  <2> QED BY <2>4, <2>5, <2>6, <2>7
<1>5. CASE ExecMkdir \/ ExecSetLink
  <2> DEFINE t == Current.target
  <2>1. todo # <<>> /\ Current.act # "REMOVE"
    BY <1>5 DEF ExecMkdir, ExecSetLink, Doing
  <2>2. Loc(fs, t) = t
    BY <2>1, MakePlace DEF ToDo
  <2>3. \/ fs' = fs /\ phase' # "exec"
        \/ /\ t \notin DOMAIN fs /\ todo' = Rest
           /\ \E n \in {Dir, Link(Current.origin)} : fs' = Put(fs, t, n)
    BY <1>5, <2>2 DEF ExecMkdir, ExecSetLink, Try, Failed, CanMake, Lexists
  <2> QED BY <2>1, <2>3 DEF Changes
<1> QED BY <1>1, <1>2, <1>3, <1>4, <1>5 DEF ExecStep

\* The place of the first operation.
LEMMA PlaceTidy ==
    ASSUME ExecOK, OpsTidy(todo), todo # <<>>
    PROVE  /\ Current \in Op /\ Outside(Place(Current)) /\ Current.act \in {"REMOVE", "MKDIR", "SET_LINK"}
           /\ Current.act # "REMOVE" => IsInDir(Current.target, Target) /\ Current.target # Target
<1>1. 1 \in DOMAIN todo
  BY EmptySeq DEF ExecOK, ExecTypeOK
<1> QED BY <1>1, CurrentTyped DEF OpsTidy, Current, Removes

\* The disk is tidy after every operation.
LEMMA ChangeTidy ==
    ASSUME ExecOK, phase = "exec", ToDo, OpsTidy(todo), TidyDisk(fs, StowRoots), ExecStep
    PROVE  TidyDisk(fs', StowRoots)
<1>1. host \in DOMAIN Hosts /\ StowRoots \subseteq Path /\ StowDir \in StowRoots
      /\ \A p \in Pkg : PkgDir(p) \in Path /\ IsInDir(PkgDir(p), StowDir)
  BY RootsTyped DEF ExecOK, CheckOK, SetupTypeOK
<1>2. CASE fs' = fs
  BY <1>2
<1>3. CASE fs' # fs
  <2>1. todo # <<>> /\ Changes(Current)
    BY <1>3, ExecChange
  <2>2. /\ Current \in Op /\ Outside(Place(Current))
        /\ Current.act # "REMOVE" => IsInDir(Current.target, Target) /\ Current.target # Target
    BY <2>1, PlaceTidy
  <2>3. CASE Current.act = "REMOVE"
    <3> DEFINE p == Current.origin
    <3>1. p \in Path /\ Loc(fs, p) = p /\ fs' = Drop(fs, p)
      BY <1>3, <2>1, <2>3, RemovePlace DEF ToDo, Changes
    <3>2. p \notin StowRoots
      BY <1>1, <2>2, <2>3, <3>1, InSelf DEF Outside, Place
    <3> QED BY <3>1, <3>2, DropTidy
  <2>4. CASE Current.act # "REMOVE"
    <3> DEFINE l == Current.target
    <3>1. PICK n \in {Dir, Link(Current.origin)} : fs' = Put(fs, l, n)
      BY <1>3, <2>1, <2>4 DEF Changes
    <3>2. l \in Path /\ l \notin DOMAIN fs /\ \A r \in StowRoots : ~IsInDir(l, r)
      BY <1>3, <2>1, <2>2, <2>4 DEF Changes, Op, Outside, Place
    <3>3. n \in Node
      BY <2>2, NewNode DEF Op
    <3>4. \A k \in 0..Len(Target) : l # SubSeq(Target, 1, k)
      BY <2>2, <2>4, <3>2, BelowTarget
    <3> QED BY <1>1, <3>1, <3>2, <3>3, <3>4, PutTidy
  <2> QED BY <2>3, <2>4
<1> QED BY <1>2, <1>3

\* What is left to be done.
LEMMA RestTidy ==
    ASSUME ExecOK, phase = "exec", ToDo, OpsTidy(todo), ExecStep, phase' = "exec"
    PROVE  OpsTidy(todo')
<1>1. /\ todo # <<>>
      /\ \/ todo' = Rest
         \/ /\ Current.act = "REMOVE" /\ Current.origin # <<>>
            /\ todo' = Append(Rest, RemoveOp(Parent(Current.origin)))
  BY ExecChange
<1>2. Rest \in Seq(Op) /\ \A i \in DOMAIN Rest : \E j \in DOMAIN todo : Rest[i] = todo[j]
  BY <1>1, RestIs DEF ExecOK, ExecTypeOK, Rest
<1>3. OpsTidy(Rest)
  BY <1>2 DEF OpsTidy, Removes
<1>4. CASE todo' = Rest
  BY <1>3, <1>4
<1>5. CASE todo' # Rest
  <2> DEFINE p == Current.origin  l == RemoveOp(Parent(p))
  <2>1. Current.act = "REMOVE" /\ p # <<>> /\ todo' = Append(Rest, l)
    BY <1>1, <1>5
  <2>2. Current \in Op /\ Outside(p)
    BY <1>1, <2>1, PlaceTidy DEF Place
  <2>3. p \in Path /\ Parent(p) \in Path /\ IsInDir(p, Parent(p))
    <3>1. p \in Path
      BY <2>2 DEF Op
    <3>2. Len(p) \in Nat /\ Len(p) # 0
      BY <2>1, <3>1, EmptySeq, PathLen DEF Path
    <3>3. Len(p) - 1 \in 0..Len(p)
      BY <3>2
    <3> QED BY <3>1, <3>3, PrefixIn DEF Parent
  <2>4. Outside(Parent(p))
    <3>1. StowRoots \subseteq Path
      BY RootsTyped DEF ExecOK, CheckOK, SetupTypeOK
    <3> QED BY <2>2, <2>3, <3>1, OutsideAbove DEF Outside
  <2>5. l.act = "REMOVE" /\ Place(l) = Parent(p)
    BY DEF RemoveOp, MkOp, Place
  <2>6. \A i \in DOMAIN todo' : (i \in DOMAIN Rest /\ todo'[i] = Rest[i]) \/ todo'[i] = l
    BY <1>2, <2>1
  <2> HIDE DEF l
  <2> QED BY <1>3, <2>4, <2>5, <2>6 DEF OpsTidy, Removes
<1> QED BY <1>4, <1>5

LEMMA ExecTidy ==
    ASSUME TypeOK, PlanInv, TidyInv, Exec
    PROVE  TidyInv'
<1>1. ExecOK /\ ExecStep /\ ExecOK' /\ ExecPhases
  BY ExecStepTyped DEF Exec, TypeOK, CheckOK, ExecOK
<1>2. UNCHANGED setupVars
  BY <1>1 DEF ExecStep, ExecBegin, ExecRemoveDir, ExecUnlink, ExecMkdir, ExecSetLink, file_copy,
              dir_copy, ExecCommand, ExecEnd, Frame
<1>3. TidyHost(host) /\ trav = {} /\ stow_dirs \subseteq StowRoots /\ \E p \in Pkg : package = PkgDir(p)
  BY <1>1 DEF TidyInv, ExecPhases
<1>4. TidyDisk(fs', StowRoots)
  <2>1. CASE phase = "exec"
    BY <1>1, <2>1, ChangeTidy DEF TidyInv, PlanInv, ToDo
  <2>2. CASE phase # "exec"
    <3>1. fs' = fs
      BY <1>1, <2>2 DEF ExecStep, ExecBegin, ExecRemoveDir, ExecUnlink, ExecMkdir, ExecSetLink,
                file_copy, dir_copy, ExecCommand, ExecEnd, Doing
    <3> QED BY <3>1 DEF TidyInv
  <2> QED BY <2>1, <2>2
<1>5. phase' = "exec" => OpsTidy(todo')
  <2>1. CASE phase = "exec"
    BY <1>1, <2>1, RestTidy DEF TidyInv, PlanInv, ToDo
  <2>2. CASE phase = "check" /\ phase' = "exec"
    <3>1. todo' = links
      BY <1>1, <2>2 DEF ExecStep, ExecBegin, ExecRemoveDir, ExecUnlink, ExecMkdir, ExecSetLink,
                file_copy, dir_copy, ExecCommand, ExecEnd, Doing
    <3> QED BY <2>2, <3>1 DEF TidyInv
  <2> QED BY <1>1, <2>1, <2>2 DEF ExecPhases
<1>6. (StowRoots = StowRoots') /\ (OpsTidy(todo') <=> OpsTidy(todo)')
  BY <1>2 DEF OpsTidy, Outside, StowRoots, Config, Place, setupVars
<1> QED BY <1>1, <1>2, <1>3, <1>4, <1>5, <1>6 DEF TidyInv, ExecPhases, setupVars, listVars
-----------------------------------------------------------------------------
\* What the user makes: a link below the target is not on the way to it, even
\* when it is made through another link.
LEMMA EditTidy ==
    ASSUME TypeOK, TidyInv, UserEdit
    PROVE  TidyInv'
<1>1. PICK e \in Hosts[host].edits :
          /\ CanMake(fs, e.place) /\ fs' = Put(fs, Loc(fs, e.place), e.node)
          /\ ~\E d \in StowRoots : IsInDir(Loc(fs, e.place), d)
  BY DEF UserEdit
<1> DEFINE p == e.place  l == Loc(fs, p)
<1>2. p \in Path /\ e.node \in Node /\ Disk(fs) /\ host \in DOMAIN Hosts /\ Target \in Path
  BY HostTyped, SetupAssumption DEF TypeOK, SetupTypeOK, Edit
<1>3. l \in Path /\ l \notin DOMAIN fs
  BY <1>1, <1>2, LocPath DEF CanMake, Lexists
<1>4. TidyDisk(fs, StowRoots) /\ (e.node.kind = "link" => IsInDir(p, Target) /\ p # Target)
  BY DEF TidyInv, TidyHost
<1>5. ASSUME e.node.kind = "link", NEW k \in 0..Len(Target) PROVE l # SubSeq(Target, 1, k)
  <2>1. IsInDir(p, Target) /\ p # Target
    BY <1>4, <1>5
  <2>2. CASE l = p
    BY <1>2, <2>1, <2>2, BelowTarget
  <2>3. CASE l # p
    <3>1. PICK i \in 0..(Len(p) - 1) : IsLink(fs, SubSeq(p, 1, i))
      BY <1>2, <2>3, LocDirect
    <3> DEFINE s == SubSeq(p, 1, i)
    <3>2. s \in Path /\ IsInDir(p, s) /\ s \in DOMAIN fs
      <4>1. i \in 0..Len(p)
        BY <1>2, PathLen
      <4> QED BY <1>2, <3>1, <4>1, PrefixIn DEF IsLink
    <3>3. IsInDir(s, Target) \/ IsInDir(Target, s)
      BY <1>2, <2>1, <3>2, InBoth
    <3>4. ~IsInDir(Target, s)
      <4> SUFFICES ASSUME IsInDir(Target, s) PROVE FALSE
        OBVIOUS
      <4>1. Len(s) \in 0..Len(Target) /\ SubSeq(Target, 1, Len(s)) = s
        BY <1>2, <3>2, InDir
      <4> QED BY <1>4, <3>1, <4>1 DEF TidyDisk
    <3>5. IsInDir(s, Target) /\ s # Target
      BY <1>2, <3>3, <3>4, InSelf
    <3>6. SubSeq(Target, 1, k) \in Path /\ IsInDir(Target, SubSeq(Target, 1, k))
      BY <1>2, PrefixIn
    <3>7. IsDir(fs, Target)
      BY <1>2, <3>2, <3>5, DirAbove
    <3>8. IsDir(fs, SubSeq(Target, 1, k))
      BY <1>2, <3>6, <3>7, DirOver
    <3> QED BY <1>3, <3>8 DEF IsDir
  <2> QED BY <2>2, <2>3
<1>6. TidyDisk(fs', StowRoots)
  <2>1. \A r \in StowRoots : ~IsInDir(l, r)
    BY <1>1
  <2>2. StowRoots \subseteq Path /\ StowDir \in StowRoots
        /\ \A q \in Pkg : PkgDir(q) \in Path /\ IsInDir(PkgDir(q), StowDir)
    BY <1>2, RootsTyped
  <2> HIDE DEF l
  <2>3. TidyDisk(Put(fs, l, e.node), StowRoots)
    BY <1>2, <1>3, <1>4, <1>5, <2>1, <2>2, PutTidy
  <2> QED BY <1>1, <2>3 DEF l
<1>7. phase = "exec" /\ UNCHANGED <<setupVars, phase, checkVars, execVars>>
  BY DEF UserEdit
<1>8. (StowRoots = StowRoots') /\ (OpsTidy(todo) <=> OpsTidy(todo)')
  BY <1>7 DEF OpsTidy, Outside, StowRoots, Config, Place, setupVars, execVars
<1> QED BY <1>6, <1>7, <1>8 DEF TidyInv, setupVars, listVars, checkVars, execVars

LEMMA TidyInit == Init /\ TidyHost(host) => TidyInv
<1> SUFFICES ASSUME Init, TidyHost(host) PROVE TidyInv
  OBVIOUS
<1>1. RootsOf(host) = StowRoots
  BY DEF RootsOf, StowRoots, Config
<1> QED BY <1>1 DEF Init, TidyInv, TidyHost

LEMMA SelectTidy ==
    ASSUME NEW q \in Seq(Pkg), q # <<>>, NEW o, Select(q, o)
    PROVE  phase' = "begin" /\ \E p \in Pkg : package' = PkgDir(p)
<1>1. Head(q) \in Pkg
  OBVIOUS
<1> QED BY <1>1 DEF Select

LEMMA TidyNext == TypeOK /\ PlanInv /\ TidyInv /\ [Next]_vars => TidyInv'
<1> SUFFICES ASSUME TypeOK, PlanInv, TidyInv, [Next]_vars PROVE TidyInv'
  OBVIOUS
<1>1. ASSUME UNCHANGED <<fs, host>>, phase' \notin Planning \cup {"exec"},
             phase' # "idle" => \E p \in Pkg : package' = PkgDir(p),
             trav' = {}, stow_dirs' \subseteq StowRoots
      PROVE  TidyInv'
  <2>1. TidyHost(host)' /\ TidyDisk(fs, StowRoots)' /\ (stow_dirs \subseteq StowRoots)'
    BY <1>1 DEF TidyInv, StowRoots, Config
  <2> QED BY <1>1, <2>1 DEF TidyInv, Planning
<1>2. ASSUME NEW c \in Hosts[host].commands, Start(c) PROVE TidyInv'
  <2>1. c.pkgs \in Seq(Pkg) /\ c.pkgs # <<>>
    BY HostTyped DEF TypeOK, SetupTypeOK, Command
  <2>2. Select(c.pkgs, c.opt) /\ trav' = CheckedLinks(fs, Config.traverse) /\ UNCHANGED <<fs, host>>
        /\ stow_dirs' = CheckedDirs(fs, {StowDir} \cup Config.stowDirs)
    BY <1>2 DEF Start
  <2>3. Config.traverse = {}
    BY DEF TidyInv, TidyHost, Config
  <2>4. trav' = {} /\ stow_dirs' \subseteq StowRoots
    BY <2>2, <2>3 DEF CheckedLinks, CheckedDirs, StowRoots
  <2> QED BY <1>1, <2>1, <2>2, <2>4, SelectTidy DEF Planning
<1>3. ASSUME NEW c, StartUnknown(c) PROVE TidyInv'
  BY <1>1, <1>3 DEF StartUnknown, TidyInv, setupVars, listVars, Planning
<1>4. CASE BeginPass
  BY <1>4, BeginPassTidy
<1>5. CASE Check
  <2>1. TidyReady
    <3>1. phase \in Planning
      BY <1>5, CheckStepTyped DEF Check, TypeOK, CheckOK, PlanStep
    <3> QED BY <3>1, TidyIsStraight DEF TidyReady, TypeOK, CheckOK, PlanInv, Planning
  <2> QED BY <1>5, <2>1, CheckStepTidy DEF Check
<1>6. CASE Exec
  BY <1>6, ExecTidy
<1>7. CASE Again
  BY <1>1, <1>7 DEF Again, TidyInv, listVars, Planning
<1>8. CASE NextPackage
  <2>1. Tail(queue) \in Seq(Pkg) /\ Tail(queue) # <<>>
    <3>1. queue \in Seq(Pkg) /\ Len(queue) > 1
      BY <1>8 DEF NextPackage, TypeOK, MainTypeOK
    <3>2. Tail(queue) \in Seq(Pkg) /\ Len(Tail(queue)) > 0
      BY <3>1
    <3> QED BY <3>2, NonEmpty
  <2>2. Select(Tail(queue), opt) /\ UNCHANGED <<fs, host, trav, stow_dirs>>
    BY <1>8 DEF NextPackage, listVars
  <2> QED BY <1>1, <2>1, <2>2, SelectTidy DEF TidyInv, Planning
<1>9. CASE Return \/ Die
  <2>1. phase' = "idle" /\ trav' = {} /\ stow_dirs' = {} /\ UNCHANGED <<fs, host>>
    BY <1>9 DEF Return, Die, Quit
  <2> QED BY <1>1, <2>1 DEF Planning
<1>10. CASE UserEdit
  BY <1>10, EditTidy
<1>11. CASE UNCHANGED vars
  BY <1>11 DEF vars, setupVars, listVars, checkVars, execVars, mainVars, TidyInv, TidyDisk, StowRoots,
               Config, OpsTidy, Outside, CallTidy, Aligned, Place
<1> QED BY <1>2, <1>3, <1>4, <1>5, <1>6, <1>7, <1>8, <1>9, <1>10, <1>11 DEF Next, Process, User

TidyAll == TypeOK /\ PlanInv /\ TidyInv

LEMMA TidyStays == Spec /\ TidyHost(host) => []TidyAll
<1>1. TidyHost(host) /\ Init => TidyAll
  BY TypeInit, PlanInit, TidyInit DEF TidyAll
<1>2. TidyAll /\ [Next]_vars => TidyAll'
  BY TypeNext, TidyIsStraight, PlanNext, TidyNext DEF TidyAll
<1> QED BY <1>1, <1>2, PTL DEF Spec

\* On a tidy host nothing that XStow does, or that the user does meanwhile,
\* leads into the situations a plan is not made for.
THEOREM TidyStraight == Spec /\ TidyHost(host) => []Straight
<1>1. TidyAll => Straight
  BY TidyIsStraight DEF TidyAll
<1> QED BY <1>1, TidyStays, PTL

\* So no operation of exec_list goes through a link there.
THEOREM TidyPlacesDirect == Spec /\ TidyHost(host) => []NoWriteThroughLink
BY TidyStraight, PlacesDirect, PTL
-----------------------------------------------------------------------------
(***************************************************************************)
(* What the steps leave alone.                                             *)
(***************************************************************************)
\* The disk is changed by an operation of the plan, or by the user.
LEMMA WhoChanges ==
    ASSUME TidyAll, Next, fs' # fs
    PROVE  \/ ExecOK /\ phase = "exec" /\ ToDo /\ OpsTidy(todo) /\ todo # <<>> /\ Changes(Current)
           \/ UserEdit
<1>1. ~Check
  BY CheckStepTyped DEF Check, TidyAll, TypeOK, CheckOK, PlanStep
<1>2. ~(User \/ BeginPass \/ Again \/ NextPackage \/ Return \/ Die)
  BY DEF User, Start, StartUnknown, BeginPass, Enter, Stop, Again, NextPackage, Return, Die, Quit
<1>3. CASE Exec
  <2>1. ExecOK /\ ExecStep
    BY <1>3 DEF Exec, TidyAll, TypeOK, CheckOK, ExecOK
  <2>2. phase = "exec"
    BY <2>1 DEF ExecStep, ExecBegin, ExecRemoveDir, ExecUnlink, ExecMkdir, ExecSetLink,
                file_copy, dir_copy, ExecCommand, ExecEnd, Doing
  <2>3. ToDo /\ OpsTidy(todo)
    BY <2>2 DEF TidyAll, PlanInv, ToDo, TidyInv
  <2> QED BY <2>1, <2>2, <2>3, ExecChange
<1> QED BY <1>1, <1>2, <1>3 DEF Next, Process

\* At the places in question the disk is what it was.
Same(p) == p \in DOMAIN fs' /\ p \in DOMAIN fs /\ fs'[p] = fs[p]

LEMMA DropSame ==
    ASSUME NEW q, Loc(fs, q) = q, fs' = Drop(fs, q), NEW p \in DOMAIN fs, p # q
    PROVE  Same(p)
BY DEF Drop, Same

LEMMA PutSame ==
    ASSUME NEW l, NEW n, fs' = Put(fs, l, n), NEW p \in DOMAIN fs \cup DOMAIN fs', p # l
    PROVE  Same(p)
BY DEF Put, Same

\* Packages are linked to, never written: whatever commands are given, and
\* whatever the user puts into the target meanwhile, every stow directory
\* stays as it is (exec_list works at the names check has planned).
THEOREM PackagesUntouched == Spec /\ TidyHost(host) => PackagesIntact
<1>1. TidyAll /\ [Next]_vars
         => [\A p \in DOMAIN fs \cup DOMAIN fs' :
                (\E d \in StowRoots : IsInDir(p, d))
                   => p \in DOMAIN fs \cap DOMAIN fs' /\ fs'[p] = fs[p]]_vars
  <2> SUFFICES ASSUME TidyAll, Next, NEW p \in DOMAIN fs \cup DOMAIN fs',
                      NEW d \in StowRoots, IsInDir(p, d)
               PROVE  Same(p)
    BY DEF Same
  <2>1. CASE fs' = fs
    BY <2>1 DEF Same
  <2>2. CASE ExecOK /\ ToDo /\ OpsTidy(todo) /\ todo # <<>> /\ Changes(Current)
    <3>1. p # Place(Current)
      BY <2>2, PlaceTidy DEF Outside
    <3>2. CASE Current.act = "REMOVE"
      <4>1. Loc(fs, Current.origin) = Current.origin
        BY <2>2, <3>2, RemovePlace DEF ToDo
      <4>2. fs' = fs \/ fs' = Drop(fs, Current.origin)
        BY <2>2, <3>2 DEF Changes
      <4>3. fs' # fs => p \in DOMAIN fs
        BY <4>2 DEF Drop
      <4> QED BY <2>1, <3>1, <3>2, <4>1, <4>2, <4>3, DropSame DEF Place
    <3>3. CASE Current.act # "REMOVE"
      BY <2>1, <2>2, <3>1, <3>3, PutSame DEF Changes, Place
    <3> QED BY <3>2, <3>3
  <2>3. CASE UserEdit
    <3>1. PICK e \in Hosts[host].edits :
              /\ fs' = Put(fs, Loc(fs, e.place), e.node)
              /\ ~\E r \in StowRoots : IsInDir(Loc(fs, e.place), r)
      BY <2>3 DEF UserEdit
    <3> QED BY <3>1, PutSame
  <2> QED BY <2>1, <2>2, <2>3, WhoChanges
<1> QED BY <1>1, TidyStays, PTL DEF Spec, PackagesIntact

\* A file of the user, or a link that leads to no package, stays what it is:
\* check refuses or skips it, and what exec_list removes are links that check
\* saw lead into a stow directory, and empty directories.
THEOREM ForeignUntouched == Spec /\ TidyHost(host) => ForeignKept
<1>1. TidyAll /\ [Next]_vars
         => [\A p \in DOMAIN fs :
                fs[p].kind = "file" \/ (fs[p].kind = "link" /\ ~Managed(fs[p].ref))
                   => Rewritable(p) \/ (p \in DOMAIN fs' /\ fs'[p] = fs[p])]_vars
  <2> SUFFICES ASSUME TidyAll, Next, NEW p \in DOMAIN fs,
                      fs[p].kind = "file" \/ (fs[p].kind = "link" /\ ~Managed(fs[p].ref))
               PROVE  Same(p)
    BY DEF Same
  <2>1. CASE fs' = fs
    BY <2>1 DEF Same
  <2>2. CASE ExecOK /\ ToDo /\ OpsTidy(todo) /\ todo # <<>> /\ Changes(Current)
    <3>1. CASE Current.act = "REMOVE"
      <4>1. /\ Loc(fs, Current.origin) = Current.origin
            /\ IsLink(fs, Current.origin) \/ IsDir(fs, Current.origin)
        BY <2>2, <3>1, RemovePlace DEF ToDo
      <4>2. IsLink(fs, Current.origin) => Managed(fs[Current.origin].ref)
        <5>1. 1 \in DOMAIN todo /\ Current = todo[1]
          BY <2>2, EmptySeq DEF ExecOK, ExecTypeOK, Current
        <5> QED BY <2>2, <3>1, <5>1 DEF ToDo, RemovesManaged, Removes
      <4>3. p # Current.origin
        BY <4>1, <4>2 DEF IsLink, IsDir
      <4> QED BY <2>1, <2>2, <3>1, <4>1, <4>3, DropSame DEF Changes
    <3>2. CASE Current.act # "REMOVE"
      BY <2>1, <2>2, <3>2, PutSame DEF Changes
    <3> QED BY <3>1, <3>2
  <2>3. CASE UserEdit
    <3>1. PICK e \in Hosts[host].edits :
              CanMake(fs, e.place) /\ fs' = Put(fs, Loc(fs, e.place), e.node)
      BY <2>3 DEF UserEdit
    <3> QED BY <3>1, PutSame DEF CanMake, Lexists
  <2> QED BY <2>1, <2>2, <2>3, WhoChanges
<1> QED BY <1>1, TidyStays, PTL DEF Spec, ForeignKept
=============================================================================
