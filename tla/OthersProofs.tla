---------------------------- MODULE OthersProofs ----------------------------
(***************************************************************************)
(* A pass over one package takes nothing of another package out of sight:  *)
(* the proof that OthersInv is inductive on the hosts OthersHost describes.*)
(***************************************************************************)
EXTENDS Others, CleanProofs

-----------------------------------------------------------------------------
(***************************************************************************)
(* Names of packages.                                                      *)
(***************************************************************************)
Apart(roots) == roots \subseteq Path /\ \A r, s \in roots : IsInDir(r, s) => r = s

\* Nothing is in two packages of stow directories that are apart.
LEMMA OneHome ==
    ASSUME NEW roots, Apart(roots), NEW d \in roots, NEW e \in roots, NEW m \in Name, NEW n \in Name,
           NEW a \in Path, IsInDir(a, Append(d, m)), IsInDir(a, Append(e, n))
    PROVE  d = e /\ Append(d, m) = Append(e, n)
<1>1. d \in Path /\ e \in Path
  BY DEF Apart
<1>2. /\ Append(d, m) \in Path /\ Len(Append(d, m)) = Len(d) + 1
      /\ Append(e, n) \in Path /\ Len(Append(e, n)) = Len(e) + 1
  BY <1>1, AddPath
<1>3. IsInDir(Append(d, m), d) /\ IsInDir(Append(e, n), e)
  BY <1>1, InAdd, InSelf
<1>4. IsInDir(a, d) /\ IsInDir(a, e)
  BY <1>1, <1>2, <1>3, InTrans
<1>5. d = e
  BY <1>1, <1>4, InBoth DEF Apart
<1>6. /\ SubSeq(a, 1, Len(Append(d, m))) = Append(d, m)
      /\ SubSeq(a, 1, Len(Append(e, n))) = Append(e, n)
  BY <1>2, InDir
<1> QED BY <1>2, <1>5, <1>6

\* A link from a place of the target to what has that name in a package is
\* proper.
LEMMA ProperThere ==
    ASSUME NEW roots, Apart(roots), NEW d \in roots, NEW n \in Name, NEW P, P = Append(d, n),
           NEW b \in Path, IsInDir(b, P)
    PROVE  Proper(roots, Target \o After(b, P), b)
<1>1. d \in Path /\ P \in Path /\ IsInDir(P, d) /\ ~IsInDir(d, P)
  <2>1. d \in Path
    BY DEF Apart
  <2>2. P \in Path /\ Len(P) = Len(d) + 1 /\ Len(d) \in Nat /\ IsInDir(P, d)
    BY <2>1, AddPath, PathLen, InAdd, InSelf
  <2>3. IsInDir(d, P) => Len(P) \in 0..Len(d)
    BY <2>1, <2>2, InDir
  <2> QED BY <2>1, <2>2, <2>3
<1>2. ASSUME NEW r \in roots, IsInDir(r, b) PROVE FALSE
  <2>1. r \in Path
    BY DEF Apart
  <2>2. IsInDir(r, P)
    BY <1>1, <1>2, <2>1, InTrans
  <2>3. IsInDir(r, d)
    BY <1>1, <2>1, <2>2, InTrans
  <2> QED BY <1>1, <2>2, <2>3 DEF Apart
<1>3. ASSUME NEW r \in roots, NEW m \in Name, IsInDir(b, Append(r, m)) PROVE Append(r, m) = P
  BY <1>3, OneHome
<1> QED BY <1>2, <1>3 DEF Proper

\* A package's own link is proper.
LEMMA ProperOwn ==
    ASSUME NEW roots, Apart(roots), StowDir \in roots, NEW p \in Pkg, package = PkgDir(p),
           NEW a \in Path, IsInDir(a, package)
    PROVE  Proper(roots, Dest(a), a)
<1>1. p \in Name /\ package = Append(StowDir, p)
  BY SetupAssumption DEF PkgDir
<1> QED BY <1>1, ProperThere DEF Dest

\* A proper link into a stow directory leads to one of its packages, by the
\* name it has there.
LEMMA ProperHome ==
    ASSUME NEW roots, Apart(roots), NEW e, NEW ref \in Path, Proper(roots, e, ref),
           NEW d \in roots, IsInDir(ref, d)
    PROVE  \E n \in Name : \E x \in Path : ref = Append(d, n) \o x /\ e = Target \o x
<1>1. d \in Path /\ ~IsInDir(d, ref)
  BY DEF Apart, Proper
<1>2. PICK n \in Name : IsInDir(ref, Append(d, n))
  <2>1. ref = d \o After(ref, d) /\ After(ref, d) \in Path
    BY <1>1, InDir
  <2>2. After(ref, d) # <<>>
    <3>1. ref # d
      BY <1>1, InSelf
    <3> QED BY <1>1, <2>1, <3>1, PathLen
  <2>3. PICK m \in Name, z \in Path : \A p \in Path : p \o After(ref, d) = Append(p, m) \o z
    BY <2>1, <2>2, FirstStep
  <2>4. ref = Append(d, m) \o z /\ Append(d, m) \in Path
    BY <1>1, <2>1, <2>3, AddPath
  <2> QED BY <2>4, JoinIn
<1>3. PICK P \in Path : P = Append(d, n)
  BY <1>1, AddPath
<1>4. PICK x \in Path : x = After(ref, P) /\ ref = P \o x
  BY <1>2, <1>3, InDir
<1>5. e = Target \o x
  BY <1>2, <1>3, <1>4 DEF Proper
<1> QED BY <1>3, <1>4, <1>5
-----------------------------------------------------------------------------
(***************************************************************************)
(* What is shown of a package, and by which link.                          *)
(***************************************************************************)
\* A name that leads to what a proper link shows is the name of that.
LEMMA JumpShows ==
    ASSUME NEW F, Disk(F), Target \in Path, NEW roots, Apart(roots), LinksProper(F, roots),
           NEW d \in roots, NEW m \in Name, NEW dir, dir = Append(d, m), NEW f \in Path,
           NEW l, IsLink(F, l), NEW q \in Path, IsInDir(q, l), F[l].ref \o After(q, l) = dir \o f
    PROVE  ShownBy(F, l, dir, f)
<1>1. PICK ref \in Path : ref = F[l].ref
  BY DEF IsLink, Disk, Node
<1>2. l \in Path /\ l \in DOMAIN F /\ Proper(roots, l, ref) /\ d \in Path
  BY <1>1 DEF IsLink, Disk, LinksProper, Apart
<1>3. PICK y \in Path : y = After(q, l) /\ q = l \o y
  BY <1>2, InDir
<1>4. dir \in Path /\ dir \o f \in Path
  BY <1>2, AddPath, JoinPath
<1>5. IsInDir(ref \o y, ref) /\ IsInDir(dir \o f, dir)
  BY <1>4, JoinIn
<1>6. IsInDir(ref, dir)
  <2>1. ref \o y = dir \o f
    BY <1>1, <1>3
  <2>2. IsInDir(ref, dir) \/ IsInDir(dir, ref)
    BY <1>4, <1>5, <2>1, InBoth
  <2>3. IsInDir(dir, ref) => ref = dir
    BY <1>2, InAdd DEF Proper
  <2> QED BY <1>4, <2>2, <2>3, InSelf
<1>7. PICK x \in Path : x = After(ref, dir) /\ ref = dir \o x
  <2>1. PICK p \in Path : p = dir
    BY <1>4
  <2>2. ref = p \o After(ref, p) /\ After(ref, p) \in Path
    BY <1>6, <2>1, InDir
  <2> QED BY <2>1, <2>2
<1>8. l = Target \o x
  BY <1>2, <1>6, <1>7 DEF Proper
<1>9. f = x \o y
  <2>1. PICK p \in Path : p = dir
    BY <1>4
  <2>2. (p \o x) \o y = p \o (x \o y)
    BY JoinAssoc
  <2>3. x \o y \in Path
    BY JoinPath
  <2>4. p \o f = p \o (x \o y)
    BY <1>1, <1>3, <1>7, <2>1, <2>2
  <2> QED BY <2>3, <2>4, JoinCancel
<1>10. Target \o f = l \o y
  <2>1. PICK t \in Path : t = Target
    OBVIOUS
  <2>2. (t \o x) \o y = t \o (x \o y)
    BY JoinAssoc
  <2> QED BY <1>8, <1>9, <2>1, <2>2
<1>11. IsInDir(Target \o f, l)
  BY <1>2, <1>10, JoinIn
<1>12. After(l, Target) = x
  BY <1>8, JoinIn
<1> QED BY <1>1, <1>7, <1>11, <1>12 DEF ShownBy

\* A hop leads through a link.
LEMMA HopThrough ==
    ASSUME NEW F, Disk(F), NEW q \in Path, Hop(F)[q] # q
    PROVE  \E l : IsLink(F, l) /\ IsInDir(q, l) /\ Hop(F)[q] = F[l].ref \o After(q, l)
<1> DEFINE i == CHOOSE i \in LinksAbove(F, q) : TRUE
<1>1. LinksAbove(F, q) # {} /\ Hop(F)[q] = F[SubSeq(q, 1, i)].ref \o SubSeq(q, i + 1, Len(q))
  BY DEF Hop
<1>2. i \in LinksAbove(F, q)
  BY <1>1
<1> HIDE DEF i
<1>3. i \in 1..(Len(q) - 1) /\ IsLink(F, SubSeq(q, 1, i)) /\ Len(q) \in Nat
  BY <1>2, PathLen DEF LinksAbove
<1>4. i \in 0..Len(q)
  BY <1>3
<1>5. PICK l \in Path : l = SubSeq(q, 1, i) /\ Len(l) = i /\ IsInDir(q, l)
  BY <1>4, PrefixIn
<1> QED BY <1>1, <1>3, <1>5 DEF After

\* What is shown of a package is shown by a link.
LEMMA ShownByLink ==
    ASSUME NEW F, Disk(F), Target \in Path, NEW roots, Apart(roots), LinksProper(F, roots),
           NEW d \in roots, ~IsInDir(Target, d), NEW m \in Name, NEW dir, dir = Append(d, m),
           NEW f \in Path, Shows(F, dir, f)
    PROVE  \E l \in DOMAIN F : ShownBy(F, l, dir, f)
<1> SUFFICES ASSUME \A l : ~ShownBy(F, l, dir, f) PROVE FALSE
  BY DEF ShownBy, IsLink
<1>1. PICK z \in Path : z = dir \o f
  BY AddPath, JoinPath DEF Apart
<1>2. PICK q \in Path : q = Target \o f
  BY JoinPath
<1>3. PICK u \in Path : u = Hop(F)[q]
  BY HopPath
<1>4. PICK v \in Path : v = Hop(F)[u]
  BY HopPath
<1>5. Follow(F)[v] = z
  BY <1>1, <1>2, <1>3, <1>4 DEF Shows, Lead, Loc
<1>6. ASSUME NEW p \in Path, NEW l, IsLink(F, l), IsInDir(p, l) PROVE F[l].ref \o After(p, l) # z
  BY <1>1, <1>6, JumpShows
<1>7. v = z
  <2>1. IsLink(F, v) => F[v].ref = z
    BY <1>5 DEF Follow
  <2>2. ASSUME IsLink(F, v) PROVE F[v].ref \o After(v, v) = z
    BY <1>1, <2>1, <2>2, InSelf, PathLen
  <2>3. ~IsLink(F, v)
    BY <1>6, <2>2, InSelf
  <2> QED BY <1>5, <2>3 DEF Follow
<1>8. ASSUME NEW p \in Path, Hop(F)[p] = z, p # z PROVE FALSE
  <2>1. PICK l : IsLink(F, l) /\ IsInDir(p, l) /\ Hop(F)[p] = F[l].ref \o After(p, l)
    BY <1>8, HopThrough
  <2> QED BY <1>6, <1>8, <2>1
<1>9. u = z /\ q = z
  BY <1>3, <1>4, <1>7, <1>8
<1>10. IsInDir(Target, d)
  <2>1. d \in Path /\ dir \in Path /\ Len(dir) = Len(d) + 1
    BY AddPath DEF Apart
  <2>2. IsInDir(z, dir) /\ IsInDir(z, Target)
    BY <1>1, <1>2, <1>9, <2>1, JoinIn
  <2>3. Target = dir
    <3>1. PICK p \in Path : p = dir
      BY <2>1
    <3>2. PICK t \in Path : t = Target
      OBVIOUS
    <3>3. Len(p \o f) = Len(p) + Len(f)
      BY JoinPath
    <3>4. Len(t \o f) = Len(t) + Len(f)
      BY JoinPath
    <3>5. Len(p) \in Nat /\ Len(t) \in Nat /\ Len(f) \in Nat
      BY PathLen
    <3>6. Len(dir) = Len(Target)
      <4>1. Len(z) = Len(p) + Len(f)
        BY <1>1, <3>1, <3>3
      <4>2. Len(z) = Len(t) + Len(f)
        BY <1>2, <1>9, <3>2, <3>4
      <4>3. Len(p) = Len(t)
        BY <3>5, <4>1, <4>2
      <4> QED BY <3>1, <3>2, <4>3
    <3>7. SubSeq(z, 1, Len(dir)) = dir /\ SubSeq(z, 1, Len(Target)) = Target
      BY <2>1, <2>2, InDir
    <3> QED BY <3>6, <3>7
  <2> QED BY <2>1, <2>3, InAdd, InSelf
<1> QED BY <1>10

\* Where the stow directories hold no links, the name leads there in turn.
LEMMA ShownLeads ==
    ASSUME NEW F, Disk(F), Target \in Path, NEW r \in Path, PlainDir(F, r), NEW dir \in Path, IsInDir(dir, r),
           NEW f \in Path, dir \o f \in DOMAIN F, NEW l, ShownBy(F, l, dir, f), IsInDir(l, Target)
    PROVE  Shows(F, dir, f)
<1>1. l \in Path /\ l \in DOMAIN F /\ IsLink(F, l)
  BY DEF ShownBy, IsLink, Disk
<1>2. PICK x \in Path : x = After(l, Target) /\ l = Target \o x
  BY <1>1, InDir
<1>3. PICK q \in Path : q = Target \o f
  BY JoinPath
<1>4. PICK y \in Path : q = l \o y
  BY <1>1, <1>3, InDir DEF ShownBy
<1>5. PICK ref : ref = F[l].ref
  OBVIOUS
<1>6. ref = dir \o x /\ ref \in Path
  BY <1>2, <1>5, JoinPath DEF ShownBy
<1>7. PICK z \in Path : z = dir \o f
  BY JoinPath
<1>8. f = x \o y
  <2>1. PICK t \in Path : t = Target
    OBVIOUS
  <2>2. (t \o x) \o y = t \o (x \o y)
    BY JoinAssoc
  <2>3. x \o y \in Path
    BY JoinPath
  <2>4. t \o f = t \o (x \o y)
    BY <1>2, <1>3, <1>4, <2>1, <2>2
  <2> QED BY <2>3, <2>4, JoinCancel
<1>9. z = ref \o y
  <2>1. PICK p \in Path : p = dir
    OBVIOUS
  <2>2. (p \o x) \o y = p \o (x \o y)
    BY JoinAssoc
  <2> QED BY <1>6, <1>7, <1>8, <2>1, <2>2
<1>10. IsInDir(z, r) /\ IsInDir(ref, r)
  <2>1. IsInDir(z, dir)
    BY <1>7, JoinIn
  <2>2. IsInDir(ref, dir)
    BY <1>6, JoinIn
  <2> QED BY <1>6, <2>1, <2>2, InTrans
<1>11. ~IsLink(F, z)
  BY <1>10 DEF PlainDir, IsLink
<1>12. CASE y = <<>>
  <2>1. q = l /\ z = ref
    BY <1>1, <1>4, <1>6, <1>9, <1>12, PathLen
  <2>2. Loc(F, q) = q
    BY <1>1, <2>1, LocOfNode
  <2> QED BY <1>1, <1>3, <1>5, <1>7, <2>1, <2>2 DEF Shows, Lead, Follow
<1>13. CASE y # <<>>
  <2>1. IsInDir(z, ref) /\ z # ref
    <3>1. IsInDir(z, ref)
      BY <1>6, <1>9, JoinIn
    <3>2. z # ref
      <4>1. ref \o <<>> = ref /\ <<>> \in Path
        BY <1>6, PathLen
      <4> QED BY <1>6, <1>9, <1>13, <4>1, JoinCancel
    <3> QED BY <3>1, <3>2
  <2>2. PlainDir(F, ref)
    <3>1. IsDir(F, ref)
      BY <1>6, <1>7, <2>1, DirAbove
    <3> QED BY <1>6, <1>10, <3>1, PlainBelow
  <2>3. Loc(F, l \o y) = ref \o y
    BY <1>1, <1>5, <1>13, <2>2, LocBelowLink
  <2>4. Loc(F, q) = z
    BY <1>4, <1>9, <2>3
  <2> QED BY <1>3, <1>7, <1>11, <2>4 DEF Shows, Lead, Follow
<1> QED BY <1>12, <1>13
-----------------------------------------------------------------------------
(***************************************************************************)
(* Links are proper: the planner.                                          *)
(***************************************************************************)
ProperReady == TidyReady /\ StowDir \in stow_dirs /\ ProperInv

LEMMA ProperFacts ==
    ASSUME ProperReady, phase # "idle"
    PROVE  /\ TidyReady /\ CheckOK /\ Disk(fs) /\ Ready
           /\ stack \in Seq(Call) /\ links \in Seq(Op) /\ at \in Child /\ deps \in Seq(DepsCall)
           /\ Config.nignores = <<>>
           /\ package \in Path /\ Target \in Path /\ StowDir \in Path /\ StowDir \in StowRoots
           /\ stow_dirs \subseteq StowRoots /\ Apart(StowRoots)
           /\ \A r \in StowRoots : PlainDir(fs, r) /\ ~IsInDir(Target, r)
           /\ \E p \in Pkg : package = PkgDir(p)
           /\ LinksProper(fs, StowRoots)
           /\ phase \in Planning => PlansProper(links)
           /\ phase = "deps" => DepsSeen(deps, at)
<1>1. TidyReady /\ CheckOK /\ Ready /\ ProperInv /\ host \in DOMAIN Hosts
  BY DEF ProperReady, TidyReady, Ready, CheckOK, SetupTypeOK
<1>2. /\ package \in Path /\ Target \in Path /\ StowDir \in Path /\ StowRoots \subseteq Path
      /\ StowDir \in StowRoots /\ \A r \in StowRoots : PlainDir(fs, r) /\ ~IsInDir(Target, r)
  BY <1>1, TidyFacts, SetupAssumption
<1>3. (\E p \in Pkg : package = PkgDir(p)) /\ stow_dirs \subseteq StowRoots
  BY <1>1 DEF TidyReady, TidyInv
<1>4. Apart(StowRoots)
  BY <1>1, <1>2, RootsTyped DEF ProperInv, OthersHost, Apart
<1>5. stack \in Seq(Call) /\ links \in Seq(Op) /\ at \in Child /\ deps \in Seq(DepsCall)
  BY <1>1 DEF CheckOK, CheckTypeOK
<1> QED BY <1>1, <1>2, <1>3, <1>4, <1>5 DEF CheckOK, TidyReady, Straight, ProperInv, Planning

LEMMA PushProper ==
    ASSUME NEW L \in Seq(Op), PlansProper(L), NEW l \in Op,
           l.act = "SET_LINK" => Proper(StowRoots, l.target, l.origin)
    PROVE  Push(L, l) \in Seq(Op) /\ PlansProper(Push(L, l))
<1> DEFINE M == Push(L, l)
<1>1. /\ M \in Seq(Op)
      /\ \A i \in DOMAIN L : M[i] = L[i]
      /\ \A i \in DOMAIN M \ DOMAIN L : M[i] = l
  BY PushCases
<1> HIDE DEF M
<1>2. PlansProper(M)
  BY <1>1 DEF PlansProper
<1> QED BY <1>1, <1>2 DEF M

\* What check sees of a directory changes with the disk only.
LEMMA ChildrenSame ==
    ASSUME UNCHANGED <<fs, host, package>>, Config.nignores = <<>>, NEW d
    PROVE  Children(d)' = Children(d)
<1>1. Config' = Config
  BY DEF Config
<1>2. Passes(d) /\ Passes(d)'
  BY <1>1 DEF Passes
<1>3. \A n : IgnoredFile(d, n)' <=> IgnoredFile(d, n)
  BY <1>1 DEF IgnoredFile, IsDirNode, match_ignore, match_ignore_file_in_dir
<1>4. Entries(fs, d)' = Entries(fs, d)
  OBVIOUS
<1> QED BY <1>2, <1>3, <1>4 DEF Children

LEMMA ProperKept ==
    ASSUME ProperReady, phase \in Planning, phase' # "exec", UNCHANGED <<fs, setupVars>>,
           NEW M, links' = M, PlansProper(M),
           NEW D, deps' = D, NEW c, at' = c, phase' = "deps" => DepsSeen(D, c)
    PROVE  ProperInv'
<1>1. ProperInv /\ Config.nignores = <<>>
  BY ProperFacts DEF ProperReady, Planning
<1>2. UNCHANGED <<fs, host, package, stow_dirs>>
  BY DEF setupVars, listVars
<1>3. StowRoots' = StowRoots
  BY <1>2 DEF StowRoots, Config
<1>4. PlansProper(links)'
  <2>1. PlansProper(M) <=> PlansProper(links)'
    BY <1>3 DEF PlansProper, Proper
  <2> QED BY <2>1
<1>5. phase' = "deps" => DepsSeen(deps, at)'
  <2> SUFFICES ASSUME phase' = "deps" PROVE DepsSeen(deps, at)'
    OBVIOUS
  <2>1. match_stow_dirs(fs[c.entry].ref)'
    BY <1>2 DEF DepsSeen, match_stow_dirs
  <2>2. \A d : Children(d)' = Children(d)
    BY <1>1, <1>2, ChildrenSame
  <2>3. \A k \in DOMAIN D : D[k].common \subseteq Children(D[k].a)'
    BY <2>2 DEF DepsSeen
  <2> QED BY <2>1, <2>3 DEF DepsSeen
<1>6. LinksProper(fs, StowRoots)'
  BY <1>1, <1>2, <1>3 DEF ProperInv, LinksProper, Proper, IsLink
<1>7. OthersHost(host)'
  BY <1>1, <1>2 DEF ProperInv, OthersHost, TidyHost, TidyDisk, RootsOf, LinksProper, Proper
<1> QED BY <1>4, <1>5, <1>6, <1>7 DEF ProperInv

\* A step that plans no link and calls no checkDirs.
LEMMA ProperSame ==
    ASSUME ProperReady, phase \in Planning, phase' \notin {"exec", "deps"}, UNCHANGED <<fs, setupVars>>,
           UNCHANGED links \/ \E l \in Op : links' = Push(links, l) /\ l.act # "SET_LINK"
    PROVE  ProperInv'
<1>1. links \in Seq(Op) /\ PlansProper(links)
  BY ProperFacts DEF Planning
<1>2. PICK M : M = links'
  OBVIOUS
<1>3. PlansProper(M)
  BY <1>1, <1>2, PushProper
<1>4. PICK D : D = deps'
  OBVIOUS
<1>5. PICK c : c = at'
  OBVIOUS
<1> QED BY <1>2, <1>3, <1>4, <1>5, ProperKept

\* check comes to a name the target has not, and links it.
LEMMA MissingProper ==
    ASSUME ProperReady, NEW n \in Name, ChildMissing(n)
    PROVE  ProperInv'
<1>1. phase = "check" /\ n \in Top.kids /\ phase \in Planning /\ phase # "idle"
  BY DEF ChildMissing, Missing, Planning
<1>2. TidyReady /\ links \in Seq(Op) /\ PlansProper(links) /\ Apart(StowRoots) /\ StowDir \in StowRoots
  BY <1>1, ProperFacts
<1> DEFINE l == LinkOp(Base(n), There(n))
<1>3. Install(n) = l
  BY <1>2, NoCopies DEF Install
<1>4. Skip(n) \/ Stop("refused") \/ Plan(n, l)
  BY <1>3 DEF ChildMissing
<1>5. CASE Skip(n) \/ Stop("refused")
  BY <1>1, <1>5, ProperSame DEF Skip, Stop, checkVars
<1>6. CASE Plan(n, l)
  <2>1. /\ Base(n) \in Path /\ There(n) \in Path /\ IsInDir(Base(n), package)
        /\ There(n) = Dest(Base(n))
    BY <1>1, <1>2, ChildPlace
  <2>2. l \in Op /\ l.origin = Base(n) /\ l.target = There(n)
    BY <2>1, NamedOpTyped DEF LinkOp, MkOp
  <2>3. Proper(StowRoots, There(n), Base(n))
    BY <1>1, <1>2, <2>1, ProperOwn, ProperFacts
  <2>4. links' = Push(links, l) /\ phase' = phase /\ UNCHANGED <<fs, setupVars, deps, at>>
    BY <1>6 DEF Plan
  <2> HIDE DEF l
  <2>5. PICK M : M = Push(links, l)
    OBVIOUS
  <2>6. PlansProper(M)
    BY <1>2, <2>2, <2>3, <2>5, PushProper
  <2> QED BY <1>1, <2>4, <2>5, <2>6, ProperKept
<1> QED BY <1>4, <1>5, <1>6

\* The link of another package is unfolded.
LEMMA FoldedProper ==
    ASSUME ProperReady, NEW n \in Name, ChildFolded(n)
    PROVE  ProperInv'
<1> DEFINE w == There(n)  a == Base(n)  b == Buf(n)
           L == Push(links, RemoveOp(w))  M == Push(L, MkdirOp(w))
<1>1. /\ phase = "check" /\ n \in Top.kids /\ UNCHANGED <<setupVars, fs>> /\ phase # "idle"
      /\ UNCHANGED <<fs, setupVars>> /\ LinkedDir(n) /\ OtherPackage(n) /\ phase \in Planning
  BY DEF ChildFolded, LinkedDir, OpenDir, FoundDir, Found, Planning
<1>2. CASE ~(Readable(fs, a) /\ Readable(fs, b))
  BY <1>1, <1>2, ProperSame DEF ChildFolded, CheckDirs
<1>3. CASE Readable(fs, a) /\ Readable(fs, b)
  <2> DEFINE frame == [a |-> a, b |-> b, w |-> w,
                       common |-> Children(a) \cap Children(b), rest |-> Children(b) \ Children(a)]
             D == <<frame>>  c == [entry |-> w, into |-> w, base |-> a]
  <2>1. /\ links' = M /\ deps' = D /\ phase' = "deps" /\ at' = c
    <3>1. Append(<<>>, frame) = D
      OBVIOUS
    <3> QED BY <1>3, <3>1 DEF ChildFolded, CheckDirs
  <2>2. TidyReady /\ Ready /\ links \in Seq(Op) /\ PlansProper(links)
    BY <1>1, ProperFacts
  <2>3. IsLink(fs, w) /\ fs[w].ref = b
    BY <1>1, <1>3, <2>2, FoldedPlain
  <2>4. a \in Path /\ w \in Path
    BY <1>1, <2>2, ChildPlace
  <2>5. match_stow_dirs(b)
    <3>1. Config.autoStow = {}
      BY <2>2 DEF TidyReady, TidyInv, TidyHost, Config
    <3> QED BY <1>1, <3>1 DEF OtherPackage, match_auto_stow_dirs
  <2> HIDE DEF a, b, w
  <2>6. DepsSeen(D, c)
    <3>1. frame.common \subseteq Children(frame.a)
      OBVIOUS
    <3>2. DOMAIN D = {1} /\ D[1] = frame
      OBVIOUS
    <3> QED BY <2>3, <2>5, <3>1, <3>2 DEF DepsSeen
  <2>7. /\ RemoveOp(w) \in Op /\ RemoveOp(w).act # "SET_LINK"
        /\ MkdirOp(w) \in Op /\ MkdirOp(w).act # "SET_LINK"
    BY <2>4, NamedOpTyped DEF RemoveOp, MkdirOp, MkOp
  <2>8. L \in Seq(Op) /\ PlansProper(L)
    BY <2>2, <2>7, PushProper
  <2> HIDE DEF L
  <2>9. PlansProper(M)
    BY <2>7, <2>8, PushProper
  <2> HIDE DEF M, D, c
  <2> QED BY <1>1, <2>1, <2>6, <2>9, ProperKept
<1> QED BY <1>2, <1>3

LEMMA CheckChildProper ==
    ASSUME ProperReady, NEW n \in Name, CheckChild(n)
    PROVE  ProperInv'
<1>1. phase = "check" /\ n \in Top.kids /\ phase \in Planning /\ phase # "idle"
  BY DEF CheckChild, ChildOwn, ChildExec, ChildCopied, ChildConflict, ChildProtected, ChildDir,
     ChildTraversed, ChildAutoTraverse, ChildForeign, ChildFolded, ChildMissing, LinkedDir, OpenDir,
     FoundDir, FoundFile, Found, Missing, Planning
<1>2. TidyReady
  BY DEF ProperReady
<1>3. ~ChildExec(n) /\ ~ChildCopied(n)
  BY <1>2, NoCopies DEF ChildExec, ChildCopied
<1>4. ~ChildTraversed(n) /\ ~ChildAutoTraverse(n)
  BY <1>2, TidyFacts DEF ChildTraversed, ChildAutoTraverse, match_auto_traverse
<1>5. CASE Skip(n) \/ Obstacle(n) \/ ChildDir(n)
  BY <1>1, <1>5, ProperSame DEF Skip, Obstacle, Stop, ChildDir, DiveTo, checkVars
<1>6. CASE Plan(n, RemoveOp(There(n)))
  <2>1. RemoveOp(There(n)) \in Op /\ RemoveOp(There(n)).act # "SET_LINK"
    <3>1. There(n) \in Path
      BY <1>1, <1>2, ChildPlace
    <3> QED BY <3>1, NamedOpTyped DEF RemoveOp, MkOp
  <2>2. links' = Push(links, RemoveOp(There(n))) /\ phase' = phase /\ UNCHANGED <<fs, setupVars>>
    BY <1>6 DEF Plan
  <2> QED BY <1>1, <2>1, <2>2, ProperSame
<1> QED BY <1>3, <1>4, <1>5, <1>6, FoldedProper, MissingProper
        DEF CheckChild, ChildOwn, ChildConflict, ChildProtected, ChildForeign

\* What a call of checkDirs comes to is in a package of a stow directory, and
\* the target has it, seen through the link, by the name it has there.
LEMMA DepsNamed ==
    ASSUME ProperReady, phase = "deps", NEW n \in Name
    PROVE  /\ B(n) \in Path /\ W(n) \in Path /\ at.entry \in Path
           /\ IsLink(fs, at.entry) /\ fs[at.entry].ref \in Path
           /\ PlainDir(fs, fs[at.entry].ref) /\ IsInDir(B(n), fs[at.entry].ref)
           /\ Proper(StowRoots, W(n), B(n))
           /\ \E d \in StowRoots : \E m \in Name : \E x, y \in Path :
                 /\ fs[at.entry].ref = Append(d, m) \o x /\ at.entry = Target \o x
                 /\ B(n) = Append(d, m) \o (x \o y) /\ W(n) = Target \o (x \o y)
<1> DEFINE e == at.entry  ref == fs[at.entry].ref
<1>1. /\ Ready /\ Target \in Path /\ Apart(StowRoots) /\ stow_dirs \subseteq StowRoots
      /\ LinksProper(fs, StowRoots) /\ DepsSeen(deps, at)
  BY ProperFacts
<1>2. /\ e \in Path /\ ref \in Path /\ B(n) \in Path /\ W(n) \in Path
      /\ PlainDir(fs, ref) /\ IsInDir(B(n), ref)
      /\ \E y \in Path : W(n) = e \o y /\ B(n) = ref \o y
  BY <1>1, DepsFacts DEF Child
<1>3. IsLink(fs, e)
  BY <1>1 DEF Ready, PlannerOK, DepsOK
<1>4. Proper(StowRoots, e, ref)
  BY <1>1, <1>3 DEF LinksProper, IsLink
<1>5. \E d \in StowRoots : IsInDir(ref, d)
  BY <1>1 DEF DepsSeen, match_stow_dirs
<1> HIDE DEF e, ref
<1>6. /\ Proper(StowRoots, W(n), B(n))
      /\ \E d \in StowRoots : \E m \in Name : \E x, y \in Path :
            /\ ref = Append(d, m) \o x /\ e = Target \o x
            /\ B(n) = Append(d, m) \o (x \o y) /\ W(n) = Target \o (x \o y)
  <2>1. PICK d \in StowRoots : IsInDir(ref, d)
    BY <1>5
  <2>2. PICK m \in Name, x \in Path : ref = Append(d, m) \o x /\ e = Target \o x
    <3>1. PICK R : R = StowRoots
      OBVIOUS
    <3>2. PICK k \in Path, l \in Path : k = ref /\ l = e
      BY <1>2
    <3>3. Apart(R) /\ d \in R /\ Proper(R, l, k) /\ IsInDir(k, d)
      BY <1>1, <1>4, <2>1, <3>1, <3>2
    <3>4. \E m \in Name : \E x \in Path : k = Append(d, m) \o x /\ l = Target \o x
      BY <3>3, ProperHome
    <3> QED BY <3>2, <3>4
  <2>3. PICK y \in Path : W(n) = e \o y /\ B(n) = ref \o y
    BY <1>2
  <2>4. PICK P \in Path : P = Append(d, m)
    BY <1>1, AddPath DEF Apart
  <2>5. PICK t \in Path : t = Target
    BY <1>1
  <2>6. PICK z \in Path : z = x \o y
    BY JoinPath
  <2>7. (P \o x) \o y = P \o (x \o y)
    BY JoinAssoc
  <2>8. (t \o x) \o y = t \o (x \o y)
    BY JoinAssoc
  <2>9. B(n) = P \o z /\ W(n) = t \o z
    BY <2>2, <2>3, <2>4, <2>5, <2>6, <2>7, <2>8
  <2>10. PICK b \in Path : b = B(n) /\ b = P \o z
    BY <1>2, <2>9
  <2>11. IsInDir(b, P) /\ After(b, P) = z
    BY <2>10, JoinIn
  <2>12. Proper(StowRoots, Target \o After(b, P), b)
    BY <1>1, <2>4, <2>11, ProperThere
  <2> QED BY <2>2, <2>4, <2>5, <2>6, <2>9, <2>10, <2>11, <2>12
<1> QED BY <1>2, <1>3, <1>6 DEF e, ref

LEMMA DepsLinkProper ==
    ASSUME ProperReady, NEW n \in Name, DepsLink(n)
    PROVE  ProperInv'
<1> DEFINE l == LinkOp(B(n), W(n))
<1>1. /\ phase = "deps" /\ phase \in Planning /\ phase # "idle" /\ phase' = phase
      /\ UNCHANGED <<fs, setupVars>> /\ UNCHANGED at /\ links' = Push(links, l)
      /\ deps' = [deps EXCEPT ![Len(deps)].rest = @ \ {n}]
  BY DEF DepsLink, Planning
<1>2. /\ links \in Seq(Op) /\ PlansProper(links) /\ DepsSeen(deps, at) /\ deps \in Seq(DepsCall)
      /\ deps # <<>>
  BY <1>1, ProperFacts DEF CheckOK, CheckTypeOK
<1>3. Proper(StowRoots, W(n), B(n)) /\ B(n) \in Path /\ W(n) \in Path
  BY <1>1, DepsNamed
<1>4. l \in Op /\ l.origin = B(n) /\ l.target = W(n)
  BY <1>3, NamedOpTyped DEF LinkOp, MkOp
<1> HIDE DEF l
<1>5. PICK M : M = Push(links, l)
  OBVIOUS
<1>6. PlansProper(M)
  BY <1>2, <1>3, <1>4, <1>5, PushProper
<1>7. PICK D : D = [deps EXCEPT ![Len(deps)].rest = @ \ {n}]
  OBVIOUS
<1>8. DOMAIN D = DOMAIN deps
      /\ \A k \in DOMAIN deps : D[k].a = deps[k].a /\ D[k].common = deps[k].common
  BY <1>2, <1>7 DEF DepsCall
<1>9. DepsSeen(D, at)
  BY <1>2, <1>8 DEF DepsSeen
<1>10. PICK c : c = at
  OBVIOUS
<1> QED BY <1>1, <1>5, <1>6, <1>7, <1>9, <1>10, ProperKept

LEMMA DepsDirProper ==
    ASSUME ProperReady, NEW n \in Name, DepsDir(n)
    PROVE  ProperInv'
<1> DEFINE l == MkdirOp(W(n))
           frame == [a |-> A(n), b |-> B(n), w |-> W(n),
                     common |-> Children(A(n)) \cap Children(B(n)),
                     rest   |-> Children(B(n)) \ Children(A(n))]
<1>1. phase = "deps" /\ phase \in Planning /\ phase # "idle" /\ UNCHANGED <<fs, setupVars>> /\ UNCHANGED at
  BY DEF DepsDir, Shared, Planning
<1>2. CASE ~(Readable(fs, A(n)) /\ Readable(fs, B(n)))
  BY <1>1, <1>2, ProperSame DEF DepsDir, CheckDirs
<1>3. CASE Readable(fs, A(n)) /\ Readable(fs, B(n))
  <2>1. phase' = "deps" /\ links' = Push(links, l) /\ deps' = Append(Handled(n), frame)
    BY <1>3 DEF DepsDir, CheckDirs
  <2>2. /\ links \in Seq(Op) /\ PlansProper(links) /\ DepsSeen(deps, at) /\ deps \in Seq(DepsCall)
        /\ deps # <<>>
    BY <1>1, ProperFacts DEF CheckOK, CheckTypeOK
  <2>3. W(n) \in Path
    BY <1>1, DepsNamed
  <2>4. l \in Op /\ l.act # "SET_LINK"
    BY <2>3, NamedOpTyped DEF MkdirOp, MkOp
  <2> HIDE DEF l
  <2>5. PICK M : M = Push(links, l)
    OBVIOUS
  <2>6. PlansProper(M)
    BY <2>2, <2>4, <2>5, PushProper
  <2>7. frame.common \subseteq Children(frame.a)
    OBVIOUS
  <2> HIDE DEF frame
  <2>8. PICK H : H = Handled(n)
    OBVIOUS
  <2>9. H \in Seq(DepsCall) /\ DOMAIN H = DOMAIN deps
        /\ \A k \in DOMAIN deps : H[k].a = deps[k].a /\ H[k].common \subseteq deps[k].common
    <3>1. H \in Seq(DepsCall) /\ DOMAIN H = DOMAIN deps
      BY <2>2, <2>8, HandledSame
    <3>2. \A k \in DOMAIN deps : H[k].a = deps[k].a /\ H[k].common \subseteq deps[k].common
      BY <2>2, <2>8 DEF Handled, DepsCall
    <3> QED BY <3>1, <3>2
  <2>10. PICK D : D = Append(H, frame)
    OBVIOUS
  <2>11. \A k \in DOMAIN D : (k \in DOMAIN deps /\ D[k] = H[k]) \/ D[k] = frame
    BY <2>9, <2>10
  <2>12. DepsSeen(D, at)
    <3>1. ASSUME NEW k \in DOMAIN D PROVE D[k].common \subseteq Children(D[k].a)
      BY <2>2, <2>7, <2>9, <2>11, <3>1 DEF DepsSeen
    <3> QED BY <2>2, <3>1 DEF DepsSeen
  <2>13. PICK c : c = at
    OBVIOUS
  <2> QED BY <1>1, <2>1, <2>5, <2>6, <2>8, <2>10, <2>12, <2>13, ProperKept
<1> QED BY <1>2, <1>3

\* checkDirs goes on with the calls it has, or some of them.
LEMMA DepsFewerProper ==
    ASSUME ProperReady, phase = "deps", phase' # "exec", UNCHANGED <<fs, setupVars>>,
           phase' = "deps" => UNCHANGED at,
           UNCHANGED links \/ \E l \in Op : links' = Push(links, l) /\ l.act # "SET_LINK",
           phase' = "deps" =>
              \A k \in DOMAIN deps' : k \in DOMAIN deps /\ deps'[k].a = deps[k].a
                                       /\ deps'[k].common \subseteq deps[k].common
    PROVE  ProperInv'
<1>1. links \in Seq(Op) /\ PlansProper(links) /\ DepsSeen(deps, at) /\ phase \in Planning
  BY ProperFacts DEF Planning
<1>2. PICK M : M = links'
  OBVIOUS
<1>3. PlansProper(M)
  BY <1>1, <1>2, PushProper
<1>4. PICK D : D = deps'
  OBVIOUS
<1>5. PICK c : c = at'
  OBVIOUS
<1>6. phase' = "deps" => DepsSeen(D, c)
  BY <1>1, <1>4, <1>5 DEF DepsSeen
<1> QED BY <1>1, <1>2, <1>3, <1>4, <1>5, <1>6, ProperKept

LEMMA CheckDepsProper ==
    ASSUME ProperReady, NEW n \in Name, CheckDeps(n)
    PROVE  ProperInv'
<1>1. CASE DepsHarmless(n) \/ DepsConflict(n)
  <2>1. phase = "deps" /\ UNCHANGED <<fs, setupVars>> /\ UNCHANGED links /\ phase' # "exec"
    BY <1>1 DEF DepsHarmless, DepsConflict, Stop, checkVars, Shared
  <2>2. phase' = "deps" => UNCHANGED at /\ deps' = Handled(n)
    BY <1>1 DEF DepsHarmless, DepsConflict, Stop
  <2>3. deps \in Seq(DepsCall) /\ deps # <<>>
    BY <2>1, ProperFacts DEF CheckOK, CheckTypeOK
  <2>4. \A k \in DOMAIN Handled(n) :
           k \in DOMAIN deps /\ Handled(n)[k].a = deps[k].a /\ Handled(n)[k].common \subseteq deps[k].common
    BY <2>3 DEF Handled, DepsCall
  <2> QED BY <2>1, <2>2, <2>4, DepsFewerProper
<1> QED BY <1>1, DepsLinkProper, DepsDirProper DEF CheckDeps

LEMMA DepsReturnProper ==
    ASSUME ProperReady, DepsReturn
    PROVE  ProperInv'
<1>1. /\ phase = "deps" /\ UNCHANGED <<fs, setupVars>> /\ UNCHANGED at /\ phase' # "exec"
      /\ deps' = SubSeq(deps, 1, Len(deps) - 1)
  BY DEF DepsReturn
<1>2. /\ deps \in Seq(DepsCall) /\ deps # <<>> /\ TidyReady
  BY <1>1, ProperFacts DEF CheckOK, CheckTypeOK
<1>3. \A k \in DOMAIN deps' : k \in DOMAIN deps /\ deps'[k] = deps[k]
  BY <1>1, <1>2
<1>4. MkdirOp(Deps.w) \in Op /\ MkdirOp(Deps.w).act # "SET_LINK"
  <2>1. Deps.w \in Path
    BY <1>1, <1>2, WTidy
  <2> QED BY <2>1, NamedOpTyped DEF MkdirOp, MkOp
<1>5. UNCHANGED links \/ links' = Push(links, MkdirOp(Deps.w))
  BY DEF DepsReturn
<1> QED BY <1>1, <1>3, <1>4, <1>5, DepsFewerProper

LEMMA CheckStepProper ==
    ASSUME ProperReady, CheckStep
    PROVE  ProperInv'
<1>1. ~DiveCopyDir
  BY NoCopies DEF ProperReady, DiveCopyDir
<1>2. CASE DiveNotDir \/ Dive \/ CheckReturn
  <2>1. phase \in Planning /\ phase' \notin {"exec", "deps"} /\ UNCHANGED <<fs, setupVars>> /\ UNCHANGED links
    BY <1>2 DEF DiveNotDir, Dive, CheckReturn, Surface, Enter, Stop, checkVars, Planning
  <2> QED BY <2>1, ProperSame
<1> QED BY <1>1, <1>2, CheckChildProper, CheckDepsProper, DepsReturnProper DEF CheckStep
-----------------------------------------------------------------------------
(***************************************************************************)
(* Links are proper: the other steps.                                      *)
(***************************************************************************)
LEMMA HostStays ==
    ASSUME UNCHANGED host, OthersHost(host)
    PROVE  OthersHost(host)'
BY DEF OthersHost, TidyHost, TidyDisk, RootsOf, LinksProper, Proper

\* A step that may change the disk.
LEMMA ProperMoved ==
    ASSUME ProperInv, phase' \notin Planning, UNCHANGED host,
           NEW G, fs' = G,
           \A q \in DOMAIN G : IsLink(G, q) =>
              (q \in DOMAIN fs /\ G[q] = fs[q]) \/ Proper(StowRoots, q, G[q].ref),
           NEW M, todo' = M, phase' = "exec" => PlansProper(M)
    PROVE  ProperInv'
<1>1. StowRoots' = StowRoots
  BY DEF StowRoots, Config
<1>2. ASSUME NEW q \in DOMAIN G, IsLink(G, q) PROVE Proper(StowRoots, q, G[q].ref)
  BY <1>2 DEF ProperInv, LinksProper, IsLink
<1>3. LinksProper(fs, StowRoots)'
  BY <1>1, <1>2 DEF LinksProper, Proper, IsLink
<1>4. PlansProper(M) <=> PlansProper(todo)'
  BY <1>1 DEF PlansProper, Proper
<1>5. OthersHost(host)'
  BY HostStays DEF ProperInv
<1> QED BY <1>3, <1>4, <1>5 DEF ProperInv, Planning

\* One operation, once more: what stays, what comes, and what is left to do.
LEMMA TurnKeeps ==
    ASSUME ExecOK, phase = "exec", ToDo, OpsTidy(todo), ExecStep, phase' = "exec",
           NEW G, G = fs', NEW M, M = todo'
    PROVE  /\ todo # <<>> /\ Current = todo[1] /\ 1 \in DOMAIN todo /\ todo \in Seq(Op)
           /\ Elsewhere(Place(Current), G)
           /\ \A q \in DOMAIN fs : \/ q \in DOMAIN G /\ G[q] = fs[q]
                                   \/ Current.act = "REMOVE" /\ q = Current.origin
           /\ \A q \in DOMAIN G : IsLink(G, q) =>
                 \/ q \in DOMAIN fs /\ G[q] = fs[q]
                 \/ Current.act = "SET_LINK" /\ q = Current.target /\ G[q].ref = Current.origin
           /\ Current.act = "SET_LINK" =>
                 /\ Current.target \notin DOMAIN fs /\ Current.target \in DOMAIN G
                 /\ G[Current.target] = Link(Current.origin)
           /\ M \in Seq(Op)
           /\ \A j \in DOMAIN M :
                 \/ Removes(M, j) /\ IsDir(fs, M[j].origin)
                 \/ \E i \in DOMAIN todo : i # 1 /\ M[j] = todo[i]
           /\ \A i \in DOMAIN todo : i = 1 \/ \E j \in DOMAIN M : M[j] = todo[i]
<1> DEFINE o == Current.origin  t == Current.target  l == RemoveOp(Parent(o))
<1>1. /\ todo # <<>> /\ Current = todo[1] /\ 1 \in DOMAIN todo /\ Elsewhere(Place(Current), G)
      /\ \A q \in DOMAIN G : IsLink(G, q) =>
            \/ q \in DOMAIN fs /\ G[q] = fs[q]
            \/ Current.act = "SET_LINK" /\ q = Current.target /\ G[q].ref = Current.origin
      /\ M \in Seq(Op)
      /\ \A i \in DOMAIN todo : i = 1 \/ \E j \in DOMAIN M : M[j] = todo[i]
  BY ExecTurn
<1>2. \/ /\ Current.act = "REMOVE" /\ G \in {fs, Drop(fs, o)} /\ M \in {Rest, Append(Rest, l)}
      \/ /\ Current.act # "REMOVE" /\ M = Rest /\ t \notin DOMAIN fs
         /\ \E n \in Node : /\ G = Put(fs, t, n)
                            /\ \/ Current.act = "MKDIR" /\ n.kind = "dir"
                               \/ Current.act = "SET_LINK" /\ n = Link(o)
  BY ExecDoes
<1>3. todo \in Seq(Op) /\ o \in Path /\ t \in Path /\ Rest \in Seq(Op) /\ Disk(fs)
      /\ Rest = SubSeq(todo, 2, Len(todo))
  BY <1>1, CurrentTyped DEF ExecOK, ExecTypeOK, CheckOK, Rest
<1>4. \A j \in DOMAIN Rest : \E i \in DOMAIN todo : i # 1 /\ Rest[j] = todo[i]
  <2>1. PICK L \in Seq(Op) : L = todo
    BY <1>3
  <2>2. PICK R \in Seq(Op) : R = Rest /\ R = SubSeq(L, 2, Len(L)) /\ L # <<>>
    BY <1>1, <1>3, <2>1
  <2>3. /\ Len(L) \in Nat \ {0} /\ DOMAIN R = 1..(Len(L) - 1)
        /\ \A i \in 1..(Len(L) - 1) : R[i] = L[i + 1] /\ i + 1 \in DOMAIN L
    BY <2>2, RestIs
  <2>4. ASSUME NEW j \in DOMAIN R PROVE j + 1 \in DOMAIN L /\ j + 1 # 1 /\ R[j] = L[j + 1]
    BY <2>3, <2>4
  <2> QED BY <2>1, <2>2, <2>4
<1>5. CASE Current.act = "REMOVE"
  <2>1. o \in DOMAIN fs /\ Loc(fs, o) = o
    BY <1>1, <1>3, <1>5, RemovePlace DEF ToDo
  <2>2. \A q \in DOMAIN fs : (q \in DOMAIN G /\ G[q] = fs[q]) \/ q = o
    BY <1>2, <1>5, <2>1 DEF Drop
  <2>3. IsDir(fs, Parent(o)) /\ Parent(o) \in Path
    <3>1. CASE o = <<>>
      <4>1. Parent(o) = <<>>
        BY <3>1 DEF Parent
      <4> QED BY <1>3, <4>1, EmptyPath DEF Disk
    <3>2. CASE o # <<>>
      <4>1. Parent(o) \in Path /\ Len(o) \in Nat /\ Len(o) # 0
        BY <1>3, <3>2, ParentPath, PathLen, EmptySeq DEF Path
      <4>2. Len(o) - 1 \in 0..(Len(o) - 1)
        BY <4>1
      <4>3. IsDir(fs, SubSeq(o, 1, Len(o) - 1))
        BY <1>3, <2>1, <4>2 DEF Disk
      <4> QED BY <4>1, <4>3 DEF Parent
    <3> QED BY <3>1, <3>2
  <2>4. l \in Op /\ l.act = "REMOVE" /\ l.origin = Parent(o)
    BY <2>3, EmptyPath, NamedOpTyped DEF RemoveOp, MkOp
  <2> HIDE DEF l
  <2>5. PICK R \in Seq(Op) : R = Rest
    BY <1>3
  <2>6. M = R \/ M = Append(R, l)
    BY <1>2, <1>5, <2>5
  <2>7. \A j \in DOMAIN M : M[j] = l \/ (j \in DOMAIN R /\ M[j] = R[j])
    <3>1. CASE M = R
      BY <3>1
    <3>2. CASE M = Append(R, l)
      BY <2>4, <3>2
    <3> QED BY <2>6, <3>1, <3>2
  <2>8. \A j \in DOMAIN M :
           \/ Removes(M, j) /\ IsDir(fs, M[j].origin)
           \/ \E i \in DOMAIN todo : i # 1 /\ M[j] = todo[i]
    BY <1>4, <2>3, <2>4, <2>5, <2>7 DEF Removes
  <2> QED BY <1>1, <1>3, <1>5, <2>2, <2>8
<1>6. CASE Current.act # "REMOVE"
  <2>1. PICK n \in Node : /\ G = Put(fs, t, n)
                          /\ \/ Current.act = "MKDIR" /\ n.kind = "dir"
                             \/ Current.act = "SET_LINK" /\ n = Link(o)
    BY <1>2, <1>6
  <2>2. t \notin DOMAIN fs /\ M = Rest
    BY <1>2, <1>6
  <2>3. \A q \in DOMAIN fs : q \in DOMAIN G /\ G[q] = fs[q]
    BY <2>1, <2>2 DEF Put
  <2>4. t \in DOMAIN G /\ G[t] = n
    BY <2>1 DEF Put
  <2>5. Current.act = "SET_LINK" => n = Link(o)
    BY <2>1
  <2> QED BY <1>1, <1>3, <1>4, <2>2, <2>3, <2>4, <2>5
<1> QED BY <1>5, <1>6

LEMMA ExecProper ==
    ASSUME TidyAll, ProperInv, Exec
    PROVE  ProperInv'
<1>1. ExecOK /\ ExecStep /\ ExecPhases /\ UNCHANGED host
  <2>1. ExecOK /\ ExecStep
    BY DEF TidyAll, Exec, TypeOK, CheckOK, ExecOK
  <2>2. UNCHANGED setupVars
    BY <2>1 DEF ExecStep, ExecBegin, ExecRemoveDir, ExecUnlink, ExecMkdir, ExecSetLink, file_copy,
                dir_copy, ExecCommand, ExecEnd, Frame
  <2> QED BY <2>1, <2>2, ExecStepTyped DEF setupVars
<1>2. phase' \notin Planning
  BY <1>1 DEF ExecPhases, Planning
<1>3. PICK G : G = fs'
  OBVIOUS
<1>4. PICK M : M = todo'
  OBVIOUS
<1>5. CASE phase = "check"
  <2>1. fs' = fs /\ (phase' = "exec" => todo' = links)
    BY <1>1, <1>5 DEF ExecStep, ExecBegin, ExecRemoveDir, ExecUnlink, ExecMkdir, ExecSetLink, file_copy,
                dir_copy, ExecCommand, ExecEnd, Doing
  <2>2. PlansProper(links)
    BY <1>5 DEF ProperInv
  <2> QED BY <1>1, <1>2, <1>3, <1>4, <2>1, <2>2, ProperMoved
<1>6. CASE phase = "exec"
  <2>1. ToDo /\ OpsTidy(todo) /\ PlansProper(todo)
    BY <1>6 DEF TidyAll, PlanInv, TidyInv, ToDo, ProperInv
  <2>2. CASE phase' # "exec"
    <3>1. fs' = fs
      BY <1>1, <1>6, <2>1, <2>2, ExecDoes
    <3> QED BY <1>1, <1>2, <1>3, <1>4, <2>2, <3>1, ProperMoved
  <2>3. CASE phase' = "exec"
    <3>1. /\ todo # <<>> /\ Current = todo[1] /\ 1 \in DOMAIN todo
          /\ \A q \in DOMAIN G : IsLink(G, q) =>
                \/ q \in DOMAIN fs /\ G[q] = fs[q]
                \/ Current.act = "SET_LINK" /\ q = Current.target /\ G[q].ref = Current.origin
          /\ \A j \in DOMAIN M :
                \/ Removes(M, j) /\ IsDir(fs, M[j].origin)
                \/ \E i \in DOMAIN todo : i # 1 /\ M[j] = todo[i]
      BY <1>1, <1>3, <1>4, <1>6, <2>1, <2>3, TurnKeeps
    <3>2. Current.act = "SET_LINK" => Proper(StowRoots, Current.target, Current.origin)
      BY <2>1, <3>1 DEF PlansProper
    <3>3. PlansProper(M)
      <4> SUFFICES ASSUME NEW j \in DOMAIN M, M[j].act = "SET_LINK"
                   PROVE  Proper(StowRoots, M[j].target, M[j].origin)
        BY DEF PlansProper
      <4>1. PICK i \in DOMAIN todo : M[j] = todo[i]
        BY <3>1 DEF Removes
      <4> QED BY <2>1, <4>1 DEF PlansProper
    <3>4. \A q \in DOMAIN G : IsLink(G, q) =>
             (q \in DOMAIN fs /\ G[q] = fs[q]) \/ Proper(StowRoots, q, G[q].ref)
      BY <3>1, <3>2
    <3> QED BY <1>1, <1>2, <1>3, <1>4, <3>3, <3>4, ProperMoved
  <2> QED BY <2>2, <2>3
<1> QED BY <1>1, <1>5, <1>6 DEF ExecPhases

\* What the user makes is new, and no link into or to a stow directory.
LEMMA EditNew ==
    ASSUME TidyAll, OthersHost(host), UserEdit
    PROVE  /\ phase = "exec" /\ phase' = "exec" /\ UNCHANGED <<setupVars, todo>>
           /\ \A q \in DOMAIN fs : q \in DOMAIN fs' /\ fs'[q] = fs[q]
           /\ \E l \in Path : l \notin DOMAIN fs /\ Elsewhere(l, fs')
           /\ \A q \in DOMAIN fs' : IsLink(fs', q) =>
                 (q \in DOMAIN fs /\ fs'[q] = fs[q]) \/ Proper(StowRoots, q, fs'[q].ref)
<1>1. PICK e \in Hosts[host].edits :
          /\ CanMake(fs, e.place) /\ fs' = Put(fs, Loc(fs, e.place), e.node)
          /\ ~\E d \in StowRoots : IsInDir(Loc(fs, e.place), d)
  BY DEF UserEdit
<1> DEFINE l == Loc(fs, e.place)
<1>2. /\ host \in DOMAIN Hosts /\ Disk(fs) /\ e.place \in Path /\ e.node \in Node
      /\ StowRoots = RootsOf(host) /\ StowRoots \subseteq Path
  BY HostTyped, SetupAssumption, RootsTyped DEF TidyAll, TypeOK, SetupTypeOK, Edit
<1>3. l \in Path /\ l \notin DOMAIN fs
  BY <1>1, <1>2, LocPath DEF CanMake, Lexists
<1>4. PICK k \in Node : k = e.node
  BY <1>2
<1>5. k.kind = "link" => \A r \in StowRoots : ~IsInDir(k.ref, r) /\ ~IsInDir(r, k.ref)
  BY <1>2, <1>4 DEF OthersHost
<1>6. ASSUME k.kind = "link" PROVE \A q : Proper(StowRoots, q, k.ref)
  <2>1. k.ref \in Path
    BY DEF Node
  <2>2. ASSUME NEW r \in StowRoots, NEW n \in Name, IsInDir(k.ref, Append(r, n)) PROVE FALSE
    <3>1. r \in Path /\ Append(r, n) \in Path
      BY <1>2, AddPath
    <3>2. IsInDir(Append(r, n), r)
      BY <3>1, InAdd, InSelf
    <3> QED BY <1>5, <1>6, <2>1, <2>2, <3>1, <3>2, InTrans
  <2> QED BY <1>5, <1>6, <2>2 DEF Proper
<1> HIDE DEF l
<1>7. fs' = Put(fs, l, k) /\ Outside(l)
  BY <1>1, <1>4 DEF l, Outside
<1>8. Elsewhere(l, fs') /\ \A q \in DOMAIN fs : q \in DOMAIN fs' /\ fs'[q] = fs[q]
  BY <1>3, <1>7 DEF Elsewhere, Put
<1>9. \A q \in DOMAIN fs' : IsLink(fs', q) =>
         (q \in DOMAIN fs /\ fs'[q] = fs[q]) \/ Proper(StowRoots, q, fs'[q].ref)
  <2> SUFFICES ASSUME NEW q \in DOMAIN fs', IsLink(fs', q), q \notin DOMAIN fs
               PROVE  Proper(StowRoots, q, fs'[q].ref)
    BY <1>8
  <2>1. fs'[q] = k
    BY <1>7 DEF Put
  <2>2. k.kind = "link"
    BY <2>1 DEF IsLink
  <2> QED BY <1>6, <2>1, <2>2
<1>10. phase = "exec" /\ phase' = "exec" /\ UNCHANGED <<setupVars, todo>>
  BY DEF UserEdit, execVars
<1> QED BY <1>3, <1>8, <1>9, <1>10

LEMMA ProperNext ==
    ASSUME TidyAll, ProperInv, [Next]_vars
    PROVE  ProperInv'
<1>1. ASSUME UNCHANGED <<fs, host>>, phase' \notin Planning \cup {"exec"} PROVE ProperInv'
  <2>1. PICK M : M = todo'
    OBVIOUS
  <2> QED BY <1>1, <2>1, ProperMoved
<1>2. CASE Again \/ NextPackage \/ Return \/ Die
           \/ \E c \in Hosts[host].commands : Start(c)
  <2>1. UNCHANGED <<fs, host>> /\ phase' \in {"begin", "idle"}
    BY <1>2 DEF Start, Select, Again, NextPackage, Return, Die, Quit
  <2> QED BY <1>1, <2>1 DEF Planning
<1>3. CASE \E c \in Hosts[host].commands : StartUnknown(c)
  BY <1>1, <1>3 DEF StartUnknown, setupVars, Planning
<1>4. CASE BeginPass
  <2>1. phase' \in {"check"} \cup Stopped /\ links = <<>> /\ UNCHANGED <<fs, host, links>>
    BY <1>4 DEF BeginPass, Enter, Stop, checkVars, TidyAll, PlanInv, setupVars, Stopped
  <2>2. PlansProper(links)'
    BY <2>1 DEF PlansProper
  <2>3. StowRoots' = StowRoots
    BY <2>1 DEF StowRoots, Config
  <2>4. LinksProper(fs, StowRoots)'
    BY <2>1, <2>3 DEF ProperInv, LinksProper, Proper, IsLink
  <2>5. OthersHost(host)'
    BY <2>1, HostStays DEF ProperInv
  <2> QED BY <2>1, <2>2, <2>4, <2>5 DEF ProperInv, Stopped
<1>5. CASE Check
  <2>1. CheckOK /\ CheckStep /\ phase \in Planning
    BY <1>5, CheckStepTyped DEF Check, TidyAll, TypeOK, CheckOK, PlanStep
  <2>2. TidyReady /\ StowDir \in stow_dirs
    BY <2>1, TidyIsStraight DEF TidyReady, TidyAll, PlanInv, Planning
  <2> QED BY <2>1, <2>2, CheckStepProper DEF ProperReady
<1>6. CASE Exec
  BY <1>6, ExecProper
<1>7. CASE UserEdit
  <2>1. PICK G : G = fs'
    OBVIOUS
  <2>2. PICK M : M = todo
    OBVIOUS
  <2>3. OthersHost(host)
    BY DEF ProperInv
  <2>4. /\ phase = "exec" /\ phase' = "exec" /\ UNCHANGED <<setupVars, todo>>
        /\ \A q \in DOMAIN G : IsLink(G, q) =>
              (q \in DOMAIN fs /\ G[q] = fs[q]) \/ Proper(StowRoots, q, G[q].ref)
    BY <1>7, <2>1, <2>3, EditNew
  <2>5. PlansProper(M)
    BY <2>2, <2>4 DEF ProperInv
  <2> QED BY <2>1, <2>2, <2>4, <2>5, ProperMoved DEF setupVars, Planning
<1>8. CASE UNCHANGED vars
  <2>1. UNCHANGED <<fs, host, phase, links, todo, deps, at, package, stow_dirs>> /\ UNCHANGED <<fs, host, package>>
    BY <1>8 DEF vars, setupVars, listVars, checkVars, execVars
  <2>2. StowRoots' = StowRoots
    BY <2>1 DEF StowRoots, Config
  <2>3. PlansProper(links)' = PlansProper(links) /\ PlansProper(todo)' = PlansProper(todo)
    BY <2>1, <2>2 DEF PlansProper, Proper
  <2>4. LinksProper(fs, StowRoots)'
    BY <2>1, <2>2 DEF ProperInv, LinksProper, Proper, IsLink
  <2>5. OthersHost(host)'
    BY <2>1, HostStays DEF ProperInv
  <2>6. phase = "deps" => DepsSeen(deps, at)'
    <3> SUFFICES ASSUME phase = "deps" PROVE DepsSeen(deps, at)'
      OBVIOUS
    <3>1. Config.nignores = <<>>
      BY DEF ProperInv, OthersHost, TidyHost, Config
    <3>2. \A d : Children(d)' = Children(d)
      BY <2>1, <3>1, ChildrenSame
    <3>3. DepsSeen(deps, at)
      BY DEF ProperInv
    <3>4. PICK D, c : D = deps /\ c = at
      OBVIOUS
    <3>5. D = deps' /\ c = at'
      BY <2>1, <3>4
    <3>6. match_stow_dirs(fs[c.entry].ref)'
      BY <2>1, <3>3, <3>4 DEF DepsSeen, match_stow_dirs
    <3>7. \A k \in DOMAIN D : D[k].common \subseteq Children(D[k].a)'
      BY <3>2, <3>3, <3>4 DEF DepsSeen
    <3> QED BY <3>5, <3>6, <3>7 DEF DepsSeen
  <2> QED BY <2>1, <2>3, <2>4, <2>5, <2>6 DEF ProperInv
<1> QED BY <1>2, <1>3, <1>4, <1>5, <1>6, <1>7, <1>8 DEF Next, Process, User
-----------------------------------------------------------------------------
(***************************************************************************)
(* What is seen of other packages stays in sight: the planner.             *)
(***************************************************************************)
SightReady == ProperReady /\ PassInv /\ SightInv /\ ~opt.force

\* A file of another package that is seen in the target when the pass begins.
LEMMA InSightFacts ==
    ASSUME NEW roots, Apart(roots), roots = StowRoots, Disk(before), Config.nignores = <<>>, Target \in Path,
           StowDir \in roots, NEW p \in Pkg, package = PkgDir(p),
           NEW dir \in OtherPackages, NEW f \in InSight(dir)
    PROVE  /\ \E d \in roots : \E m \in Name : dir = Append(d, m)
           /\ dir \in Path /\ f \in Path /\ f # <<>> /\ dir \o f \in Path /\ Target \o f \in Path
           /\ dir \o f \in DOMAIN before /\ ~IsDir(before, dir \o f) /\ Shows(before, dir, f)
           /\ ~IsInDir(dir \o f, package)
           /\ LinksAbove(before, Target \o f) # {} => ~match_ignore(f[Len(f)])
<1>1. PICK d \in roots, m \in Name : dir = Append(d, m) /\ dir # package
  BY DEF OtherPackages
<1>2. dir \in Path
  BY <1>1, AddPath DEF Apart
<1>3. f \in FilesOf(before, dir) /\ Shows(before, dir, f) /\ ~Unlinked(dir, f)
  BY DEF InSight, Shown
<1>4. PICK q \in DOMAIN before : IsStrictPrefix(dir, q) /\ before[q].kind # "dir" /\ f = After(q, dir)
  BY <1>3 DEF FilesOf
<1>5. q \in Path /\ IsInDir(q, dir) /\ q # dir
  BY <1>4 DEF Disk, IsStrictPrefix, IsInDir
<1>6. q = dir \o f /\ f \in Path
  BY <1>2, <1>4, <1>5, InDir
<1>7. f # <<>>
  BY <1>2, <1>5, <1>6, PathLen
<1>8. Target \o f \in Path
  BY <1>6, JoinPath
<1>9. ~IsInDir(q, package)
  <2> SUFFICES ASSUME IsInDir(q, package) PROVE FALSE
    OBVIOUS
  <2>1. p \in Name
    BY SetupAssumption
  <2>2. package = Append(StowDir, p)
    BY DEF PkgDir
  <2>3. PICK s \in roots : s = StowDir
    OBVIOUS
  <2>4. IsInDir(q, Append(d, m)) /\ IsInDir(q, Append(s, p))
    BY <1>1, <1>5, <2>2, <2>3
  <2>5. Append(d, m) = Append(s, p)
    BY <1>5, <2>1, <2>4, OneHome
  <2> QED BY <1>1, <2>2, <2>3, <2>5
<1>10. LinksAbove(before, Target \o f) # {} => ~match_ignore(f[Len(f)])
  BY <1>3 DEF Unlinked
<1> QED BY <1>1, <1>2, <1>3, <1>4, <1>5, <1>6, <1>7, <1>8, <1>9, <1>10 DEF IsDir

LEMMA SightFacts ==
    ASSUME SightReady, phase \in Planning, NEW dir \in OtherPackages, NEW f \in InSight(dir)
    PROVE  /\ \E d \in StowRoots : \E m \in Name : dir = Append(d, m)
           /\ dir \in Path /\ f \in Path /\ f # <<>> /\ dir \o f \in Path /\ Target \o f \in Path
           /\ dir \o f \in DOMAIN fs /\ ~IsDir(fs, dir \o f) /\ Shows(fs, dir, f)
           /\ ~IsInDir(dir \o f, package)
           /\ LinksAbove(fs, Target \o f) # {} => ~match_ignore(f[Len(f)])
<1>1. phase # "idle" /\ phase \in Untouched /\ ProperReady
  BY DEF Planning, Untouched, SightReady
<1>2. fs = before
  BY <1>1 DEF SightReady, PassInv
<1>3. /\ Apart(StowRoots) /\ Disk(before) /\ Config.nignores = <<>> /\ Target \in Path
      /\ StowDir \in StowRoots /\ \E p \in Pkg : package = PkgDir(p)
  BY <1>1, <1>2, ProperFacts
<1>4. PICK R : R = StowRoots
  OBVIOUS
<1>5. PICK p \in Pkg : package = PkgDir(p)
  BY <1>3
<1>6. Apart(R) /\ StowDir \in R
  BY <1>3, <1>4
<1>7. /\ \E d \in R : \E m \in Name : dir = Append(d, m)
      /\ dir \in Path /\ f \in Path /\ f # <<>> /\ dir \o f \in Path /\ Target \o f \in Path
      /\ dir \o f \in DOMAIN before /\ ~IsDir(before, dir \o f) /\ Shows(before, dir, f)
      /\ ~IsInDir(dir \o f, package)
      /\ LinksAbove(before, Target \o f) # {} => ~match_ignore(f[Len(f)])
  BY <1>3, <1>4, <1>5, <1>6, InSightFacts
<1> QED BY <1>2, <1>4, <1>7

\* What is to be kept in sight is the same until the pass ends.
LEMMA SightSame ==
    ASSUME UNCHANGED <<before, host, package>>, Config.nignores = <<>>
    PROVE  /\ OtherPackages' = OtherPackages
           /\ \A dir : InSight(dir)' = InSight(dir)
<1>1. Config' = Config
  BY DEF Config
<1>2. \A d : Passes(d) /\ Passes(d)'
  BY <1>1 DEF Passes
<1>3. StowRoots' = StowRoots
  BY <1>1 DEF StowRoots
<1>4. \A d, f : Unlinked(d, f)' <=> Unlinked(d, f)
  BY <1>1, <1>2 DEF Unlinked, Skipped, match_ignore
<1> QED BY <1>3, <1>4 DEF OtherPackages, InSight

LEMMA PushSight ==
    ASSUME NEW F, NEW L \in Seq(Op), NEW l \in Op, NEW dir, NEW f
    PROVE  /\ Relinked(L, dir, f) => Relinked(Push(L, l), dir, f)
           /\ Stands(F, L, dir, f)
                 => Stands(F, Push(L, l), dir, f) \/ (l.act = "REMOVE" /\ ShownBy(F, l.origin, dir, f))
           /\ l.act = "SET_LINK" /\ IsInDir(Target \o f, l.target)
                 /\ l.origin = dir \o After(l.target, Target) => Relinked(Push(L, l), dir, f)
<1> DEFINE M == Push(L, l)
<1>1. /\ M \in Seq(Op) /\ DOMAIN L \subseteq DOMAIN M
      /\ \A i \in DOMAIN L : M[i] = L[i]
      /\ \A i \in DOMAIN M \ DOMAIN L : M[i] = l
      /\ \E j \in DOMAIN M : SameOp(M[j], l)
  BY PushCases
<1> HIDE DEF M
<1>2. Relinked(L, dir, f) => Relinked(M, dir, f)
  BY <1>1 DEF Relinked
<1>3. ASSUME Stands(F, L, dir, f), ~(l.act = "REMOVE" /\ ShownBy(F, l.origin, dir, f))
      PROVE  Stands(F, M, dir, f)
  <2>1. PICK k \in DOMAIN F : ShownBy(F, k, dir, f) /\ \A j \in DOMAIN L : Removes(L, j) => L[j].origin # k
    BY <1>3 DEF Stands
  <2>2. \A j \in DOMAIN M : Removes(M, j) => M[j].origin # k
    BY <1>1, <1>3, <2>1 DEF Removes
  <2> QED BY <2>1, <2>2 DEF Stands
<1>4. ASSUME l.act = "SET_LINK", IsInDir(Target \o f, l.target), l.origin = dir \o After(l.target, Target)
      PROVE  Relinked(M, dir, f)
  <2>1. PICK j \in DOMAIN M : M[j].act = "SET_LINK" /\ M[j].origin = l.origin /\ M[j].target = l.target
    BY <1>1, <1>4 DEF SameOp
  <2> QED BY <1>4, <2>1 DEF Relinked
<1> QED BY <1>2, <1>3, <1>4 DEF M

LEMMA SightKept ==
    ASSUME SightReady, phase \in Planning, phase' \notin {"exec", "done"},
           UNCHANGED <<fs, setupVars, before>>,
           NEW M, links' = M, NEW D, deps' = D,
           phase' \in Planning => \A dir \in OtherPackages : \A f \in InSight(dir) :
              Stands(fs, M, dir, f) \/ Relinked(M, dir, f) \/ (phase' = "deps" /\ Unfolds(D, dir, f))
    PROVE  SightInv'
<1>1. UNCHANGED <<before, host, package>> /\ UNCHANGED fs /\ phase # "idle" /\ ProperReady
  BY DEF setupVars, Planning, SightReady
<1>2. Config.nignores = <<>>
  BY <1>1, ProperFacts
<1>3. OtherPackages' = OtherPackages /\ \A dir : InSight(dir)' = InSight(dir)
  BY <1>1, <1>2, SightSame
<1>4. \A dir, f : /\ Stands(fs, links, dir, f)' <=> Stands(fs, M, dir, f)
                  /\ Relinked(links, dir, f)' <=> Relinked(M, dir, f)
                  /\ Unfolds(deps, dir, f)' <=> Unfolds(D, dir, f)
  BY <1>1 DEF Stands, ShownBy, Relinked, Unfolds, DepsNames, Removes
<1> QED BY <1>3, <1>4 DEF SightInv, Planning

\* What a link in the target shows is below what it leads to.
LEMMA ShownThrough ==
    ASSUME Target \in Path, NEW F, NEW dir \in Path, NEW f \in Path, NEW l \in Path,
           IsInDir(l, Target), ShownBy(F, l, dir, f)
    PROVE  IsInDir(dir \o f, F[l].ref)
<1>1. PICK t \in Path : t = Target
  OBVIOUS
<1>2. PICK x \in Path : x = After(l, t) /\ l = t \o x
  BY <1>1, InDir
<1>3. PICK q \in Path : q = t \o f
  BY <1>1, JoinPath
<1>4. PICK v \in Path : q = l \o v
  <2>1. IsInDir(q, l)
    BY <1>1, <1>3 DEF ShownBy
  <2> QED BY <2>1, InDir
<1>5. F[l].ref = dir \o x
  BY <1>1, <1>2 DEF ShownBy
<1>6. f = x \o v
  <2>1. (t \o x) \o v = t \o (x \o v)
    BY JoinAssoc
  <2>2. x \o v \in Path
    BY JoinPath
  <2>3. t \o f = t \o (x \o v)
    BY <1>2, <1>3, <1>4, <2>1
  <2> QED BY <2>2, <2>3, JoinCancel
<1>7. dir \o f = (dir \o x) \o v
  <2>1. (dir \o x) \o v = dir \o (x \o v)
    BY JoinAssoc
  <2> QED BY <1>6, <2>1
<1>8. PICK p \in Path : p = dir \o x
  BY JoinPath
<1>9. IsInDir(p \o v, p)
  BY JoinIn
<1> QED BY <1>5, <1>7, <1>8, <1>9

\* A directory check reads has the name on the way to a file of another
\* package that is not to be ignored.
LEMMA SightName ==
    ASSUME Disk(fs), SetupTypeOK, Config.nignores = <<>>,
           NEW d \in Path, PlainDir(fs, d), NEW b \in Path, IsInDir(b, d),
           NEW dir \in Path, NEW f \in Path, f # <<>>, NEW z \in DOMAIN fs, z = dir \o f,
           IsInDir(z, b), z # b, ~IsInDir(z, package), ~match_ignore(f[Len(f)])
    PROVE  \E m \in Children(b) : m \in Name /\ IsInDir(z, Append(b, m))
<1>1. z \in Path
  BY DEF Disk
<1>2. PICK m \in Name : Append(b, m) \in DOMAIN fs /\ IsInDir(z, Append(b, m))
  BY NextName
<1>3. Append(b, m) \in Path /\ IsInDir(Append(b, m), d)
  BY AddPath, InAdd
<1>4. m \in Entries(fs, b) /\ Passes(b)
  BY <1>2, PlainName DEF Passes
<1>5. ~IgnoredFile(b, m)
  <2> SUFFICES ASSUME IgnoredFile(b, m) PROVE FALSE
    OBVIOUS
  <2>1. ~IsDir(fs, Append(b, m))
    BY <1>3, PlainName DEF IgnoredFile, IsDirNode
  <2>2. z = Append(b, m)
    BY <1>1, <1>2, <1>3, <2>1, DirAbove
  <2>3. m = f[Len(f)]
    <3>1. Append(b, m) = dir \o f
      BY <2>2
    <3>2. Append(b, m)[Len(Append(b, m))] = m
      BY DEF Path
    <3>3. (dir \o f)[Len(dir \o f)] = f[Len(f)]
      BY DEF Path
    <3> QED BY <3>1, <3>2, <3>3
  <2>4. ~match_ignore_file_in_dir(package, z)
    <3> SUFFICES ASSUME NEW g \in Config.ignoreInDir, z = package \o g PROVE FALSE
      BY DEF match_ignore_file_in_dir
    <3>1. g \in Path /\ package \in Path
      BY ConfigTyped DEF ConfigType, SetupTypeOK
    <3> QED BY <3>1, JoinIn
  <2> QED BY <2>2, <2>3, <2>4 DEF IgnoredFile
<1> QED BY <1>2, <1>4, <1>5 DEF Children

\* Outside checkDirs: what is planned removes no link that shows something.
LEMMA SightCalm ==
    ASSUME SightReady, phase \in Planning, phase # "deps", phase' \notin {"exec", "done", "deps"},
           UNCHANGED <<fs, setupVars, before>>,
           \/ UNCHANGED links
           \/ \E l \in Op : /\ links' = Push(links, l)
                            /\ l.act = "REMOVE" => \A dir \in OtherPackages : \A f \in InSight(dir) :
                                                      ~ShownBy(fs, l.origin, dir, f)
    PROVE  SightInv'
<1>1. links \in Seq(Op)
  BY ProperFacts DEF Planning, SightReady
<1>2. PICK M : M = links'
  OBVIOUS
<1>3. PICK D : D = deps'
  OBVIOUS
<1>4. ASSUME NEW dir \in OtherPackages, NEW f \in InSight(dir)
      PROVE  Stands(fs, M, dir, f) \/ Relinked(M, dir, f)
  <2>1. Stands(fs, links, dir, f) \/ Relinked(links, dir, f)
    BY DEF SightReady, SightInv, Planning
  <2> QED BY <1>1, <1>2, <2>1, PushSight
<1> QED BY <1>2, <1>3, <1>4, SightKept

\* The link of the package itself shows nothing of another.
LEMMA OwnSight ==
    ASSUME SightReady, UNCHANGED before, NEW n \in Name, ChildOwn(n)
    PROVE  SightInv'
<1>1. phase = "check" /\ n \in Top.kids /\ phase \in Planning /\ phase # "idle" /\ OwnLink(n)
  BY DEF ChildOwn, Found, Planning
<1>2. TidyReady /\ Disk(fs) /\ Target \in Path /\ package \in Path
  BY <1>1, ProperFacts DEF SightReady
<1>3. /\ Base(n) \in Path /\ There(n) \in Path /\ IsInDir(Base(n), package)
      /\ There(n) = Dest(Base(n)) /\ Loc(fs, There(n)) = There(n)
  BY <1>1, <1>2, ChildPlace DEF OwnLink
<1>4. fs[There(n)].ref = Base(n)
  BY <1>1, <1>3 DEF OwnLink, LinkBuf
<1>5. IsInDir(There(n), Target)
  <2>1. After(Base(n), package) \in Path
    BY <1>2, <1>3, InDir
  <2> QED BY <1>2, <1>3, <2>1, JoinIn DEF Dest
<1>6. ASSUME NEW dir \in OtherPackages, NEW f \in InSight(dir), ShownBy(fs, There(n), dir, f)
      PROVE  FALSE
  <2>1. dir \in Path /\ f \in Path /\ ~IsInDir(dir \o f, package) /\ dir \o f \in Path
    BY <1>1, SightFacts
  <2>2. PICK e, F : e \in Path /\ e = There(n) /\ F = fs
    BY <1>3
  <2>3. IsInDir(dir \o f, Base(n))
    <3>1. IsInDir(e, Target) /\ ShownBy(F, e, dir, f)
      BY <1>5, <1>6, <2>2
    <3>2. IsInDir(dir \o f, F[e].ref)
      BY <1>2, <2>1, <2>2, <3>1, ShownThrough
    <3> QED BY <1>4, <2>2, <3>2
  <2> QED BY <1>2, <1>3, <2>1, <2>3, InTrans
<1>7. CASE Skip(n)
  BY <1>1, <1>7, SightCalm DEF Skip
<1>8. CASE Plan(n, RemoveOp(There(n)))
  <2>1. PICK l \in Op : l = RemoveOp(There(n)) /\ l.origin = There(n)
    BY <1>3, NamedOpTyped DEF RemoveOp, MkOp
  <2>2. links' = Push(links, l) /\ phase' = phase /\ UNCHANGED <<fs, setupVars>>
    BY <1>8, <2>1 DEF Plan
  <2> QED BY <1>1, <1>6, <2>1, <2>2, SightCalm
<1> QED BY <1>7, <1>8 DEF ChildOwn

LEMMA MissingSight ==
    ASSUME SightReady, UNCHANGED before, NEW n \in Name, ChildMissing(n)
    PROVE  SightInv'
<1>1. phase = "check" /\ n \in Top.kids /\ phase \in Planning /\ phase # "idle"
  BY DEF ChildMissing, Missing, Planning
<1>2. TidyReady
  BY <1>1, ProperFacts DEF SightReady
<1>3. Install(n) = LinkOp(Base(n), There(n))
  BY <1>2, NoCopies DEF Install
<1>4. Skip(n) \/ Stop("refused") \/ Plan(n, LinkOp(Base(n), There(n)))
  BY <1>3 DEF ChildMissing
<1>5. CASE Skip(n) \/ Stop("refused")
  BY <1>1, <1>5, SightCalm DEF Skip, Stop, checkVars
<1>6. CASE Plan(n, LinkOp(Base(n), There(n)))
  <2>1. Base(n) \in Path /\ There(n) \in Path
    BY <1>1, <1>2, ChildPlace
  <2>2. PICK l \in Op : l = LinkOp(Base(n), There(n)) /\ l.act # "REMOVE"
    BY <2>1, NamedOpTyped DEF LinkOp, MkOp
  <2>3. links' = Push(links, l) /\ phase' = phase /\ UNCHANGED <<fs, setupVars>>
    BY <1>6, <2>2 DEF Plan
  <2> QED BY <1>1, <2>2, <2>3, SightCalm
<1> QED BY <1>4, <1>5, <1>6

LEMMA LinkOver ==
    ASSUME NEW F, Disk(F), NEW l, IsLink(F, l), NEW q \in Path, IsInDir(q, l), q # l
    PROVE  LinksAbove(F, q) # {}
<1>1. l \in Path /\ l # <<>>
  BY DEF Disk, IsLink, IsDir
<1>2. SubSeq(q, 1, Len(l)) = l /\ Len(l) \in 0..Len(q) /\ Len(q) \in Nat /\ Len(l) \in Nat
  BY <1>1, InDir, PathLen
<1>3. Len(l) # 0
  BY <1>1, EmptySeq DEF Path
<1>4. Len(l) # Len(q)
  BY <1>2, PathLen
<1>5. Len(l) \in 1..(Len(q) - 1)
  BY <1>2, <1>3, <1>4
<1> QED BY <1>2, <1>5 DEF LinksAbove

\* What the link of a folded directory shows is gone through by checkDirs.
LEMMA FoldedSight ==
    ASSUME SightReady, UNCHANGED before, NEW n \in Name, ChildFolded(n)
    PROVE  SightInv'
<1> DEFINE w == There(n)  a == Base(n)  b == Buf(n)
           L == Push(links, RemoveOp(w))  M == Push(L, MkdirOp(w))
<1>1. /\ phase = "check" /\ n \in Top.kids /\ UNCHANGED <<setupVars, fs>> /\ phase # "idle"
      /\ UNCHANGED <<fs, setupVars>> /\ LinkedDir(n) /\ OtherPackage(n) /\ phase \in Planning
  BY DEF ChildFolded, LinkedDir, OpenDir, FoundDir, Found, Planning
<1>2. CASE ~(Readable(fs, a) /\ Readable(fs, b))
  BY <1>1, <1>2, SightCalm DEF ChildFolded, CheckDirs
<1>3. CASE Readable(fs, a) /\ Readable(fs, b)
  <2> DEFINE frame == [a |-> a, b |-> b, w |-> w,
                       common |-> Children(a) \cap Children(b), rest |-> Children(b) \ Children(a)]
             D == <<frame>>
  <2>1. /\ links' = M /\ deps' = D /\ phase' = "deps"
    <3>1. Append(<<>>, frame) = D
      OBVIOUS
    <3> QED BY <1>3, <3>1 DEF ChildFolded, CheckDirs
  <2>2. /\ TidyReady /\ Ready /\ links \in Seq(Op) /\ Disk(fs) /\ Target \in Path /\ SetupTypeOK
        /\ Config.nignores = <<>> /\ package \in Path
    BY <1>1, ProperFacts DEF SightReady, CheckOK
  <2>3. IsLink(fs, w) /\ fs[w].ref = b /\ b \in Path /\ PlainDir(fs, b)
    BY <1>1, <1>3, <2>2, FoldedPlain
  <2>4. a \in Path /\ w \in Path /\ IsInDir(w, Target)
    <3>1. a \in Path /\ w \in Path /\ IsInDir(a, package) /\ w = Dest(a)
      BY <1>1, <2>2, ChildPlace
    <3>2. After(a, package) \in Path
      BY <2>2, <3>1, InDir
    <3> QED BY <2>2, <3>1, <3>2, JoinIn DEF Dest
  <2>5. DOMAIN D = {1} /\ DepsNames(D[1]) = Children(b) /\ D[1].b = b
    BY DEF DepsNames
  <2> HIDE DEF a, b, w, D
  <2>6. PICK r \in Op : r = RemoveOp(w) /\ r.act = "REMOVE" /\ r.origin = w
    BY <2>4, NamedOpTyped DEF RemoveOp, MkOp
  <2>7. PICK m \in Op : m = MkdirOp(w) /\ m.act # "REMOVE"
    BY <2>4, NamedOpTyped DEF MkdirOp, MkOp
  <2>8. L = Push(links, r) /\ M = Push(L, m) /\ L \in Seq(Op)
    BY <2>2, <2>6, <2>7, PushCases
  <2> HIDE DEF L, M
  <2>9. ASSUME NEW dir \in OtherPackages, NEW f \in InSight(dir), ShownBy(fs, w, dir, f)
        PROVE  Unfolds(D, dir, f)
    <3>1. /\ dir \in Path /\ f \in Path /\ f # <<>> /\ dir \o f \in Path /\ Target \o f \in Path
          /\ dir \o f \in DOMAIN fs /\ ~IsDir(fs, dir \o f) /\ ~IsInDir(dir \o f, package)
          /\ LinksAbove(fs, Target \o f) # {} => ~match_ignore(f[Len(f)])
      BY <1>1, SightFacts
    <3>2. PICK z \in DOMAIN fs : z = dir \o f /\ z \in Path /\ ~IsDir(fs, z) /\ ~IsInDir(z, package)
      BY <3>1
    <3>3. IsInDir(z, b)
      <4>1. PICK e, F : e \in Path /\ e = w /\ F = fs
        BY <2>4
      <4>2. IsInDir(e, Target) /\ ShownBy(F, e, dir, f)
        BY <2>4, <2>9, <4>1
      <4>3. IsInDir(dir \o f, F[e].ref)
        BY <2>2, <3>1, <4>1, <4>2, ShownThrough
      <4> QED BY <2>3, <3>2, <4>1, <4>3
    <3>4. z # b
      BY <2>3, <3>2 DEF PlainDir
    <3>5. Target \o f # w
      <4> SUFFICES ASSUME Target \o f = w PROVE FALSE
        OBVIOUS
      <4>1. After(Target \o f, Target) = f
        BY <2>2, <3>1, JoinIn
      <4>2. fs[w].ref = dir \o After(w, Target)
        BY <2>9 DEF ShownBy
      <4> QED BY <2>3, <3>2, <3>4, <4>1, <4>2
    <3>6. LinksAbove(fs, Target \o f) # {}
      <4>1. PICK q \in Path : q = Target \o f
        BY <3>1
      <4>2. IsInDir(q, w) /\ q # w
        BY <2>9, <3>5, <4>1 DEF ShownBy
      <4> QED BY <2>2, <2>3, <4>1, <4>2, LinkOver
    <3>7. IsInDir(b, b)
      BY <2>3, InSelf
    <3>8. ~match_ignore(f[Len(f)])
      BY <3>1, <3>6
    <3>9. PICK c \in Children(b) : c \in Name /\ IsInDir(z, Append(b, c))
      BY <2>2, <2>3, <3>1, <3>2, <3>3, <3>4, <3>7, <3>8, SightName
    <3> QED BY <2>5, <3>2, <3>9 DEF Unfolds
  <2>10. ASSUME NEW dir \in OtherPackages, NEW f \in InSight(dir)
         PROVE  Stands(fs, M, dir, f) \/ Relinked(M, dir, f) \/ (phase' = "deps" /\ Unfolds(D, dir, f))
    <3>1. Stands(fs, links, dir, f) \/ Relinked(links, dir, f)
      BY <1>1 DEF SightReady, SightInv
    <3>2. Stands(fs, L, dir, f) \/ Relinked(L, dir, f) \/ ShownBy(fs, w, dir, f)
      BY <2>2, <2>6, <2>8, <3>1, PushSight
    <3>3. Stands(fs, L, dir, f) \/ Relinked(L, dir, f) => Stands(fs, M, dir, f) \/ Relinked(M, dir, f)
      BY <2>7, <2>8, PushSight
    <3> QED BY <2>1, <2>9, <3>2, <3>3
  <2> QED BY <1>1, <2>1, <2>10, SightKept
<1> QED BY <1>2, <1>3

LEMMA CheckChildSight ==
    ASSUME SightReady, UNCHANGED before, NEW n \in Name, CheckChild(n)
    PROVE  SightInv'
<1>1. phase = "check" /\ n \in Top.kids /\ phase \in Planning /\ phase # "idle"
  BY DEF CheckChild, ChildOwn, ChildExec, ChildCopied, ChildConflict, ChildProtected, ChildDir,
     ChildTraversed, ChildAutoTraverse, ChildForeign, ChildFolded, ChildMissing, LinkedDir, OpenDir,
     FoundDir, FoundFile, Found, Missing, Planning
<1>2. TidyReady
  BY DEF SightReady, ProperReady
<1>3. ~ChildExec(n) /\ ~ChildCopied(n)
  BY <1>2, NoCopies DEF ChildExec, ChildCopied
<1>4. ~ChildTraversed(n) /\ ~ChildAutoTraverse(n)
  BY <1>2, TidyFacts DEF ChildTraversed, ChildAutoTraverse, match_auto_traverse
<1>5. CASE Skip(n) \/ Obstacle(n) \/ ChildDir(n)
  BY <1>1, <1>5, SightCalm DEF Skip, Obstacle, Stop, ChildDir, DiveTo, checkVars
<1> QED BY <1>3, <1>4, <1>5, FoldedSight, MissingSight, OwnSight
        DEF CheckChild, ChildConflict, ChildProtected, ChildForeign

\* In checkDirs: what a call has still to come to is linked again, or a call
\* comes to it later.
LEMMA DepsSight ==
    ASSUME SightReady, phase = "deps", phase' \notin {"exec", "done"}, UNCHANGED <<fs, setupVars, before>>,
           NEW M, links' = M,
           M = links \/ \E l \in Op : M = Push(links, l) /\ l.act # "REMOVE",
           NEW D, deps' = D,
           phase' \in Planning => \A dir \in OtherPackages : \A f \in InSight(dir) :
              Unfolds(deps, dir, f) => Relinked(M, dir, f) \/ (phase' = "deps" /\ Unfolds(D, dir, f))
    PROVE  SightInv'
<1>1. phase \in Planning /\ phase # "idle"
  BY DEF Planning
<1>2. links \in Seq(Op)
  BY <1>1, ProperFacts DEF SightReady
<1>3. ASSUME phase' \in Planning, NEW dir \in OtherPackages, NEW f \in InSight(dir)
      PROVE  Stands(fs, M, dir, f) \/ Relinked(M, dir, f) \/ (phase' = "deps" /\ Unfolds(D, dir, f))
  <2>1. Stands(fs, links, dir, f) \/ Relinked(links, dir, f) \/ Unfolds(deps, dir, f)
    BY DEF SightReady, SightInv
  <2>2. Stands(fs, links, dir, f) \/ Relinked(links, dir, f) => Stands(fs, M, dir, f) \/ Relinked(M, dir, f)
    BY <1>2, PushSight
  <2> QED BY <1>3, <2>1, <2>2
<1> QED BY <1>1, <1>3, SightKept

LEMMA InJoin ==
    ASSUME NEW t \in Path, NEW x \in Path, NEW y \in Path
    PROVE  IsInDir(t \o (x \o y), t \o x)
<1>1. (t \o x) \o y = t \o (x \o y)
  BY JoinAssoc
<1>2. PICK p \in Path : p = t \o x
  BY JoinPath
<1>3. IsInDir(p \o y, p)
  BY JoinIn
<1> QED BY <1>1, <1>2, <1>3

LEMMA InOther ==
    ASSUME NEW s \in Path, NEW t \in Path, NEW g \in Path, NEW u \in Path
    PROVE  IsInDir(s \o g, s \o u) => IsInDir(t \o g, t \o u)
<1>1. \A v \in Path : (s \o u) \o v = s \o (u \o v) /\ u \o v \in Path
  <2> TAKE v \in Path
  <2>1. (s \o u) \o v = s \o (u \o v)
    BY JoinAssoc
  <2>2. u \o v \in Path
    BY JoinPath
  <2> QED BY <2>1, <2>2
<1>2. \A v \in Path : IsInDir(t \o (u \o v), t \o u)
  BY InJoin
<1>3. PICK z \in Path, b \in Path : z = s \o g /\ b = s \o u
  BY JoinPath
<1>4. ASSUME IsInDir(z, b)
      PROVE  \E v \in Path : g = u \o v
  <2>1. PICK v \in Path : z = b \o v
    BY <1>4, InDir
  <2>2. PICK h \in Path : h = u \o v
    BY <1>1
  <2>3. s \o g = s \o h
    BY <1>1, <1>3, <2>1, <2>2
  <2>4. g = h
    BY <2>3, JoinCancel
  <2> QED BY <2>2, <2>4
<1> QED BY <1>2, <1>3, <1>4

\* What checkDirs comes to has in the target the name of what it shows there.
LEMMA DepsShown ==
    ASSUME SightReady, phase = "deps", NEW n \in Name,
           NEW dir \in OtherPackages, NEW f \in InSight(dir), IsInDir(dir \o f, B(n))
    PROVE  /\ IsInDir(Target \o f, W(n)) /\ B(n) = dir \o After(W(n), Target)
           /\ LinksAbove(fs, Target \o f) # {}
<1>1. phase \in Planning /\ phase # "idle" /\ ProperReady
  BY DEF Planning, SightReady
<1>2. Target \in Path /\ Apart(StowRoots) /\ Disk(fs)
  BY <1>1, ProperFacts
<1>3. /\ (\E d \in StowRoots : \E m \in Name : dir = Append(d, m))
      /\ dir \in Path /\ f \in Path /\ dir \o f \in Path /\ Target \o f \in Path
      /\ ~IsDir(fs, dir \o f)
  BY <1>1, SightFacts
<1>4. PICK e \in Path, ref \in Path, b \in Path, w \in Path :
         e = at.entry /\ ref = fs[at.entry].ref /\ b = B(n) /\ w = W(n)
  BY <1>1, DepsNamed
<1>5. IsLink(fs, e) /\ PlainDir(fs, ref)
  BY <1>1, <1>4, DepsNamed
<1>6. PICK R : R = StowRoots
  OBVIOUS
<1>7. PICK c \in R, i \in Name, x \in Path, y \in Path :
         /\ ref = Append(c, i) \o x /\ e = Target \o x
         /\ b = Append(c, i) \o (x \o y) /\ w = Target \o (x \o y)
  BY <1>1, <1>4, <1>6, DepsNamed
<1>8. PICK d \in R, m \in Name : dir = Append(d, m)
  BY <1>3, <1>6
<1>9. PICK t \in Path, g \in Path, P \in Path, s \in Path, u \in Path :
         t = Target /\ g = f /\ P = Append(c, i) /\ s = dir /\ u = x \o y
  BY <1>2, <1>3, <1>6, <1>7, AddPath, JoinPath DEF Apart
<1>10. PICK z \in Path, q \in Path : z = s \o g /\ q = t \o g
  BY <1>9, JoinPath
<1>11. IsInDir(z, b) /\ ~IsDir(fs, z)
  BY <1>3, <1>4, <1>9, <1>10
<1>12. P = s
  <2>1. b = P \o u
    BY <1>7, <1>9
  <2>2. IsInDir(b, P) /\ IsInDir(z, s)
    BY <1>9, <1>10, <2>1, JoinIn
  <2>3. IsInDir(z, P)
    BY <1>11, <2>2, InTrans
  <2>4. IsInDir(z, Append(d, m)) /\ IsInDir(z, Append(c, i)) /\ Apart(R)
    BY <1>2, <1>6, <1>8, <1>9, <2>2, <2>3
  <2>5. Append(d, m) = Append(c, i)
    BY <2>4, OneHome
  <2> QED BY <1>8, <1>9, <2>5
<1>13. w = t \o u /\ b = s \o u
  BY <1>7, <1>9, <1>12
<1>14. IsInDir(q, w)
  <2>1. IsInDir(s \o g, s \o u)
    BY <1>10, <1>11, <1>13
  <2>2. IsInDir(t \o g, t \o u)
    BY <2>1, InOther
  <2> QED BY <1>10, <1>13, <2>2
<1>15. After(w, t) = u
  BY <1>13, JoinIn
<1>16. IsInDir(q, e)
  <2>1. IsInDir(t \o (x \o y), t \o x)
    BY InJoin
  <2>2. IsInDir(w, e)
    BY <1>7, <1>9, <2>1
  <2> QED BY <1>14, <2>2, InTrans
<1>17. q # e
  <2> SUFFICES ASSUME q = e PROVE FALSE
    OBVIOUS
  <2>1. t \o g = t \o x
    BY <1>7, <1>9, <1>10
  <2>2. g = x
    BY <2>1, JoinCancel
  <2>3. z = ref
    BY <1>7, <1>9, <1>10, <1>12, <2>2
  <2> QED BY <1>5, <1>11, <2>3 DEF PlainDir
<1>18. LinksAbove(fs, q) # {}
  BY <1>2, <1>5, <1>16, <1>17, LinkOver
<1> QED BY <1>4, <1>9, <1>10, <1>13, <1>14, <1>15, <1>18

LEMMA UnfoldsLeft ==
    ASSUME deps \in Seq(DepsCall), deps # <<>>, NEW n \in Name,
           NEW D, D = Handled(n) \/ D = [deps EXCEPT ![Len(deps)].rest = @ \ {n}],
           NEW dir, NEW f, Unfolds(deps, dir, f)
    PROVE  Unfolds(D, dir, f) \/ IsInDir(dir \o f, B(n))
<1> DEFINE i == Len(deps)
           g == [deps[i] EXCEPT !.common = @ \ {n}]  h == [deps[i] EXCEPT !.rest = @ \ {n}]
<1>1. i \in DOMAIN deps /\ deps[i] \in DepsCall
  OBVIOUS
<1>2. /\ g \in DepsCall /\ g.b = deps[i].b /\ g.common = deps[i].common \ {n} /\ g.rest = deps[i].rest
      /\ h \in DepsCall /\ h.b = deps[i].b /\ h.common = deps[i].common /\ h.rest = deps[i].rest \ {n}
  BY <1>1 DEF DepsCall
<1>3. D = [deps EXCEPT ![i] = g] \/ D = [deps EXCEPT ![i] = h]
  BY DEF Handled
<1> HIDE DEF g, h
<1>4. /\ DOMAIN D = DOMAIN deps
      /\ \A k \in DOMAIN deps : k = i \/ D[k] = deps[k]
      /\ D[i] = g \/ D[i] = h
  BY <1>1, <1>3
<1>5. PICK k \in DOMAIN deps : \E m \in DepsNames(deps[k]) : IsInDir(dir \o f, Append(deps[k].b, m))
  BY DEF Unfolds
<1>6. PICK m \in DepsNames(deps[k]) : IsInDir(dir \o f, Append(deps[k].b, m))
  BY <1>5
<1>7. CASE k = i /\ m = n
  BY <1>6, <1>7 DEF B, Deps
<1>8. CASE ~(k = i /\ m = n)
  <2>1. D[k].b = deps[k].b
    BY <1>2, <1>4
  <2>2. m \in DepsNames(D[k])
    BY <1>2, <1>4, <1>6, <1>8 DEF DepsNames
  <2> QED BY <1>4, <1>6, <2>1, <2>2 DEF Unfolds
<1> QED BY <1>7, <1>8

LEMMA DepsLinkSight ==
    ASSUME SightReady, UNCHANGED before, NEW n \in Name, DepsLink(n)
    PROVE  SightInv'
<1> DEFINE l == LinkOp(B(n), W(n))
<1>1. /\ phase = "deps" /\ phase \in Planning /\ phase # "idle" /\ phase' = "deps"
      /\ UNCHANGED <<fs, setupVars>> /\ links' = Push(links, l)
      /\ deps' = [deps EXCEPT ![Len(deps)].rest = @ \ {n}]
  BY DEF DepsLink, Planning
<1>2. links \in Seq(Op) /\ deps \in Seq(DepsCall) /\ deps # <<>> /\ ProperReady
  BY <1>1, ProperFacts DEF CheckOK, CheckTypeOK, SightReady
<1>3. B(n) \in Path /\ W(n) \in Path
  BY <1>1, <1>2, DepsNamed
<1>4. l \in Op /\ l.act = "SET_LINK" /\ l.origin = B(n) /\ l.target = W(n)
  BY <1>3, NamedOpTyped DEF LinkOp, MkOp
<1> HIDE DEF l
<1>5. PICK M : M = Push(links, l)
  OBVIOUS
<1>6. PICK D : D = [deps EXCEPT ![Len(deps)].rest = @ \ {n}]
  OBVIOUS
<1>7. ASSUME NEW dir \in OtherPackages, NEW f \in InSight(dir), Unfolds(deps, dir, f)
      PROVE  Relinked(M, dir, f) \/ Unfolds(D, dir, f)
  <2>1. CASE Unfolds(D, dir, f)
    BY <2>1
  <2>2. CASE IsInDir(dir \o f, B(n))
    <3>1. IsInDir(Target \o f, W(n)) /\ B(n) = dir \o After(W(n), Target)
      BY <1>1, <2>2, DepsShown
    <3>2. Relinked(Push(links, l), dir, f)
      <4>1. IsInDir(Target \o f, l.target) /\ l.origin = dir \o After(l.target, Target)
        BY <1>4, <3>1
      <4> QED BY <1>2, <1>4, <4>1, PushSight
    <3> QED BY <1>5, <3>2
  <2> QED BY <1>2, <1>6, <1>7, <2>1, <2>2, UnfoldsLeft
<1>8. l.act # "REMOVE"
  BY <1>4
<1> QED BY <1>1, <1>4, <1>5, <1>6, <1>7, <1>8, DepsSight

LEMMA DepsDirSight ==
    ASSUME SightReady, UNCHANGED before, NEW n \in Name, DepsDir(n)
    PROVE  SightInv'
<1> DEFINE l == MkdirOp(W(n))  b == B(n)
           frame == [a |-> A(n), b |-> b, w |-> W(n),
                     common |-> Children(A(n)) \cap Children(b),
                     rest   |-> Children(b) \ Children(A(n))]
<1>1. phase = "deps" /\ phase \in Planning /\ phase # "idle" /\ UNCHANGED <<fs, setupVars>>
  BY DEF DepsDir, Shared, Planning
<1>2. CASE ~(Readable(fs, A(n)) /\ Readable(fs, b))
  <2>1. phase' = "aborted" /\ UNCHANGED links
    BY <1>2 DEF DepsDir, CheckDirs
  <2>2. PICK M : M = links
    OBVIOUS
  <2>3. PICK D : D = deps'
    OBVIOUS
  <2> QED BY <1>1, <2>1, <2>2, <2>3, DepsSight DEF Planning
<1>3. CASE Readable(fs, A(n)) /\ Readable(fs, b)
  <2>1. phase' = "deps" /\ links' = Push(links, l) /\ deps' = Append(Handled(n), frame)
    BY <1>3 DEF DepsDir, CheckDirs
  <2>2. /\ links \in Seq(Op) /\ deps \in Seq(DepsCall) /\ deps # <<>> /\ ProperReady
        /\ Disk(fs) /\ SetupTypeOK /\ Config.nignores = <<>>
    BY <1>1, ProperFacts DEF CheckOK, CheckTypeOK, SightReady
  <2>3. W(n) \in Path /\ b \in Path /\ PlainDir(fs, fs[at.entry].ref)
        /\ IsInDir(b, fs[at.entry].ref) /\ fs[at.entry].ref \in Path
    BY <1>1, <2>2, DepsNamed
  <2>4. l \in Op /\ l.act # "REMOVE"
    BY <2>3, NamedOpTyped DEF MkdirOp, MkOp
  <2>5. IsDir(fs, b)
    BY <1>3, <2>2, <2>3, PlainName
  <2>6. DepsNames(frame) = Children(b) /\ frame.b = b
    BY DEF DepsNames
  <2> HIDE DEF l, frame
  <2>7. PICK H : H = Handled(n) /\ H \in Seq(DepsCall)
    BY <2>2, HandledSame
  <2>8. PICK D : D = Append(H, frame) /\ D = deps'
    BY <2>1, <2>7
  <2>9. /\ DOMAIN D = 1..(Len(H) + 1) /\ DOMAIN H = 1..Len(H) /\ Len(H) \in Nat
        /\ \A k \in DOMAIN H : D[k] = H[k]
        /\ D[Len(H) + 1] = frame
    <3>1. PICK g : g = frame
      OBVIOUS
    <3>2. D = Append(H, g) /\ H \in Seq(DepsCall)
      BY <2>7, <2>8, <3>1
    <3>3. DOMAIN H = 1..Len(H) /\ Len(H) \in Nat
      BY <3>2
    <3>4. DOMAIN D = 1..(Len(H) + 1)
      BY <3>2
    <3>5. \A k \in 1..Len(H) : D[k] = H[k]
      BY <3>2
    <3>6. D[Len(H) + 1] = g
      BY <3>2
    <3> QED BY <3>1, <3>3, <3>4, <3>5, <3>6
  <2>10. PICK M : M = Push(links, l)
    OBVIOUS
  <2>11. ASSUME NEW dir \in OtherPackages, NEW f \in InSight(dir), Unfolds(deps, dir, f)
         PROVE  Unfolds(D, dir, f)
    <3>1. CASE Unfolds(H, dir, f)
      <4>1. \A k \in DOMAIN H : k \in DOMAIN D
        BY <2>9
      <4> QED BY <2>9, <3>1, <4>1 DEF Unfolds
    <3>2. CASE IsInDir(dir \o f, b)
      <4>1. /\ dir \in Path /\ f \in Path /\ f # <<>> /\ dir \o f \in Path
            /\ dir \o f \in DOMAIN fs /\ ~IsDir(fs, dir \o f) /\ ~IsInDir(dir \o f, package)
            /\ LinksAbove(fs, Target \o f) # {} => ~match_ignore(f[Len(f)])
        BY <1>1, SightFacts
      <4>2. ~match_ignore(f[Len(f)])
        BY <1>1, <3>2, <4>1, DepsShown
      <4>3. PICK z \in DOMAIN fs : z = dir \o f /\ IsInDir(z, b) /\ ~IsInDir(z, package) /\ z # b
        BY <2>5, <3>2, <4>1
      <4> HIDE DEF b
      <4>4. PICK c \in Children(b) : IsInDir(z, Append(b, c))
        BY <2>2, <2>3, <4>1, <4>2, <4>3, SightName
      <4>5. Len(H) + 1 \in DOMAIN D
        BY <2>9
      <4> QED BY <2>6, <2>9, <4>3, <4>4, <4>5 DEF Unfolds
    <3> QED BY <2>2, <2>7, <2>11, <3>1, <3>2, UnfoldsLeft
  <2> QED BY <1>1, <2>1, <2>4, <2>8, <2>10, <2>11, DepsSight
<1> QED BY <1>2, <1>3

LEMMA CheckDepsSight ==
    ASSUME SightReady, UNCHANGED before, NEW n \in Name, CheckDeps(n)
    PROVE  SightInv'
<1>1. phase = "deps" /\ phase \in Planning /\ phase # "idle"
  BY DEF CheckDeps, DepsDir, DepsHarmless, DepsConflict, DepsLink, Shared, Planning
<1>2. /\ TidyReady /\ deps \in Seq(DepsCall) /\ deps # <<>> /\ DepsSeen(deps, at)
  BY <1>1, ProperFacts DEF CheckOK, CheckTypeOK, SightReady
<1>3. ~DepsHarmless(n)
  <2> SUFFICES ASSUME DepsHarmless(n) PROVE FALSE
    OBVIOUS
  <2>1. n \in Deps.common /\ Harmless(n)
    BY DEF DepsHarmless, Shared
  <2>2. IgnoredFile(Deps.a, n)
    BY <1>2, <2>1, NoCopies DEF Harmless, IgnoredFile, A
  <2>3. n \in Children(Deps.a)
    <3>1. Len(deps) \in DOMAIN deps
      BY <1>2
    <3> QED BY <1>2, <2>1, <3>1 DEF DepsSeen, Deps
  <2> QED BY <2>2, <2>3 DEF Children
<1>4. CASE DepsConflict(n)
  <2>1. ~opt.force
    BY DEF SightReady
  <2>2. phase' = "refused" /\ UNCHANGED <<fs, setupVars, links, deps>>
    BY <1>4, <2>1 DEF DepsConflict, Stop, checkVars
  <2>3. PICK M : M = links
    OBVIOUS
  <2>4. PICK D : D = deps
    OBVIOUS
  <2> QED BY <1>1, <2>2, <2>3, <2>4, DepsSight DEF Planning
<1> QED BY <1>3, <1>4, DepsDirSight, DepsLinkSight DEF CheckDeps

LEMMA DepsReturnSight ==
    ASSUME SightReady, UNCHANGED before, DepsReturn
    PROVE  SightInv'
<1>1. /\ phase = "deps" /\ phase \in Planning /\ phase # "idle" /\ UNCHANGED <<fs, setupVars>>
      /\ phase' \in {"deps", "dive"} /\ (Len(deps) > 1 => phase' = "deps")
      /\ deps' = SubSeq(deps, 1, Len(deps) - 1) /\ Deps.common = {} /\ Deps.rest = {}
  BY DEF DepsReturn, Planning
<1>2. deps \in Seq(DepsCall) /\ deps # <<>> /\ TidyReady
  BY <1>1, ProperFacts DEF CheckOK, CheckTypeOK, SightReady
<1>3. PICK D : D = deps'
  OBVIOUS
<1>4. \A k \in DOMAIN deps : k = Len(deps) \/ (k \in DOMAIN D /\ D[k] = deps[k] /\ Len(deps) > 1)
  BY <1>1, <1>2, <1>3
<1>5. DepsNames(deps[Len(deps)]) = {}
  BY <1>1 DEF DepsNames, Deps
<1>6. \A dir, f : Unfolds(deps, dir, f) => Unfolds(D, dir, f) /\ Len(deps) > 1
  <2> SUFFICES ASSUME NEW dir, NEW f, Unfolds(deps, dir, f)
               PROVE  Unfolds(D, dir, f) /\ Len(deps) > 1
    OBVIOUS
  <2>1. PICK k \in DOMAIN deps : \E m \in DepsNames(deps[k]) : IsInDir(dir \o f, Append(deps[k].b, m))
    BY DEF Unfolds
  <2>2. k # Len(deps)
    BY <1>5, <2>1
  <2> QED BY <1>4, <2>1, <2>2 DEF Unfolds
<1>7. MkdirOp(Deps.w) \in Op /\ MkdirOp(Deps.w).act # "REMOVE"
  <2>1. Deps.w \in Path
    BY <1>1, <1>2, WTidy
  <2> QED BY <2>1, NamedOpTyped DEF MkdirOp, MkOp
<1>8. PICK M : M = links'
  OBVIOUS
<1>9. M = links \/ M = Push(links, MkdirOp(Deps.w))
  BY <1>8 DEF DepsReturn
<1>10. M = links \/ \E l \in Op : M = Push(links, l) /\ l.act # "REMOVE"
  BY <1>7, <1>9
<1>11. phase' \notin {"exec", "done"}
  BY <1>1
<1> QED BY <1>1, <1>3, <1>6, <1>8, <1>10, <1>11, DepsSight

LEMMA CheckStepSight ==
    ASSUME SightReady, UNCHANGED before, CheckStep
    PROVE  SightInv'
<1>1. ~DiveCopyDir
  BY NoCopies DEF SightReady, ProperReady, DiveCopyDir
<1>2. CASE DiveNotDir \/ Dive \/ CheckReturn
  <2>1. /\ phase \in Planning /\ phase # "deps" /\ phase' \notin {"exec", "done", "deps"}
        /\ UNCHANGED <<fs, setupVars, before>> /\ UNCHANGED links
    BY <1>2 DEF DiveNotDir, Dive, CheckReturn, Surface, Enter, Stop, checkVars, Planning
  <2> QED BY <2>1, SightCalm
<1> QED BY <1>1, <1>2, CheckChildSight, CheckDepsSight, DepsReturnSight DEF CheckStep
-----------------------------------------------------------------------------
(***************************************************************************)
(* What is seen of other packages stays in sight: the pass around it.      *)
(***************************************************************************)
\* A file to keep in sight lies in a stow directory, whose other files stay.
LEMMA SeenFacts ==
    ASSUME TidyAll, ProperInv, phase # "idle", NEW dir \in OtherPackages, NEW f \in InSight(dir)
    PROVE  /\ dir \in Path /\ f \in Path /\ dir \o f \in Path
           /\ \E d \in StowRoots : IsInDir(dir \o f, d)
<1>1. ProperReady /\ Disk(before)
  BY TidyIsStraight DEF ProperReady, TidyReady, TidyAll, PlanInv, TypeOK, CheckOK, MainTypeOK
<1>2. PICK R : R = StowRoots
  OBVIOUS
<1>3. PICK p \in Pkg : package = PkgDir(p)
  BY <1>1, ProperFacts
<1>4. Apart(R) /\ Config.nignores = <<>> /\ Target \in Path /\ StowDir \in R
  BY <1>1, <1>2, ProperFacts
<1>5. (\E d \in R : \E m \in Name : dir = Append(d, m)) /\ dir \in Path /\ f \in Path /\ dir \o f \in Path
  BY <1>1, <1>2, <1>3, <1>4, InSightFacts
<1>6. PICK d \in R, m \in Name : dir = Append(d, m)
  BY <1>5
<1>7. d \in Path
  BY <1>4 DEF Apart
<1>8. IsInDir(dir, d) /\ IsInDir(dir \o f, dir)
  BY <1>5, <1>6, <1>7, InAdd, InSelf, JoinIn
<1>9. PICK q \in Path : q = dir \o f
  BY <1>5
<1>10. IsInDir(q, d)
  BY <1>5, <1>7, <1>8, <1>9, InTrans
<1> QED BY <1>2, <1>5, <1>9, <1>10

\* When the pass begins, what is seen is seen through a link.
LEMMA BeginSight ==
    ASSUME TypeOK, PlanInv, TidyInv, ProperInv, BeginPass
    PROVE  SightInv'
<1>1. /\ phase = "begin" /\ phase' \in {"check"} \cup Stopped /\ links = <<>>
      /\ UNCHANGED <<fs, host, links, package>> /\ before' = fs
  BY DEF BeginPass, Enter, Stop, checkVars, PlanInv, setupVars, Stopped
<1>2. ProperReady /\ phase # "idle"
  BY <1>1, TidyIsStraight DEF ProperReady, TidyReady, PlanInv, TypeOK, CheckOK
<1>3. PICK R : R = StowRoots
  OBVIOUS
<1>4. /\ Apart(R) /\ Disk(fs) /\ Target \in Path /\ LinksProper(fs, R)
      /\ \A r \in R : ~IsInDir(Target, r)
  BY <1>2, <1>3, ProperFacts
<1>5. OtherPackages' = OtherPackages
  BY <1>1 DEF OtherPackages, StowRoots, Config
<1>6. PICK F : F = fs
  OBVIOUS
<1>7. ASSUME NEW dir \in OtherPackages, NEW f \in Shown(F, dir)
      PROVE  \E l \in DOMAIN F : ShownBy(F, l, dir, f)
  <2>1. PICK d \in R, m \in Name : dir = Append(d, m)
    BY <1>3, <1>7 DEF OtherPackages
  <2>2. dir \in Path /\ ~IsInDir(Target, d)
    BY <1>4, <2>1, AddPath DEF Apart
  <2>3. f \in FilesOf(F, dir) /\ Shows(F, dir, f)
    BY <1>7 DEF Shown
  <2>4. PICK q \in DOMAIN F : IsStrictPrefix(dir, q) /\ f = After(q, dir)
    BY <2>3 DEF FilesOf
  <2>5. q \in Path /\ IsInDir(q, dir)
    BY <1>4, <1>6, <2>4 DEF Disk, IsStrictPrefix, IsInDir
  <2>6. f \in Path
    BY <2>2, <2>4, <2>5, InDir
  <2> QED BY <1>4, <1>6, <2>1, <2>2, <2>3, <2>6, ShownByLink
<1>8. \A dir : \A f \in InSight(dir)' : f \in Shown(F, dir)
  BY <1>1, <1>6 DEF InSight
<1>9. DOMAIN links' = {} /\ F = fs'
  BY <1>1, <1>6
<1>10. ASSUME NEW dir \in OtherPackages, NEW f \in InSight(dir)' PROVE Stands(fs, links, dir, f)'
  <2>1. PICK l \in DOMAIN F : ShownBy(F, l, dir, f)
    BY <1>7, <1>8, <1>10
  <2> QED BY <1>9, <2>1 DEF Stands, ShownBy
<1> QED BY <1>1, <1>5, <1>10 DEF SightInv, Stopped

\* What stands stands on another disk with another plan that spares the link.
LEMMA StandsOn ==
    ASSUME NEW F, NEW L, NEW dir, NEW f, Stands(F, L, dir, f), NEW G, NEW M,
           \A l \in DOMAIN F : IsLink(F, l) /\ (\A j \in DOMAIN L : Removes(L, j) => L[j].origin # l)
              => /\ l \in DOMAIN G /\ G[l] = F[l]
                 /\ \A j \in DOMAIN M : Removes(M, j) => M[j].origin # l
    PROVE  Stands(G, M, dir, f)
<1>1. PICK l \in DOMAIN F : ShownBy(F, l, dir, f) /\ \A j \in DOMAIN L : Removes(L, j) => L[j].origin # l
  BY DEF Stands
<1>2. /\ l \in DOMAIN G /\ G[l] = F[l]
      /\ \A j \in DOMAIN M : Removes(M, j) => M[j].origin # l
  BY <1>1 DEF ShownBy
<1>3. ShownBy(G, l, dir, f)
  BY <1>1, <1>2 DEF ShownBy, IsLink
<1> QED BY <1>2, <1>3 DEF Stands

\* While the plan is carried out, a change out of the stow directories that
\* keeps the link or puts another one keeps the file in sight.
LEMMA SightMoved ==
    ASSUME TidyAll, ProperInv, SightInv, ~opt.force, phase = "exec", phase' = "exec",
           UNCHANGED <<before, host, package>>,
           NEW G, G = fs', NEW M, M = todo', NEW l, Elsewhere(l, G),
           \A dir, f : Stands(fs, todo, dir, f) \/ Relinked(todo, dir, f)
                          => Stands(G, M, dir, f) \/ Relinked(M, dir, f)
    PROVE  SightInv'
<1>1. Config.nignores = <<>>
  BY DEF TidyAll, TidyInv, TidyHost, Config
<1>2. OtherPackages' = OtherPackages /\ \A dir : InSight(dir)' = InSight(dir)
  BY <1>1, SightSame
<1>3. ASSUME NEW dir \in OtherPackages, NEW f \in InSight(dir)
      PROVE  dir \o f \in DOMAIN G /\ (Stands(G, M, dir, f) \/ Relinked(M, dir, f))
  <2>1. dir \o f \in DOMAIN fs /\ (Stands(fs, todo, dir, f) \/ Relinked(todo, dir, f))
    BY <1>3 DEF SightInv
  <2>2. PICK d \in StowRoots : IsInDir(dir \o f, d)
    BY <1>3, SeenFacts
  <2>3. dir \o f # l
    BY <2>2 DEF Elsewhere, Outside
  <2> QED BY <2>1, <2>3 DEF Elsewhere
<1>4. ASSUME NEW dir \in OtherPackages, NEW f \in InSight(dir)
      PROVE  dir \o f \in DOMAIN fs' /\ (Stands(fs, todo, dir, f)' \/ Relinked(todo, dir, f)')
  <2>1. Stands(fs, todo, dir, f)' <=> Stands(G, M, dir, f)
    BY DEF Stands, ShownBy, Removes
  <2>2. Relinked(todo, dir, f)' <=> Relinked(M, dir, f)
    BY DEF Relinked
  <2> QED BY <1>3, <1>4, <2>1, <2>2
<1> QED BY <1>2, <1>4 DEF SightInv

\* One operation of a plan: what it takes is not what shows the file, and a
\* link that was planned to show it comes to stand.
LEMMA TurnSight ==
    ASSUME ExecOK, phase = "exec", ToDo, OpsTidy(todo), ExecStep, phase' = "exec",
           NEW G, G = fs', NEW M, M = todo', NEW dir, NEW f,
           Stands(fs, todo, dir, f) \/ Relinked(todo, dir, f)
    PROVE  Stands(G, M, dir, f) \/ Relinked(M, dir, f)
<1>1. /\ Current = todo[1] /\ 1 \in DOMAIN todo
      /\ \A q \in DOMAIN fs : \/ q \in DOMAIN G /\ G[q] = fs[q]
                              \/ Current.act = "REMOVE" /\ q = Current.origin
      /\ Current.act = "SET_LINK" =>
            /\ Current.target \notin DOMAIN fs /\ Current.target \in DOMAIN G
            /\ G[Current.target] = Link(Current.origin)
      /\ \A j \in DOMAIN M :
            \/ Removes(M, j) /\ IsDir(fs, M[j].origin)
            \/ \E i \in DOMAIN todo : i # 1 /\ M[j] = todo[i]
      /\ \A i \in DOMAIN todo : i = 1 \/ \E j \in DOMAIN M : M[j] = todo[i]
  BY TurnKeeps
<1>2. CASE Stands(fs, todo, dir, f)
  <2>1. ASSUME NEW l \in DOMAIN fs, IsLink(fs, l), \A j \in DOMAIN todo : Removes(todo, j) => todo[j].origin # l
        PROVE  /\ l \in DOMAIN G /\ G[l] = fs[l]
               /\ \A j \in DOMAIN M : Removes(M, j) => M[j].origin # l
    <3>1. l \in DOMAIN G /\ G[l] = fs[l]
      BY <1>1, <2>1 DEF Removes
    <3>2. ~IsDir(fs, l)
      BY <2>1 DEF IsLink, IsDir
    <3>3. ASSUME NEW j \in DOMAIN M, Removes(M, j) PROVE M[j].origin # l
      BY <1>1, <2>1, <3>2, <3>3 DEF Removes
    <3> QED BY <3>1, <3>3
  <2> QED BY <1>2, <2>1, StandsOn
<1>3. CASE Relinked(todo, dir, f)
  <2>1. PICK i \in DOMAIN todo :
           /\ todo[i].act = "SET_LINK" /\ IsInDir(Target \o f, todo[i].target)
           /\ todo[i].origin = dir \o After(todo[i].target, Target)
    BY <1>3 DEF Relinked
  <2>2. CASE i # 1
    <3>1. PICK j \in DOMAIN M : M[j] = todo[i]
      BY <1>1, <2>2
    <3> QED BY <2>1, <3>1 DEF Relinked
  <2>3. CASE i = 1
    <3>1. PICK t, o : t = Current.target /\ o = Current.origin
      OBVIOUS
    <3>2. t \notin DOMAIN fs /\ t \in DOMAIN G /\ G[t] = Link(o) /\ IsInDir(Target \o f, t)
      BY <1>1, <2>1, <2>3, <3>1
    <3>3. o = dir \o After(t, Target)
      BY <1>1, <2>1, <2>3, <3>1
    <3>4. ShownBy(G, t, dir, f)
      BY <3>2, <3>3 DEF ShownBy, IsLink, Link
    <3>5. ASSUME NEW j \in DOMAIN M, Removes(M, j) PROVE M[j].origin # t
      <4>1. ~IsDir(fs, t) /\ ~IsLink(fs, t)
        BY <3>2 DEF IsDir, IsLink
      <4>2. CASE IsDir(fs, M[j].origin)
        BY <4>1, <4>2
      <4>3. CASE ~IsDir(fs, M[j].origin)
        <5>1. PICK k \in DOMAIN todo : M[j] = todo[k]
          BY <1>1, <4>3
        <5>2. Removes(todo, k)
          BY <3>5, <5>1 DEF Removes
        <5>3. IsLink(fs, todo[k].origin) \/ IsDir(fs, todo[k].origin)
          BY <5>2 DEF ToDo, TodoOK
        <5> QED BY <4>1, <5>1, <5>3
      <4> QED BY <4>2, <4>3
    <3> QED BY <3>2, <3>4, <3>5 DEF Stands
  <2> QED BY <2>2, <2>3
<1> QED BY <1>2, <1>3

LEMMA ExecSight ==
    ASSUME TidyAll, PassInv, ProperInv, SightInv, Exec
    PROVE  SightInv'
<1>1. /\ ExecOK /\ ExecStep /\ ExecPhases
      /\ UNCHANGED <<before, host, package, opt>> /\ UNCHANGED <<before, host, package>>
  <2>1. ExecOK /\ ExecStep
    BY DEF TidyAll, Exec, TypeOK, CheckOK, ExecOK
  <2>2. UNCHANGED setupVars
    BY <2>1 DEF ExecStep, ExecBegin, ExecRemoveDir, ExecUnlink, ExecMkdir, ExecSetLink, file_copy,
                dir_copy, ExecCommand, ExecEnd, Frame
  <2> QED BY <2>1, <2>2, ExecStepTyped DEF Exec, setupVars, mainVars
<1>2. CASE opt.force
  BY <1>1, <1>2 DEF SightInv
<1>3. Config.nignores = <<>>
  BY DEF TidyAll, TidyInv, TidyHost, Config
<1>4. OtherPackages' = OtherPackages /\ \A dir : InSight(dir)' = InSight(dir)
  BY <1>1, <1>3, SightSame
<1>5. CASE ~opt.force /\ phase = "check"
  <2>1. ExecBegin
    BY <1>1, <1>5 DEF ExecStep, ExecRemoveDir, ExecUnlink, ExecMkdir, ExecSetLink, file_copy,
                dir_copy, ExecCommand, ExecEnd, Doing
  <2>2. \/ phase' = "done" /\ Dry'
        \/ phase' = "exec" /\ todo' = links /\ fs' = fs
    BY <1>1, <2>1 DEF ExecBegin, Dry
  <2>3. CASE phase' = "done" /\ Dry'
    BY <2>3 DEF SightInv
  <2>4. CASE phase' = "exec" /\ todo' = links /\ fs' = fs
    <3>1. SightReady /\ phase \in Planning
      BY <1>5, TidyIsStraight DEF SightReady, ProperReady, TidyReady, TidyAll, PlanInv, TypeOK, CheckOK, Planning
    <3>2. ASSUME NEW dir \in OtherPackages, NEW f \in InSight(dir)
          PROVE  dir \o f \in DOMAIN fs /\ (Stands(fs, links, dir, f) \/ Relinked(links, dir, f))
      BY <1>5, <3>1, <3>2, SightFacts DEF SightInv
    <3>3. ASSUME NEW dir \in OtherPackages, NEW f \in InSight(dir)
          PROVE  dir \o f \in DOMAIN fs' /\ (Stands(fs, todo, dir, f)' \/ Relinked(todo, dir, f)')
      <4>1. Stands(fs, todo, dir, f)' <=> Stands(fs, links, dir, f)
        BY <2>4 DEF Stands, ShownBy, Removes
      <4>2. Relinked(todo, dir, f)' <=> Relinked(links, dir, f)
        BY <2>4 DEF Relinked
      <4> QED BY <2>4, <3>2, <3>3, <4>1, <4>2
    <3> QED BY <1>4, <2>4, <3>3 DEF SightInv
  <2> QED BY <2>2, <2>3, <2>4
<1>6. CASE ~opt.force /\ phase = "exec"
  <2>1. ToDo /\ OpsTidy(todo)
    BY <1>6 DEF TidyAll, PlanInv, TidyInv, ToDo
  <2>2. PICK G : G = fs'
    OBVIOUS
  <2>3. PICK M : M = todo'
    OBVIOUS
  <2>4. CASE phase' = "exec"
    <3>1. Elsewhere(Place(Current), G)
      BY <1>1, <1>6, <2>1, <2>2, <2>3, <2>4, TurnKeeps
    <3>2. PICK l : Elsewhere(l, G)
      BY <3>1
    <3>3. \A dir, f : Stands(fs, todo, dir, f) \/ Relinked(todo, dir, f)
                         => Stands(G, M, dir, f) \/ Relinked(M, dir, f)
      BY <1>1, <1>6, <2>1, <2>2, <2>3, <2>4, TurnSight
    <3> QED BY <1>1, <1>6, <2>2, <2>3, <2>4, <3>2, <3>3, SightMoved
  <2>5. CASE phase' # "exec"
    <3>1. fs' = fs /\ (phase' = "done" => todo = <<>>)
      BY <1>1, <1>6, <2>1, <2>5, ExecDoes
    <3>2. CASE phase' = "done"
      <4>1. ASSUME NEW dir \in OtherPackages, NEW f \in InSight(dir)
            PROVE  dir \o f \in DOMAIN fs' /\ Stands(fs, <<>>, dir, f)'
        <5>1. dir \o f \in DOMAIN fs /\ (Stands(fs, todo, dir, f) \/ Relinked(todo, dir, f))
          BY <1>6, <4>1 DEF SightInv
        <5>2. todo = <<>>
          BY <3>1, <3>2
        <5>3. ~Relinked(todo, dir, f)
          BY <5>2 DEF Relinked
        <5>4. Stands(fs, <<>>, dir, f)' <=> Stands(fs, todo, dir, f)
          BY <3>1, <5>2 DEF Stands, ShownBy, Removes
        <5> QED BY <3>1, <5>1, <5>3, <5>4
      <4> QED BY <1>4, <3>2, <4>1 DEF SightInv
    <3>3. CASE phase' # "done"
      BY <1>1, <2>5, <3>3 DEF SightInv, ExecPhases
    <3> QED BY <3>2, <3>3
  <2> QED BY <2>4, <2>5
<1> QED BY <1>1, <1>2, <1>5, <1>6 DEF ExecPhases

\* The user takes nothing away.
LEMMA EditSight ==
    ASSUME TidyAll, ProperInv, SightInv, UserEdit
    PROVE  SightInv'
<1>1. OthersHost(host) /\ UNCHANGED before
  BY DEF ProperInv, UserEdit, mainVars
<1>2. PICK G : G = fs'
  OBVIOUS
<1>3. PICK M : M = todo'
  OBVIOUS
<1>4. /\ phase = "exec" /\ phase' = "exec" /\ UNCHANGED <<setupVars, todo>>
      /\ \A q \in DOMAIN fs : q \in DOMAIN G /\ G[q] = fs[q]
      /\ \E l \in Path : l \notin DOMAIN fs /\ Elsewhere(l, G)
  BY <1>1, <1>2, EditNew
<1>5. UNCHANGED <<before, host, package>> /\ opt' = opt /\ M = todo
  BY <1>1, <1>3, <1>4 DEF setupVars
<1>6. CASE opt.force
  BY <1>5, <1>6 DEF SightInv
<1>7. CASE ~opt.force
  <2>1. PICK l : Elsewhere(l, G)
    BY <1>4
  <2>2. ASSUME NEW dir, NEW f, Stands(fs, todo, dir, f) PROVE Stands(G, M, dir, f)
    <3>1. Stands(fs, M, dir, f)
      BY <1>5, <2>2
    <3> QED BY <1>4, <3>1, StandsOn
  <2>3. \A dir, f : Stands(fs, todo, dir, f) \/ Relinked(todo, dir, f)
                       => Stands(G, M, dir, f) \/ Relinked(M, dir, f)
    BY <1>5, <2>2
  <2> QED BY <1>2, <1>3, <1>4, <1>5, <1>7, <2>1, <2>3, SightMoved
<1> QED BY <1>6, <1>7

LEMMA SightNext ==
    ASSUME TidyAll, PassInv, ProperInv, SightInv, [Next]_vars
    PROVE  SightInv'
<1>1. ASSUME phase' \notin Planning \cup {"exec", "done"} PROVE SightInv'
  BY <1>1 DEF SightInv, Planning
<1>2. CASE \E c \in Hosts[host].commands : Start(c)
  BY <1>1, <1>2 DEF Start, Select, Planning
<1>3. CASE Again \/ NextPackage \/ Return \/ Die
  <2>1. phase' \in {"begin", "idle"}
    BY <1>3 DEF Select, Again, NextPackage, Return, Die, Quit
  <2> QED BY <1>1, <2>1 DEF Planning
<1>4. CASE \E c \in Hosts[host].commands : StartUnknown(c)
  BY <1>1, <1>4 DEF StartUnknown, Planning
<1>5. CASE BeginPass
  BY <1>5, BeginSight DEF TidyAll
<1>6. CASE Check
  <2>1. CheckOK /\ CheckStep /\ phase \in Planning /\ UNCHANGED before
    BY <1>6, CheckStepTyped DEF Check, TidyAll, TypeOK, CheckOK, PlanStep, mainVars
  <2>2. opt' = opt
    BY <1>6 DEF Check, CheckStep, CheckChild, ChildOwn, ChildExec, ChildCopied, ChildConflict,
       ChildProtected, ChildDir, ChildTraversed, ChildAutoTraverse, ChildForeign, ChildFolded,
       ChildMissing, Skip, Plan, Obstacle, Stop, CheckDeps, DepsDir, DepsHarmless, DepsConflict,
       DepsLink, DepsReturn, DiveNotDir, DiveCopyDir, Dive, Surface, Enter, CheckReturn, setupVars
  <2>3. CASE ~opt.force
    <3>1. TidyReady /\ StowDir \in stow_dirs
      BY <2>1, TidyIsStraight DEF TidyReady, TidyAll, PlanInv, Planning
    <3>2. SightReady
      BY <2>3, <3>1 DEF SightReady, ProperReady
    <3> QED BY <2>1, <3>2, CheckStepSight
  <2>4. CASE opt.force
    BY <2>2, <2>4 DEF SightInv
  <2> QED BY <2>3, <2>4
<1>7. CASE Exec
  BY <1>7, ExecSight
<1>8. CASE UserEdit
  BY <1>8, EditSight
<1>9. CASE UNCHANGED vars
  <2>1. /\ UNCHANGED <<fs, host, package, opt, phase, deps, links, todo, before>>
        /\ UNCHANGED <<before, host, package>>
    BY <1>9 DEF vars, setupVars, checkVars, execVars, mainVars
  <2>2. Config.nignores = <<>>
    BY DEF TidyAll, TidyInv, TidyHost, Config
  <2>3. OtherPackages' = OtherPackages /\ \A dir : InSight(dir)' = InSight(dir)
    BY <2>1, <2>2, SightSame
  <2>4. \A dir, f : /\ Stands(fs, links, dir, f)' <=> Stands(fs, links, dir, f)
                    /\ Stands(fs, todo, dir, f)' <=> Stands(fs, todo, dir, f)
                    /\ Stands(fs, <<>>, dir, f)' <=> Stands(fs, <<>>, dir, f)
    BY <2>1 DEF Stands, ShownBy, Removes
  <2>5. \A dir, f : /\ Relinked(links, dir, f)' <=> Relinked(links, dir, f)
                    /\ Relinked(todo, dir, f)' <=> Relinked(todo, dir, f)
                    /\ Unfolds(deps, dir, f)' <=> Unfolds(deps, dir, f)
    BY <2>1 DEF Relinked, Unfolds, DepsNames
  <2>6. Dry' = Dry
    BY <2>1 DEF Dry
  <2> QED BY <2>1, <2>3, <2>4, <2>5, <2>6 DEF SightInv
<1> QED BY <1>2, <1>3, <1>4, <1>5, <1>6, <1>7, <1>8, <1>9 DEF Next, Process, User
-----------------------------------------------------------------------------
OthersAll == TidyAll /\ PassInv /\ OthersInv

\* Where a link that shows a file of a package stands.
LEMMA ShownPlace ==
    ASSUME NEW F, Disk(F), Target \in Path, NEW R, Apart(R), LinksProper(F, R),
           NEW d \in R, NEW m \in Name, NEW dir, dir = Append(d, m),
           NEW f \in Path, NEW l \in DOMAIN F, ShownBy(F, l, dir, f)
    PROVE  /\ dir \in Path /\ d \in Path /\ IsInDir(dir, d) /\ l \in Path
           /\ After(l, Target) \in Path /\ l = Target \o After(l, Target) /\ IsInDir(l, Target)
<1>1. dir \in Path /\ d \in Path /\ IsInDir(dir, d)
  BY AddPath, InAdd, InSelf DEF Apart
<1>2. PICK t : t = Target
  OBVIOUS
<1>3. PICK x : x = After(l, t)
  OBVIOUS
<1>4. IsLink(F, l) /\ F[l].ref = dir \o x /\ l \in Path
  BY <1>2, <1>3 DEF ShownBy, Disk
<1>5. l = t \o x /\ x \in Path
  <2>1. x \in Path
    <3>1. Len(t) \in Nat /\ Len(l) \in Nat
      BY <1>2, <1>4, PathLen
    <3>2. CASE Len(t) <= Len(l)
      BY <1>3, <1>4, <3>1, <3>2, SubSeqPath DEF After
    <3>3. CASE Len(t) > Len(l)
      <4>1. x = <<>>
        BY <1>3, <3>1, <3>3, SubSeqEmpty DEF After
      <4> QED BY <1>4, <4>1, PathLen
    <3> QED BY <3>1, <3>2, <3>3
  <2>2. PICK ref \in Path : ref = dir \o x /\ IsInDir(ref, dir) /\ After(ref, dir) = x
    BY <1>1, <2>1, JoinPath, JoinIn
  <2>3. Proper(R, l, ref)
    BY <1>4, <2>2 DEF LinksProper
  <2>4. l = Target \o After(ref, Append(d, m))
    BY <2>2, <2>3 DEF Proper
  <2> QED BY <1>2, <2>1, <2>2, <2>4
<1>6. IsInDir(l, Target)
  BY <1>2, <1>5, JoinIn
<1> QED BY <1>1, <1>2, <1>3, <1>4, <1>5, <1>6

\* Such a link shows the file when the file is there.
LEMMA ShownByShows ==
    ASSUME NEW F, Disk(F), Target \in Path, NEW R, Apart(R), LinksProper(F, R),
           \A r \in R : PlainDir(F, r), NEW d \in R, NEW m \in Name, NEW dir, dir = Append(d, m),
           NEW f \in Path, dir \o f \in DOMAIN F, NEW l \in DOMAIN F, ShownBy(F, l, dir, f)
    PROVE  Shows(F, dir, f)
<1>1. dir \in Path /\ d \in Path /\ IsInDir(dir, d) /\ IsInDir(l, Target)
  BY ShownPlace
<1>2. PlainDir(F, d)
  OBVIOUS
<1> QED BY <1>1, <1>2, ShownLeads

\* What SightInv says of the end of a pass is what KeepsOthers asks for.
LEMMA SightIsKept == OthersAll => OthersKept
<1> SUFFICES ASSUME OthersAll, ~opt.force, phase = "done", ~Dry,
                    NEW dir \in OtherPackages, NEW f \in Shown(before, dir), ~Unlinked(dir, f)
             PROVE  Shows(fs, dir, f)
  BY DEF OthersKept, KeepsOthers, Finished
<1>1. TidyAll /\ ProperInv /\ SightInv /\ f \in InSight(dir)
  BY DEF OthersAll, OthersInv, InSight
<1>2. dir \o f \in DOMAIN fs /\ Stands(fs, <<>>, dir, f)
  BY <1>1 DEF SightInv
<1>3. PICK l \in DOMAIN fs : ShownBy(fs, l, dir, f)
  BY <1>2 DEF Stands
<1>4. ProperReady /\ phase # "idle"
  BY <1>1, TidyIsStraight DEF ProperReady, TidyReady, TidyAll, PlanInv, TypeOK, CheckOK
<1>5. PICK R : R = StowRoots
  OBVIOUS
<1>6. /\ Disk(fs) /\ Target \in Path /\ Apart(R) /\ LinksProper(fs, R)
      /\ \A r \in R : PlainDir(fs, r)
  BY <1>4, <1>5, ProperFacts
<1>7. f \in Path
  BY <1>1, <1>4, SeenFacts
<1>8. PICK d \in R, m \in Name : dir = Append(d, m)
  BY <1>5 DEF OtherPackages
<1> QED BY <1>2, <1>3, <1>6, <1>7, <1>8, ShownByShows

\* On such a host a pass over one package that ends with success, unless it
\* is in force mode, leaves every file of every other package in sight that
\* was before: checkDirs links again what an unfolded directory showed, and
\* all else that exec_list removes is not on the way to such a file.
THEOREM OthersStay == Spec /\ OthersHost(host) => []OthersKept
<1>1. Init /\ OthersHost(host) => OthersAll
  <2> SUFFICES ASSUME Init, OthersHost(host) PROVE OthersAll
    OBVIOUS
  <2>1. TidyAll /\ PassInv
    BY TypeInit, PlanInit, TidyInit, PassInit DEF OthersHost, TidyAll
  <2>2. phase = "idle" /\ fs \in Hosts[host].disks /\ host \in DOMAIN Hosts
    BY DEF Init
  <2>3. StowRoots = RootsOf(host)
    BY <2>2, RootsTyped
  <2>4. LinksProper(fs, StowRoots)
    BY <2>2, <2>3 DEF OthersHost
  <2> QED BY <2>1, <2>2, <2>4 DEF OthersAll, OthersInv, ProperInv, SightInv
<1>2. OthersAll /\ [Next]_vars => OthersAll'
  <2>1. TidyAll /\ [Next]_vars => TidyAll'
    BY TypeNext, TidyIsStraight, PlanNext, TidyNext DEF TidyAll
  <2>2. TidyAll /\ PassInv /\ [Next]_vars => PassInv'
    BY PassNext DEF TidyAll
  <2> QED BY <2>1, <2>2, ProperNext, SightNext DEF OthersAll, OthersInv
<1> QED BY <1>1, <1>2, SightIsKept, PTL DEF Spec
=============================================================================
