----------------------------- MODULE CleanProofs -----------------------------
(***************************************************************************)
(* An unstow that ends with success leaves no link into the package: the   *)
(* proof that CleanInv is inductive on the hosts CleanHost describes.  And *)
(* one of a package that is installed completely ends so: the proof that   *)
(* UndoInv is inductive on the hosts UndoHost describes.                   *)
(***************************************************************************)
EXTENDS Clean, WholeProofs

CleanReady == TidyReady /\ StowDir \in stow_dirs /\ FitInv

LEMMA CleanFacts ==
    ASSUME CleanReady, phase # "idle"
    PROVE  /\ TidyReady /\ CheckOK /\ Disk(fs) /\ Ready
           /\ stack \in Seq(Call) /\ links \in Seq(Op) /\ at \in Child /\ deps \in Seq(DepsCall)
           /\ Config.nignores = <<>>
           /\ package \in Path /\ Target \in Path /\ StowDir \in Path /\ StowRoots \subseteq Path
           /\ stow_dirs \subseteq StowRoots
           /\ IsInDir(package, StowDir) /\ PlainDir(fs, StowDir)
           /\ \E p \in Pkg : package = PkgDir(p)
           /\ LinksFit(fs, StowRoots) /\ (opt.force => protect_dirs = {})
           /\ phase \in Planning => PlansFitting(fs, links)
           /\ phase = "deps" => DepsFit(deps, at)
<1>1. TidyReady /\ CheckOK /\ Ready /\ FitInv
  BY DEF CleanReady, TidyReady, Ready
<1>2. package \in Path /\ Target \in Path /\ StowDir \in Path /\ StowRoots \subseteq Path
  BY <1>1, TidyFacts, SetupAssumption
<1>3. (\E p \in Pkg : package = PkgDir(p)) /\ stow_dirs \subseteq StowRoots
  BY <1>1 DEF TidyReady, TidyInv
<1> QED BY <1>1, <1>2, <1>3 DEF TidyReady, CheckOK, CheckTypeOK, Straight, FitInv, Planning

\* Nothing is in two packages.
LEMMA OnePackage ==
    ASSUME StowDir \in Path, NEW p \in Pkg, NEW q \in Pkg, NEW a \in Path,
           IsInDir(a, PkgDir(p)), IsInDir(a, PkgDir(q))
    PROVE  PkgDir(p) = PkgDir(q)
<1>1. /\ PkgDir(p) \in Path /\ Len(PkgDir(p)) = Len(StowDir) + 1
      /\ PkgDir(q) \in Path /\ Len(PkgDir(q)) = Len(StowDir) + 1
  BY SetupAssumption, AddPath DEF PkgDir
<1>2. SubSeq(a, 1, Len(PkgDir(p))) = PkgDir(p) /\ SubSeq(a, 1, Len(PkgDir(q))) = PkgDir(q)
  BY <1>1, InDir
<1> QED BY <1>1, <1>2

\* A package is below the directory that holds the packages.
LEMMA StowDirAbove ==
    ASSUME StowDir \in Path, NEW p \in Pkg, NEW a \in Path, IsInDir(a, PkgDir(p))
    PROVE  ~IsInDir(StowDir, a)
<1> SUFFICES ASSUME IsInDir(StowDir, a) PROVE FALSE
  OBVIOUS
<1>1. PkgDir(p) \in Path /\ Len(PkgDir(p)) = Len(StowDir) + 1 /\ Len(StowDir) \in Nat
  BY SetupAssumption, AddPath, PathLen DEF PkgDir
<1>2. IsInDir(StowDir, PkgDir(p))
  BY <1>1, InTrans
<1> QED BY <1>1, <1>2, InDir

\* A link fits where the package is to be installed.
LEMMA FitsOwn ==
    ASSUME StowDir \in Path, NEW F, NEW roots, NEW p \in Pkg, package = PkgDir(p),
           NEW a \in Path, a \in DOMAIN F, IsInDir(a, package)
    PROVE  Fits(F, roots, Dest(a), a)
<1>1. ASSUME NEW q \in Pkg, IsInDir(a, PkgDir(q))
      PROVE  Dest(a) = Target \o After(a, PkgDir(q)) /\ a \in DOMAIN F
  BY <1>1, OnePackage DEF Dest
<1>2. ~IsInDir(StowDir, a)
  BY StowDirAbove
<1> QED BY <1>1, <1>2 DEF Fits

\* What is seen below a link that fits fits there, too.
LEMMA FitsBelow ==
    ASSUME StowDir \in Path, Target \in Path, NEW F, NEW roots, NEW e \in Path,
           NEW r \in Path, Fits(F, roots, e, r), NEW d \in roots, IsInDir(r, d),
           NEW y \in Path, NEW f, f = e \o y, NEW s, s = r \o y, s \in DOMAIN F
    PROVE  /\ Fits(F, roots, f, s)
           /\ \A p \in Pkg : IsInDir(s, PkgDir(p))
                 => IsInDir(r, PkgDir(p)) /\ e = Target \o After(r, PkgDir(p))
<1>1. ~IsInDir(StowDir, r)
  BY DEF Fits
<1>2. s \in Path /\ IsInDir(s, r)
  BY JoinPath, JoinIn
<1>3. ~IsInDir(StowDir, s)
  BY <1>1, <1>2, InTrans
<1>4. ASSUME NEW p \in Pkg, IsInDir(s, PkgDir(p))
      PROVE  /\ IsInDir(r, PkgDir(p)) /\ e = Target \o After(r, PkgDir(p))
             /\ f = Target \o After(s, PkgDir(p))
  <2>1. PkgDir(p) \in Path /\ p \in Name
    BY SetupAssumption, AddPath DEF PkgDir
  <2>2. IsInDir(r, PkgDir(p))
    <3>1. IsInDir(r, PkgDir(p)) \/ IsInDir(PkgDir(p), r)
      BY <1>2, <1>4, <2>1, InBoth
    <3>2. IsInDir(PkgDir(p), r) => r = PkgDir(p)
      BY <1>1, <2>1, InAdd DEF PkgDir
    <3> QED BY <2>1, <3>1, <3>2, InSelf
  <2>3. e = Target \o After(r, PkgDir(p))
    BY <2>2 DEF Fits
  <2> DEFINE z == After(r, PkgDir(p))
  <2>4. r = PkgDir(p) \o z /\ z \in Path
    BY <2>1, <2>2, InDir
  <2> HIDE DEF z
  <2>5. s = PkgDir(p) \o (z \o y) /\ z \o y \in Path /\ (Target \o z) \o y = Target \o (z \o y)
    <3>1. PICK b \in Path : b = PkgDir(p)
      BY <2>1
    <3>2. (b \o z) \o y = b \o (z \o y)
      BY <2>4, JoinAssoc
    <3>3. (Target \o z) \o y = Target \o (z \o y)
      <4>1. PICK t \in Path : t = Target
        OBVIOUS
      <4>2. z \in Path
        BY <2>4
      <4>3. (t \o z) \o y = t \o (z \o y)
        BY <4>2, JoinAssoc
      <4> QED BY <4>1, <4>3
    <3>4. z \o y \in Path
      BY <2>4, JoinPath
    <3>5. s = (b \o z) \o y
      BY <2>4, <3>1
    <3> QED BY <3>1, <3>2, <3>3, <3>4, <3>5
  <2>6. After(s, PkgDir(p)) = z \o y
    BY <2>1, <2>5, JoinIn
  <2> QED BY <2>2, <2>3, <2>5, <2>6 DEF z
<1> QED BY <1>3, <1>4 DEF Fits

LEMMA PushFitting ==
    ASSUME NEW F, NEW L \in Seq(Op), PlansFitting(F, L), NEW l \in Op,
           l.act = "SET_LINK" => Fits(F, StowRoots, l.target, l.origin)
    PROVE  Push(L, l) \in Seq(Op) /\ PlansFitting(F, Push(L, l))
<1> DEFINE M == Push(L, l)
<1>1. /\ M \in Seq(Op)
      /\ \A i \in DOMAIN L : M[i] = L[i]
      /\ \A i \in DOMAIN M \ DOMAIN L : M[i] = l
  BY PushCases
<1> HIDE DEF M
<1>2. PlansFitting(F, M)
  BY <1>1 DEF PlansFitting
<1> QED BY <1>1, <1>2 DEF M
-----------------------------------------------------------------------------
(***************************************************************************)
(* Links fit: the planner.                                                 *)
(***************************************************************************)
LEMMA FitKept ==
    ASSUME CleanReady, phase \in Planning, phase' # "exec", UNCHANGED <<fs, setupVars>>,
           NEW M, links' = M, PlansFitting(fs, M),
           NEW D, deps' = D, NEW c, at' = c, phase' = "deps" => DepsFit(D, c)
    PROVE  FitInv'
<1>1. FitInv
  BY DEF CleanReady
<1>2. UNCHANGED <<fs, host, opt, protect_dirs, stow_dirs>>
  BY DEF setupVars, listVars
<1>3. StowRoots' = StowRoots
  BY <1>2 DEF StowRoots, Config
<1>4. PlansFitting(fs, links)'
  <2>1. PlansFitting(fs, M) <=> PlansFitting(fs, links)'
    BY <1>2, <1>3 DEF PlansFitting, Fits
  <2> QED BY <2>1
<1>5. phase' = "deps" => DepsFit(deps, at)'
  BY <1>2 DEF DepsFit, match_stow_dirs
<1>6. LinksFit(fs, StowRoots)'
  BY <1>1, <1>2, <1>3 DEF FitInv, LinksFit, Fits, IsLink
<1> QED BY <1>1, <1>2, <1>4, <1>5, <1>6 DEF FitInv, CleanHost, TidyHost, TidyDisk, RootsOf, LinksFit, Fits

\* A step that plans no link and calls no checkDirs.
LEMMA FitSame ==
    ASSUME CleanReady, phase \in Planning, phase' \notin {"exec", "deps"}, UNCHANGED <<fs, setupVars>>,
           UNCHANGED links \/ \E l \in Op : links' = Push(links, l) /\ l.act # "SET_LINK"
    PROVE  FitInv'
<1>1. links \in Seq(Op) /\ PlansFitting(fs, links)
  BY CleanFacts DEF Planning
<1>2. PICK M : M = links'
  OBVIOUS
<1>3. PlansFitting(fs, M)
  BY <1>1, <1>2, PushFitting
<1>4. PICK D : D = deps'
  OBVIOUS
<1>5. PICK c : c = at'
  OBVIOUS
<1> QED BY <1>2, <1>3, <1>4, <1>5, FitKept

\* check comes to a name the target has not, and links it.
LEMMA MissingFits ==
    ASSUME CleanReady, NEW n \in Name, ChildMissing(n)
    PROVE  FitInv'
<1>1. phase = "check" /\ n \in Top.kids /\ phase \in Planning /\ phase # "idle"
  BY DEF ChildMissing, Missing, Planning
<1>2. TidyReady /\ links \in Seq(Op) /\ StowDir \in Path /\ PlansFitting(fs, links)
  BY <1>1, CleanFacts
<1> DEFINE l == LinkOp(Base(n), There(n))
<1>3. Install(n) = l
  BY <1>2, NoCopies DEF Install
<1>4. Skip(n) \/ Stop("refused") \/ Plan(n, l)
  BY <1>3 DEF ChildMissing
<1>5. CASE Skip(n) \/ Stop("refused")
  BY <1>1, <1>5, FitSame DEF Skip, Stop, checkVars
<1>6. CASE Plan(n, l)
  <2>1. /\ Base(n) \in Path /\ There(n) \in Path /\ IsInDir(Base(n), package)
        /\ There(n) = Dest(Base(n)) /\ Base(n) \in DOMAIN fs
    BY <1>1, <1>2, ChildPlace
  <2>2. l \in Op /\ l.origin = Base(n) /\ l.target = There(n)
    BY <2>1, NamedOpTyped DEF LinkOp, MkOp
  <2>3. Fits(fs, StowRoots, There(n), Base(n))
    BY <1>1, <1>2, <2>1, FitsOwn, CleanFacts
  <2>4. links' = Push(links, l) /\ phase' = phase /\ UNCHANGED <<fs, setupVars, deps, at>>
    BY <1>6 DEF Plan
  <2> HIDE DEF l
  <2>5. PICK M : M = Push(links, l)
    OBVIOUS
  <2>6. PlansFitting(fs, M)
    BY <1>2, <2>2, <2>3, <2>5, PushFitting
  <2> QED BY <1>1, <2>4, <2>5, <2>6, FitKept
<1> QED BY <1>4, <1>5, <1>6

\* checkDirs is called for names of a directory that is there.
LEMMA RestThere ==
    ASSUME Disk(fs), NEW d \in Path, PlainDir(fs, d), NEW b \in Path, IsInDir(b, d),
           NEW n \in Children(b)
    PROVE  Append(b, n) \in DOMAIN fs
<1>1. n \in Entries(fs, b)
  BY DEF Children
<1> QED BY <1>1, PlainName

\* The link of another package is unfolded.
LEMMA FoldedFits ==
    ASSUME CleanReady, NEW n \in Name, ChildFolded(n)
    PROVE  FitInv'
<1> DEFINE w == There(n)  a == Base(n)  b == Buf(n)
           L == Push(links, RemoveOp(w))  M == Push(L, MkdirOp(w))
<1>1. /\ phase = "check" /\ n \in Top.kids /\ UNCHANGED <<setupVars, fs>> /\ phase # "idle"
      /\ UNCHANGED <<fs, setupVars>> /\ LinkedDir(n) /\ OtherPackage(n) /\ ~OwnLink(n)
      /\ LinkAt(fs, w) /\ phase \in Planning
  BY DEF ChildFolded, LinkedDir, OpenDir, FoundDir, Found, Planning
<1>2. CASE ~(Readable(fs, a) /\ Readable(fs, b))
  BY <1>1, <1>2, FitSame DEF ChildFolded, CheckDirs
<1>3. CASE Readable(fs, a) /\ Readable(fs, b)
  <2> DEFINE frame == [a |-> a, b |-> b, w |-> w,
                       common |-> Children(a) \cap Children(b), rest |-> Children(b) \ Children(a)]
             D == <<frame>>  c == [entry |-> w, into |-> w, base |-> a]
  <2>1. /\ links' = M /\ deps' = D /\ phase' = "deps" /\ at' = c
    <3>1. Append(<<>>, frame) = D
      OBVIOUS
    <3> QED BY <1>3, <3>1 DEF ChildFolded, CheckDirs
  <2>2. TidyReady /\ Ready /\ Disk(fs) /\ links \in Seq(Op) /\ PlansFitting(fs, links)
    BY <1>1, CleanFacts
  <2>3. IsLink(fs, w) /\ fs[w].ref = b /\ b \in Path /\ PlainDir(fs, b)
    BY <1>1, <1>3, <2>2, FoldedPlain
  <2>4. a \in Path /\ w \in Path
    BY <1>1, <2>2, ChildPlace
  <2>5. b # a
    BY <1>1 DEF OwnLink, Buf
  <2>6. match_stow_dirs(b)
    <3>1. Config.autoStow = {}
      BY <2>2 DEF TidyReady, TidyInv, TidyHost, Config
    <3> QED BY <1>1, <3>1 DEF OtherPackage, match_auto_stow_dirs
  <2> HIDE DEF a, b, w
  <2>7. IsInDir(b, b)
    BY <2>3, InSelf
  <2>8. DepsFit(D, c)
    <3>1. \A m \in frame.rest : Append(frame.b, m) \in DOMAIN fs
      BY <2>2, <2>3, <2>7, RestThere
    <3>2. DOMAIN D = {1} /\ D[1] = frame
      OBVIOUS
    <3> QED BY <2>3, <2>5, <2>6, <3>1, <3>2 DEF DepsFit
  <2>9. /\ RemoveOp(w) \in Op /\ RemoveOp(w).act # "SET_LINK"
        /\ MkdirOp(w) \in Op /\ MkdirOp(w).act # "SET_LINK"
    BY <2>4, NamedOpTyped DEF RemoveOp, MkdirOp, MkOp
  <2>10. L \in Seq(Op) /\ PlansFitting(fs, L)
    BY <2>2, <2>9, PushFitting
  <2> HIDE DEF L
  <2>11. PlansFitting(fs, M)
    BY <2>9, <2>10, PushFitting
  <2> HIDE DEF M, D, c
  <2> QED BY <1>1, <2>1, <2>8, <2>11, FitKept
<1> QED BY <1>2, <1>3

LEMMA CheckChildFits ==
    ASSUME CleanReady, NEW n \in Name, CheckChild(n)
    PROVE  FitInv'
<1>1. phase = "check" /\ n \in Top.kids /\ phase \in Planning /\ phase # "idle"
  BY DEF CheckChild, ChildOwn, ChildExec, ChildCopied, ChildConflict, ChildProtected, ChildDir,
     ChildTraversed, ChildAutoTraverse, ChildForeign, ChildFolded, ChildMissing, LinkedDir, OpenDir,
     FoundDir, FoundFile, Found, Missing, Planning
<1>2. TidyReady
  BY DEF CleanReady
<1>3. ~ChildExec(n) /\ ~ChildCopied(n)
  BY <1>2, NoCopies DEF ChildExec, ChildCopied
<1>4. ~ChildTraversed(n) /\ ~ChildAutoTraverse(n)
  BY <1>2, TidyFacts DEF ChildTraversed, ChildAutoTraverse, match_auto_traverse
<1>5. CASE Skip(n) \/ Obstacle(n) \/ ChildDir(n)
  BY <1>1, <1>5, FitSame DEF Skip, Obstacle, Stop, ChildDir, DiveTo, checkVars
<1>6. CASE Plan(n, RemoveOp(There(n)))
  <2>1. RemoveOp(There(n)) \in Op /\ RemoveOp(There(n)).act # "SET_LINK"
    <3>1. There(n) \in Path
      BY <1>1, <1>2, ChildPlace
    <3> QED BY <3>1, NamedOpTyped DEF RemoveOp, MkOp
  <2>2. links' = Push(links, RemoveOp(There(n))) /\ phase' = phase /\ UNCHANGED <<fs, setupVars>>
    BY <1>6 DEF Plan
  <2> QED BY <1>1, <2>1, <2>2, FitSame
<1> QED BY <1>3, <1>4, <1>5, <1>6, FoldedFits, MissingFits
        DEF CheckChild, ChildOwn, ChildConflict, ChildProtected, ChildForeign

\* checkDirs links again what the other package has: it has the name there that
\* it has in that package, and it is not in the package at hand.
LEMMA DepsLinkPlace ==
    ASSUME CleanReady, phase = "deps", NEW n \in Name, B(n) \in DOMAIN fs
    PROVE  /\ Fits(fs, StowRoots, W(n), B(n))
           /\ ~IsInDir(B(n), package)
           /\ LinkOp(B(n), W(n)) \in Op
<1> DEFINE e == at.entry  r == fs[at.entry].ref
<1>1. /\ Ready /\ TidyReady /\ StowDir \in Path /\ Target \in Path /\ package \in Path
      /\ StowRoots \subseteq Path /\ stow_dirs \subseteq StowRoots
      /\ LinksFit(fs, StowRoots) /\ DepsFit(deps, at)
  BY CleanFacts
<1>2. PICK p \in Pkg : package = PkgDir(p)
  BY CleanFacts
<1>3. /\ e \in Path /\ r \in Path /\ at.base \in Path /\ B(n) \in Path /\ W(n) \in Path
      /\ \E y \in Path : W(n) = e \o y /\ B(n) = r \o y
  BY <1>1, DepsFacts DEF Child
<1>4. PICK y \in Path : W(n) = e \o y /\ B(n) = r \o y
  BY <1>3
<1>5. IsLink(fs, e) /\ at.into = e
  BY <1>1 DEF Ready, PlannerOK, DepsOK
<1>6. Fits(fs, StowRoots, e, r)
  BY <1>1, <1>5 DEF LinksFit, IsLink
<1>7. \E d \in StowRoots : IsInDir(r, d)
  BY <1>1 DEF DepsFit, match_stow_dirs
<1>8. r # at.base
  BY <1>1 DEF DepsFit
<1>9. IsInDir(at.base, package) /\ e = Target \o After(at.base, package)
  BY <1>1, <1>5 DEF TidyReady, TidyInv, Aligned
<1> HIDE DEF e, r
<1>10. /\ Fits(fs, StowRoots, W(n), B(n))
       /\ IsInDir(B(n), package) => IsInDir(r, package) /\ e = Target \o After(r, package)
  <2>1. /\ Fits(fs, StowRoots, e \o y, r \o y)
        /\ \A q \in Pkg : IsInDir(r \o y, PkgDir(q))
              => IsInDir(r, PkgDir(q)) /\ e = Target \o After(r, PkgDir(q))
    <3>1. r \o y \in DOMAIN fs
      BY <1>4
    <3>2. PICK F : F = fs
      OBVIOUS
    <3>3. PICK R : R = StowRoots
      BY <1>1
    <3>4. PICK k \in Path : k = r
      BY <1>3
    <3>5. PICK l \in Path : l = e
      BY <1>3
    <3>6. Fits(F, R, l, k) /\ (\E d \in R : IsInDir(k, d)) /\ k \o y \in DOMAIN F
      BY <1>6, <1>7, <3>1, <3>2, <3>3, <3>4, <3>5
    <3>7. StowDir \in Path /\ Target \in Path
      BY <1>1
    <3>8. PICK d \in R : IsInDir(k, d)
      BY <3>6
    <3>9. PICK f : f = l \o y
      OBVIOUS
    <3>10. PICK s : s = k \o y
      OBVIOUS
    <3>11. /\ Fits(F, R, f, s)
           /\ \A q \in Pkg : IsInDir(s, PkgDir(q))
                 => IsInDir(k, PkgDir(q)) /\ l = Target \o After(k, PkgDir(q))
      BY <3>6, <3>7, <3>8, <3>9, <3>10, FitsBelow
    <3> QED BY <3>2, <3>3, <3>4, <3>5, <3>9, <3>10, <3>11
  <2> QED BY <1>2, <1>4, <2>1
<1>11. ~IsInDir(B(n), package)
  <2> SUFFICES ASSUME IsInDir(B(n), package) PROVE FALSE
    OBVIOUS
  <2>1. IsInDir(r, package) /\ Dest(r) = e /\ Dest(at.base) = e
    BY <1>9, <1>10 DEF Dest
  <2> QED BY <1>1, <1>3, <1>8, <1>9, <2>1, DestApart
<1>12. LinkOp(B(n), W(n)) \in Op
  BY <1>3, NamedOpTyped DEF LinkOp, MkOp
<1> QED BY <1>10, <1>11, <1>12

LEMMA DepsLinkFits ==
    ASSUME CleanReady, NEW n \in Name, DepsLink(n)
    PROVE  FitInv'
<1> DEFINE l == LinkOp(B(n), W(n))
<1>1. /\ phase = "deps" /\ phase \in Planning /\ phase # "idle" /\ phase' = phase
      /\ UNCHANGED <<fs, setupVars>> /\ UNCHANGED at /\ links' = Push(links, l) /\ n \in Deps.rest
      /\ deps' = [deps EXCEPT ![Len(deps)].rest = @ \ {n}]
  BY DEF DepsLink, Planning
<1>2. /\ links \in Seq(Op) /\ PlansFitting(fs, links) /\ DepsFit(deps, at) /\ deps \in Seq(DepsCall)
      /\ deps # <<>>
  BY <1>1, CleanFacts DEF CheckOK, CheckTypeOK
<1>3. Len(deps) \in DOMAIN deps
  BY <1>2, EmptySeq
<1>4. B(n) \in DOMAIN fs
  BY <1>1, <1>2, <1>3 DEF DepsFit, B, Deps
<1>5. Fits(fs, StowRoots, W(n), B(n)) /\ l \in Op
  BY <1>1, <1>4, DepsLinkPlace
<1>6. l.origin = B(n) /\ l.target = W(n)
  BY DEF LinkOp, MkOp
<1> HIDE DEF l
<1>7. PICK M : M = Push(links, l)
  OBVIOUS
<1>8. PlansFitting(fs, M)
  BY <1>2, <1>5, <1>6, <1>7, PushFitting
<1>9. PICK D : D = [deps EXCEPT ![Len(deps)].rest = @ \ {n}]
  OBVIOUS
<1>10. DOMAIN D = DOMAIN deps
       /\ \A k \in DOMAIN deps : D[k].b = deps[k].b /\ D[k].rest \subseteq deps[k].rest
  BY <1>2, <1>9 DEF DepsCall
<1>11. DepsFit(D, at)
  BY <1>2, <1>10 DEF DepsFit
<1>12. PICK c : c = at
  OBVIOUS
<1> QED BY <1>1, <1>7, <1>8, <1>9, <1>11, <1>12, FitKept

LEMMA DepsDirFits ==
    ASSUME CleanReady, NEW n \in Name, DepsDir(n)
    PROVE  FitInv'
<1> DEFINE l == MkdirOp(W(n))
           frame == [a |-> A(n), b |-> B(n), w |-> W(n),
                     common |-> Children(A(n)) \cap Children(B(n)),
                     rest   |-> Children(B(n)) \ Children(A(n))]
<1>1. phase = "deps" /\ phase \in Planning /\ phase # "idle" /\ UNCHANGED <<fs, setupVars>> /\ UNCHANGED at
  BY DEF DepsDir, Shared, Planning
<1>2. CASE ~(Readable(fs, A(n)) /\ Readable(fs, B(n)))
  BY <1>1, <1>2, FitSame DEF DepsDir, CheckDirs
<1>3. CASE Readable(fs, A(n)) /\ Readable(fs, B(n))
  <2>1. phase' = "deps" /\ links' = Push(links, l) /\ deps' = Append(Handled(n), frame)
    BY <1>3 DEF DepsDir, CheckDirs
  <2>2. /\ links \in Seq(Op) /\ PlansFitting(fs, links) /\ DepsFit(deps, at) /\ deps \in Seq(DepsCall)
        /\ deps # <<>> /\ Ready /\ Disk(fs)
    BY <1>1, CleanFacts DEF CheckOK, CheckTypeOK
  <2>3. /\ B(n) \in Path /\ W(n) \in Path /\ fs[at.entry].ref \in Path
        /\ PlainDir(fs, fs[at.entry].ref) /\ IsInDir(B(n), fs[at.entry].ref)
    BY <1>1, <2>2, DepsFacts
  <2>4. l \in Op /\ l.act # "SET_LINK"
    BY <2>3, NamedOpTyped DEF MkdirOp, MkOp
  <2> HIDE DEF l
  <2>5. PICK M : M = Push(links, l)
    OBVIOUS
  <2>6. PlansFitting(fs, M)
    BY <2>2, <2>4, <2>5, PushFitting
  <2>7. frame.b = B(n) /\ \A m \in frame.rest : Append(frame.b, m) \in DOMAIN fs
    BY <2>2, <2>3, RestThere
  <2> HIDE DEF frame
  <2>8. PICK H : H = Handled(n)
    OBVIOUS
  <2>9. H \in Seq(DepsCall) /\ DOMAIN H = DOMAIN deps
        /\ \A k \in DOMAIN deps : H[k].b = deps[k].b /\ H[k].rest = deps[k].rest
    <3>1. H \in Seq(DepsCall) /\ DOMAIN H = DOMAIN deps
      BY <2>2, <2>8, HandledSame
    <3>2. \A k \in DOMAIN deps : H[k].b = deps[k].b /\ H[k].rest = deps[k].rest
      BY <2>2, <2>8 DEF Handled, DepsCall
    <3> QED BY <3>1, <3>2
  <2>10. PICK D : D = Append(H, frame)
    OBVIOUS
  <2>11. \A k \in DOMAIN D : (k \in DOMAIN deps /\ D[k] = H[k]) \/ D[k] = frame
    BY <2>9, <2>10
  <2>12. DepsFit(D, at)
    <3>1. ASSUME NEW k \in DOMAIN D, NEW m \in D[k].rest PROVE Append(D[k].b, m) \in DOMAIN fs
      BY <2>2, <2>7, <2>9, <2>11, <3>1 DEF DepsFit
    <3> QED BY <2>2, <3>1 DEF DepsFit
  <2>13. PICK c : c = at
    OBVIOUS
  <2> QED BY <1>1, <2>1, <2>5, <2>6, <2>8, <2>10, <2>12, <2>13, FitKept
<1> QED BY <1>2, <1>3

\* checkDirs goes on with the calls it has, or some of them.
LEMMA DepsFewerFits ==
    ASSUME CleanReady, phase = "deps", phase' # "exec", UNCHANGED <<fs, setupVars>>,
           phase' = "deps" => UNCHANGED at,
           UNCHANGED links \/ \E l \in Op : links' = Push(links, l) /\ l.act # "SET_LINK",
           phase' = "deps" =>
              \A k \in DOMAIN deps' : k \in DOMAIN deps /\ deps'[k].b = deps[k].b /\ deps'[k].rest = deps[k].rest
    PROVE  FitInv'
<1>1. links \in Seq(Op) /\ PlansFitting(fs, links) /\ DepsFit(deps, at) /\ phase \in Planning
  BY CleanFacts DEF Planning
<1>2. PICK M : M = links'
  OBVIOUS
<1>3. PlansFitting(fs, M)
  BY <1>1, <1>2, PushFitting
<1>4. PICK D : D = deps'
  OBVIOUS
<1>5. PICK c : c = at'
  OBVIOUS
<1>6. phase' = "deps" => DepsFit(D, c)
  BY <1>1, <1>4, <1>5 DEF DepsFit
<1> QED BY <1>1, <1>2, <1>3, <1>4, <1>5, <1>6, FitKept

LEMMA CheckDepsFits ==
    ASSUME CleanReady, NEW n \in Name, CheckDeps(n)
    PROVE  FitInv'
<1>1. CASE DepsHarmless(n) \/ DepsConflict(n)
  <2>1. phase = "deps" /\ UNCHANGED <<fs, setupVars>> /\ UNCHANGED links /\ phase' # "exec"
    BY <1>1 DEF DepsHarmless, DepsConflict, Stop, checkVars, Shared
  <2>2. phase' = "deps" => UNCHANGED at /\ deps' = Handled(n)
    BY <1>1 DEF DepsHarmless, DepsConflict, Stop
  <2>3. deps \in Seq(DepsCall) /\ deps # <<>>
    BY <2>1, CleanFacts DEF CheckOK, CheckTypeOK
  <2>4. \A k \in DOMAIN Handled(n) :
           k \in DOMAIN deps /\ Handled(n)[k].b = deps[k].b /\ Handled(n)[k].rest = deps[k].rest
    BY <2>3 DEF Handled, DepsCall
  <2> QED BY <2>1, <2>2, <2>4, DepsFewerFits
<1> QED BY <1>1, DepsLinkFits, DepsDirFits DEF CheckDeps

LEMMA DepsReturnFits ==
    ASSUME CleanReady, DepsReturn
    PROVE  FitInv'
<1>1. /\ phase = "deps" /\ UNCHANGED <<fs, setupVars>> /\ UNCHANGED at /\ phase' # "exec"
      /\ deps' = SubSeq(deps, 1, Len(deps) - 1)
  BY DEF DepsReturn
<1>2. /\ deps \in Seq(DepsCall) /\ deps # <<>> /\ TidyReady
  BY <1>1, CleanFacts DEF CheckOK, CheckTypeOK
<1>3. \A k \in DOMAIN deps' : k \in DOMAIN deps /\ deps'[k] = deps[k]
  BY <1>1, <1>2
<1>4. MkdirOp(Deps.w) \in Op /\ MkdirOp(Deps.w).act # "SET_LINK"
  <2>1. Deps.w \in Path
    BY <1>1, <1>2, WTidy
  <2> QED BY <2>1, NamedOpTyped DEF MkdirOp, MkOp
<1>5. UNCHANGED links \/ links' = Push(links, MkdirOp(Deps.w))
  BY DEF DepsReturn
<1> QED BY <1>1, <1>3, <1>4, <1>5, DepsFewerFits

LEMMA CheckStepFits ==
    ASSUME CleanReady, CheckStep
    PROVE  FitInv'
<1>1. ~DiveCopyDir
  BY NoCopies DEF CleanReady, DiveCopyDir
<1>2. CASE DiveNotDir \/ Dive \/ CheckReturn
  <2>1. phase \in Planning /\ phase' \notin {"exec", "deps"} /\ UNCHANGED <<fs, setupVars>> /\ UNCHANGED links
    BY <1>2 DEF DiveNotDir, Dive, CheckReturn, Surface, Enter, Stop, checkVars, Planning
  <2> QED BY <2>1, FitSame
<1> QED BY <1>1, <1>2, CheckChildFits, CheckDepsFits, DepsReturnFits DEF CheckStep
-----------------------------------------------------------------------------
(***************************************************************************)
(* The executor: one operation.                                            *)
(***************************************************************************)
LEMMA ExecDoes ==
    ASSUME ExecOK, phase = "exec", ToDo, OpsTidy(todo), ExecStep
    PROVE  \/ phase' # "exec" /\ fs' = fs /\ (phase' = "done" => todo = <<>>)
           \/ /\ phase' = "exec" /\ todo # <<>> /\ Current.act = "REMOVE"
              /\ fs' \in {fs, Drop(fs, Current.origin)}
              /\ IsLink(fs, Current.origin) => fs' = Drop(fs, Current.origin)
              /\ todo' \in {Rest, Append(Rest, RemoveOp(Parent(Current.origin)))}
           \/ /\ phase' = "exec" /\ todo # <<>> /\ Current.act # "REMOVE"
              /\ Current.target \notin DOMAIN fs /\ todo' = Rest
              /\ \E n \in Node :
                    /\ fs' = Put(fs, Current.target, n)
                    /\ \/ Current.act = "MKDIR" /\ n.kind = "dir"
                       \/ Current.act = "SET_LINK" /\ n = Link(Current.origin)
<1>1. CASE ExecEnd
  BY <1>1 DEF ExecEnd
<1>2. ~ExecBegin
  BY DEF ExecBegin, Planned
<1>3. ~(file_copy \/ dir_copy \/ ExecCommand)
  <2> SUFFICES ASSUME todo # <<>>, Current.act \in {"COPY", "COPY_DIR", "EXEC"} PROVE FALSE
    BY DEF file_copy, dir_copy, ExecCommand, Doing
  <2>1. Current.act \in {"REMOVE", "MKDIR", "SET_LINK"}
    BY PlaceTidy
  <2> QED BY <2>1
<1>4. CASE ExecRemoveDir \/ ExecUnlink
  <2> DEFINE p == Current.origin
  <2>1. todo # <<>> /\ Current.act = "REMOVE"
    BY <1>4 DEF ExecRemoveDir, ExecUnlink, Doing
  <2>2. Loc(fs, p) = p
    BY <2>1, RemovePlace DEF ToDo
  <2>3. \/ phase' = "failed" /\ fs' = fs
        \/ \E F \in {fs, Drop(fs, p)} : Removed(p, F) /\ (F = Drop(fs, p) \/ IsDir(fs, p))
    BY <1>4, <2>2 DEF ExecRemoveDir, ExecUnlink, Failed
  <2>4. IsDir(fs, p) => ~IsLink(fs, p)
    BY DEF IsDir, IsLink
  <2>5. \A F : ParentRemoval(F, p) \in {<<>>, <<RemoveOp(Parent(p))>>}
    BY DEF ParentRemoval
  <2>6. Rest \o <<>> = Rest
    BY <2>1, CurrentTyped
  <2>7. Rest \o <<RemoveOp(Parent(p))>> = Append(Rest, RemoveOp(Parent(p)))
    BY <2>1, CurrentTyped
  <2> QED BY <2>1, <2>3, <2>4, <2>5, <2>6, <2>7 DEF Removed
<1>5. CASE ExecMkdir \/ ExecSetLink
  <2> DEFINE t == Current.target
  <2>1. todo # <<>> /\ Current.act # "REMOVE"
    BY <1>5 DEF ExecMkdir, ExecSetLink, Doing
  <2>2. Loc(fs, t) = t
    BY <2>1, MakePlace DEF ToDo
  <2>3. Dir \in Node /\ Dir.kind = "dir" /\ Link(Current.origin) \in Node
    BY <2>1, CurrentTyped, NewNode DEF Dir
  <2>4. CASE ExecMkdir
    BY <2>1, <2>2, <2>3, <2>4 DEF ExecMkdir, Doing, Try, Failed, CanMake, Lexists
  <2>5. CASE ExecSetLink
    BY <2>1, <2>2, <2>3, <2>5 DEF ExecSetLink, Doing, Try, Failed, CanMake, Lexists
  <2> QED BY <1>5, <2>4, <2>5
<1> QED BY <1>1, <1>2, <1>3, <1>4, <1>5 DEF ExecStep

\* Nothing but the place p changes, which is in no stow directory.
Elsewhere(p, G) ==
    /\ Outside(p)
    /\ \A q : q # p => (q \in DOMAIN fs <=> q \in DOMAIN G) /\ (q \in DOMAIN fs => G[q] = fs[q])

LEMMA ExecTurn ==
    ASSUME ExecOK, phase = "exec", ToDo, OpsTidy(todo), ExecStep, phase' = "exec",
           NEW G, G = fs', NEW M, M = todo'
    PROVE  /\ todo # <<>> /\ Current = todo[1] /\ 1 \in DOMAIN todo /\ Elsewhere(Place(Current), G)
           /\ \A q \in DOMAIN G : IsLink(G, q) =>
                 \/ q \in DOMAIN fs /\ G[q] = fs[q]
                 \/ Current.act = "SET_LINK" /\ q = Current.target /\ G[q].ref = Current.origin
           /\ Current.act = "REMOVE" /\ IsLink(fs, Current.origin) => Current.origin \notin DOMAIN G
           /\ M \in Seq(Op)
           /\ \A j \in DOMAIN M : M[j].act = "REMOVE" \/ \E i \in DOMAIN todo : M[j] = todo[i]
           /\ \A i \in DOMAIN todo : i = 1 \/ \E j \in DOMAIN M : M[j] = todo[i]
<1> DEFINE o == Current.origin  t == Current.target  l == RemoveOp(Parent(o))
<1>1. /\ todo # <<>>
      /\ \/ /\ Current.act = "REMOVE" /\ G \in {fs, Drop(fs, o)} /\ M \in {Rest, Append(Rest, l)}
            /\ IsLink(fs, o) => G = Drop(fs, o)
         \/ /\ Current.act # "REMOVE" /\ M = Rest
            /\ \E n \in Node : /\ G = Put(fs, t, n)
                               /\ n.kind = "dir" \/ (Current.act = "SET_LINK" /\ n = Link(o))
  BY ExecDoes
<1>2. todo \in Seq(Op) /\ o \in Path /\ t \in Path /\ Rest \in Seq(Op)
  BY <1>1, CurrentTyped DEF ExecOK, ExecTypeOK
<1>3. 1 \in DOMAIN todo /\ Current = todo[1] /\ Rest = SubSeq(todo, 2, Len(todo))
  BY <1>1, <1>2, EmptySeq DEF Current, Rest
<1>4. Outside(Place(Current))
  BY <1>1, PlaceTidy
<1>5. /\ M \in Seq(Op)
      /\ \A j \in DOMAIN M : M[j].act = "REMOVE" \/ \E i \in DOMAIN todo : M[j] = todo[i]
      /\ \A i \in DOMAIN todo : i = 1 \/ \E j \in DOMAIN M : M[j] = todo[i]
  <2>1. PICK k \in Op : k.act = "REMOVE" /\ (M = Rest \/ M = Append(Rest, k))
    <3>1. Parent(o) \in Path
      <4>1. CASE o = <<>>
        BY <4>1, EmptyPath DEF Parent, Path
      <4> QED BY <1>2, <4>1, ParentPath
    <3>2. l \in Op /\ l.act = "REMOVE"
      BY <3>1, NamedOpTyped DEF RemoveOp, MkOp
    <3> QED BY <1>1, <3>2
  <2>2. PICK R \in Seq(Op) : R = Rest
    BY <1>2
  <2>3. PICK L \in Seq(Op) : L = todo
    BY <1>2
  <2>4. (M = R \/ M = Append(R, k)) /\ R = SubSeq(L, 2, Len(L)) /\ L # <<>> /\ k.act = "REMOVE"
    BY <1>1, <1>3, <2>1, <2>2, <2>3
  <2>5. /\ Len(L) \in Nat \ {0} /\ DOMAIN R = 1..(Len(L) - 1) /\ DOMAIN L = 1..Len(L)
        /\ \A i \in 1..(Len(L) - 1) : R[i] = L[i + 1] /\ i + 1 \in DOMAIN L
    BY <2>4, RestIs
  <2>6. ASSUME NEW i \in DOMAIN L, i # 1 PROVE i - 1 \in DOMAIN R /\ R[i - 1] = L[i]
    <3>1. i - 1 \in 1..(Len(L) - 1) /\ (i - 1) + 1 = i
      BY <2>5, <2>6
    <3> QED BY <2>5, <3>1
  <2>7. M \in Seq(Op) /\ (\A i \in DOMAIN R : i \in DOMAIN M /\ M[i] = R[i])
        /\ \A i \in DOMAIN M : M[i] = k \/ (i \in DOMAIN R /\ M[i] = R[i])
    <3>1. CASE M = R
      BY <3>1
    <3>2. CASE M = Append(R, k)
      BY <3>2
    <3> QED BY <2>4, <3>1, <3>2
  <2>8. \A j \in DOMAIN M : M[j].act = "REMOVE" \/ \E i \in DOMAIN L : M[j] = L[i]
    BY <2>4, <2>5, <2>7
  <2>9. \A i \in DOMAIN L : i = 1 \/ \E j \in DOMAIN M : M[j] = L[i]
    <3> SUFFICES ASSUME NEW i \in DOMAIN L, i # 1 PROVE \E j \in DOMAIN M : M[j] = L[i]
      OBVIOUS
    <3>1. i - 1 \in DOMAIN R /\ R[i - 1] = L[i]
      BY <2>6
    <3> QED BY <2>7, <3>1
  <2> QED BY <2>3, <2>7, <2>8, <2>9
<1>6. CASE Current.act = "REMOVE"
  <2>1. Loc(fs, o) = o
    BY <1>1, <1>6, RemovePlace DEF ToDo
  <2>2. G = fs \/ G = Drop(fs, o)
    BY <1>1, <1>6
  <2>3. \A q : q # o => (q \in DOMAIN fs <=> q \in DOMAIN G) /\ (q \in DOMAIN fs => G[q] = fs[q])
    BY <2>1, <2>2 DEF Drop
  <2>4. \A q \in DOMAIN G : q \in DOMAIN fs /\ G[q] = fs[q]
    BY <2>1, <2>2 DEF Drop
  <2>5. IsLink(fs, o) => o \notin DOMAIN G
    BY <1>1, <1>6, <2>1 DEF Drop
  <2>6. Elsewhere(Place(Current), G)
    BY <1>4, <1>6, <2>3 DEF Elsewhere, Place
  <2> QED BY <1>1, <1>3, <1>5, <2>4, <2>5, <2>6
<1>7. CASE Current.act # "REMOVE"
  <2>1. PICK n \in Node : /\ G = Put(fs, t, n)
                          /\ n.kind = "dir" \/ (Current.act = "SET_LINK" /\ n = Link(o))
    BY <1>1, <1>7
  <2>2. \A q : q # t => (q \in DOMAIN fs <=> q \in DOMAIN G) /\ (q \in DOMAIN fs => G[q] = fs[q])
    BY <2>1 DEF Put
  <2>3. G[t] = n
    BY <2>1 DEF Put
  <2>4. Elsewhere(Place(Current), G)
    BY <1>4, <1>7, <2>2 DEF Elsewhere, Place
  <2>5. \A q \in DOMAIN G : IsLink(G, q) =>
           \/ q \in DOMAIN fs /\ G[q] = fs[q]
           \/ Current.act = "SET_LINK" /\ q = t /\ G[q].ref = o
    BY <2>1, <2>2, <2>3 DEF IsLink, Link
  <2> QED BY <1>1, <1>3, <1>5, <1>7, <2>4, <2>5
<1> QED BY <1>6, <1>7
-----------------------------------------------------------------------------
(***************************************************************************)
(* Links fit: the other steps.                                             *)
(***************************************************************************)
\* What a link leads to is compared with what is in packages only.
LEMMA FitsElse ==
    ASSUME StowDir \in Path, NEW F, NEW G, NEW roots, NEW l, NEW ref \in Path, Fits(F, roots, l, ref),
           \A q \in DOMAIN F : IsInDir(q, StowDir) => q \in DOMAIN G
    PROVE  Fits(G, roots, l, ref)
<1>1. ASSUME NEW p \in Pkg, IsInDir(ref, PkgDir(p)) PROVE IsInDir(ref, StowDir)
  <2>1. PkgDir(p) \in Path /\ IsInDir(PkgDir(p), StowDir)
    BY SetupAssumption, AddPath, InAdd, InSelf DEF PkgDir
  <2> QED BY <1>1, <2>1, InTrans
<1> QED BY <1>1 DEF Fits

\* A step that changes the disk outside the stow directories, or not at all.
LEMMA FitMoved ==
    ASSUME FitInv, TypeOK, phase' \notin {"check", "deps", "dive"}, UNCHANGED <<host, opt, protect_dirs>>,
           NEW G, fs' = G, \A q \in DOMAIN fs : IsInDir(q, StowDir) => q \in DOMAIN G,
           \A q \in DOMAIN G : IsLink(G, q) =>
              (q \in DOMAIN fs /\ G[q] = fs[q]) \/ (G[q].ref \in Path /\ Fits(fs, StowRoots, q, G[q].ref)),
           NEW M, todo' = M, phase' = "exec" => M \in Seq(Op) /\ PlansFitting(fs, M)
    PROVE  FitInv'
<1>1. StowRoots' = StowRoots
  BY DEF StowRoots, Config
<1>2. StowDir \in Path /\ Disk(fs)
  BY SetupAssumption DEF TypeOK
<1>3. ASSUME NEW q \in DOMAIN G, IsLink(G, q) PROVE Fits(G, StowRoots, q, G[q].ref)
  <2>1. G[q].ref \in Path /\ Fits(fs, StowRoots, q, G[q].ref)
    BY <1>2, <1>3 DEF FitInv, LinksFit, IsLink, Disk, Node
  <2> QED BY <1>2, <2>1, FitsElse
<1>4. LinksFit(fs, StowRoots)'
  BY <1>1, <1>3 DEF LinksFit, Fits, IsLink
<1>5. phase' = "exec" => PlansFitting(G, M)
  <2> SUFFICES ASSUME phase' = "exec", NEW j \in DOMAIN M, M[j].act = "SET_LINK"
               PROVE  Fits(G, StowRoots, M[j].target, M[j].origin)
    BY DEF PlansFitting
  <2>1. M \in Seq(Op) /\ PlansFitting(fs, M)
    OBVIOUS
  <2>2. M[j].origin \in Path
    <3>1. M[j] \in Op
      BY <2>1
    <3> QED BY <3>1 DEF Op
  <2>3. Fits(fs, StowRoots, M[j].target, M[j].origin)
    BY <2>1 DEF PlansFitting
  <2> QED BY <1>2, <2>2, <2>3, FitsElse
<1>6. PlansFitting(G, M) <=> PlansFitting(fs, todo)'
  BY <1>1 DEF PlansFitting, Fits
<1> QED BY <1>1, <1>4, <1>5, <1>6 DEF FitInv, CleanHost, TidyHost, TidyDisk, RootsOf, LinksFit, Fits

LEMMA ExecFits ==
    ASSUME TidyAll, FitInv, Exec
    PROVE  FitInv'
<1>1. ExecOK /\ ExecStep /\ ExecPhases /\ TypeOK /\ host \in DOMAIN Hosts /\ Disk(fs)
  BY ExecStepTyped DEF TidyAll, Exec, TypeOK, CheckOK, ExecOK, SetupTypeOK
<1>2. UNCHANGED <<host, opt, protect_dirs>>
  BY <1>1 DEF ExecStep, ExecBegin, ExecRemoveDir, ExecUnlink, ExecMkdir, ExecSetLink, file_copy,
              dir_copy, ExecCommand, ExecEnd, Frame, setupVars, listVars
<1>3. PICK G : G = fs'
  OBVIOUS
<1>4. PICK M : M = todo'
  OBVIOUS
<1>5. StowDir \in StowRoots
  BY <1>1, RootsTyped
<1>6. CASE phase = "check"
  <2>1. fs' = fs /\ (phase' = "exec" => todo' = links)
    BY <1>1, <1>6 DEF ExecStep, ExecBegin, ExecRemoveDir, ExecUnlink, ExecMkdir, ExecSetLink, file_copy,
                dir_copy, ExecCommand, ExecEnd, Doing
  <2>2. PlansFitting(fs, links) /\ links \in Seq(Op)
    BY <1>1, <1>6 DEF FitInv, ExecOK, CheckOK, CheckTypeOK
  <2> QED BY <1>1, <1>2, <1>3, <1>4, <2>1, <2>2, FitMoved DEF ExecPhases
<1>7. CASE phase = "exec"
  <2>1. ToDo /\ OpsTidy(todo) /\ PlansFitting(fs, todo)
    BY <1>7 DEF TidyAll, PlanInv, TidyInv, ToDo, FitInv
  <2>2. CASE phase' # "exec"
    <3>1. fs' = fs
      BY <1>1, <1>7, <2>1, <2>2, ExecDoes
    <3> QED BY <1>1, <1>2, <1>3, <1>4, <2>2, <3>1, FitMoved DEF ExecPhases
  <2>3. CASE phase' = "exec"
    <3>1. /\ todo # <<>> /\ Current = todo[1] /\ 1 \in DOMAIN todo /\ Elsewhere(Place(Current), G)
          /\ \A q \in DOMAIN G : IsLink(G, q) =>
                \/ q \in DOMAIN fs /\ G[q] = fs[q]
                \/ Current.act = "SET_LINK" /\ q = Current.target /\ G[q].ref = Current.origin
          /\ M \in Seq(Op)
          /\ \A j \in DOMAIN M : M[j].act = "REMOVE" \/ \E i \in DOMAIN todo : M[j] = todo[i]
      BY <1>1, <1>3, <1>4, <1>7, <2>1, <2>3, ExecTurn
    <3>2. \A q \in DOMAIN fs : IsInDir(q, StowDir) => q \in DOMAIN G
      BY <1>5, <3>1 DEF Elsewhere, Outside
    <3>3. Current.act = "SET_LINK" =>
             Current.origin \in Path /\ Fits(fs, StowRoots, Current.target, Current.origin)
      BY <1>1, <2>1, <3>1, CurrentTyped DEF PlansFitting
    <3>4. PlansFitting(fs, M)
      <4> SUFFICES ASSUME NEW j \in DOMAIN M, M[j].act = "SET_LINK"
                   PROVE  Fits(fs, StowRoots, M[j].target, M[j].origin)
        BY DEF PlansFitting
      <4>1. PICK i \in DOMAIN todo : M[j] = todo[i]
        BY <3>1
      <4> QED BY <2>1, <4>1 DEF PlansFitting
    <3>5. \A q \in DOMAIN G : IsLink(G, q) =>
             (q \in DOMAIN fs /\ G[q] = fs[q]) \/ (G[q].ref \in Path /\ Fits(fs, StowRoots, q, G[q].ref))
      BY <3>1, <3>3
    <3> QED BY <1>1, <1>2, <1>3, <1>4, <2>3, <3>1, <3>2, <3>4, <3>5, FitMoved
  <2> QED BY <2>2, <2>3
<1> QED BY <1>1, <1>6, <1>7 DEF ExecPhases

LEMMA EditPlace ==
    ASSUME TidyAll, CleanHost(host), UserEdit
    PROVE  /\ phase = "exec" /\ phase' = "exec" /\ UNCHANGED <<setupVars, todo>>
           /\ \E l \in Path : l \notin DOMAIN fs /\ Elsewhere(l, fs')
           /\ \A q \in DOMAIN fs' : IsLink(fs', q) =>
                 \/ q \in DOMAIN fs /\ fs'[q] = fs[q]
                 \/ fs'[q].ref \in Path /\ \A r \in StowRoots : ~IsInDir(fs'[q].ref, r)
<1>1. PICK e \in Hosts[host].edits :
          /\ CanMake(fs, e.place) /\ fs' = Put(fs, Loc(fs, e.place), e.node)
          /\ ~\E d \in StowRoots : IsInDir(Loc(fs, e.place), d)
  BY DEF UserEdit
<1> DEFINE l == Loc(fs, e.place)
<1>2. host \in DOMAIN Hosts /\ Disk(fs) /\ e.place \in Path /\ e.node \in Node
  BY HostTyped, SetupAssumption DEF TidyAll, TypeOK, SetupTypeOK, Edit
<1>3. l \in Path /\ l \notin DOMAIN fs
  BY <1>1, <1>2, LocPath DEF CanMake, Lexists
<1>4. e.node.ref \in Path /\ (e.node.kind = "link" => \A r \in StowRoots : ~IsInDir(e.node.ref, r))
  BY <1>2, RootsTyped DEF CleanHost, Node
<1> HIDE DEF l
<1>5. fs' = Put(fs, l, e.node) /\ Outside(l)
  BY <1>1 DEF l, Outside
<1>6. Elsewhere(l, fs')
  BY <1>5 DEF Elsewhere, Put
<1>7. \A q \in DOMAIN fs' : IsLink(fs', q) =>
         \/ q \in DOMAIN fs /\ fs'[q] = fs[q]
         \/ fs'[q].ref \in Path /\ \A r \in StowRoots : ~IsInDir(fs'[q].ref, r)
  BY <1>4, <1>5 DEF Put, IsLink
<1>8. phase = "exec" /\ phase' = "exec" /\ UNCHANGED <<setupVars, todo>>
  BY DEF UserEdit, execVars
<1> QED BY <1>3, <1>6, <1>7, <1>8

LEMMA EditFits ==
    ASSUME TidyAll, FitInv, UserEdit
    PROVE  FitInv'
<1>1. CleanHost(host) /\ TypeOK /\ host \in DOMAIN Hosts
  BY DEF FitInv, TidyAll, TypeOK, SetupTypeOK
<1>2. PICK G : G = fs'
  OBVIOUS
<1>3. /\ phase = "exec" /\ phase' = "exec" /\ UNCHANGED <<setupVars, todo>>
      /\ \E l \in Path : l \notin DOMAIN fs /\ Elsewhere(l, G)
      /\ \A q \in DOMAIN G : IsLink(G, q) =>
            \/ q \in DOMAIN fs /\ G[q] = fs[q]
            \/ G[q].ref \in Path /\ \A r \in StowRoots : ~IsInDir(G[q].ref, r)
  BY <1>1, <1>2, EditPlace
<1>4. /\ StowDir \in StowRoots /\ StowDir \in Path
      /\ \A p \in Pkg : PkgDir(p) \in Path /\ IsInDir(PkgDir(p), StowDir)
  BY <1>1, RootsTyped, SetupAssumption
<1>5. ASSUME NEW q, NEW ref \in Path, \A r \in StowRoots : ~IsInDir(ref, r)
      PROVE  Fits(fs, StowRoots, q, ref)
  <2>1. \A p \in Pkg : ~IsInDir(ref, PkgDir(p))
    BY <1>4, <1>5, InTrans
  <2> QED BY <1>5, <2>1 DEF Fits
<1>6. \A q \in DOMAIN G : IsLink(G, q) =>
         (q \in DOMAIN fs /\ G[q] = fs[q]) \/ (G[q].ref \in Path /\ Fits(fs, StowRoots, q, G[q].ref))
  BY <1>3, <1>5
<1>7. \A q \in DOMAIN fs : IsInDir(q, StowDir) => q \in DOMAIN G
  BY <1>3, <1>4 DEF Elsewhere, Outside
<1>8. PICK M : M = todo
  OBVIOUS
<1>9. M \in Seq(Op) /\ PlansFitting(fs, M)
  BY <1>1, <1>3, <1>8 DEF FitInv, TypeOK, ExecTypeOK
<1> QED BY <1>1, <1>2, <1>3, <1>6, <1>7, <1>8, <1>9, FitMoved DEF setupVars, listVars

LEMMA FitNext ==
    ASSUME TidyAll, FitInv, [Next]_vars
    PROVE  FitInv'
<1>1. ASSUME UNCHANGED <<fs, host>>, phase' \notin Planning \cup {"exec"}, opt'.force => protect_dirs' = {}
      PROVE  FitInv'
  BY <1>1 DEF FitInv, Planning, CleanHost, TidyHost, TidyDisk, RootsOf, LinksFit, Fits, StowRoots, Config,
              IsLink
<1>2. ASSUME NEW c \in Hosts[host].commands, Start(c) PROVE FitInv'
  <2>1. c.opt \in Options
    BY HostTyped DEF TidyAll, TypeOK, SetupTypeOK, Command
  <2>2. opt'.force = c.opt.force
    BY <1>2, <2>1 DEF Start, Select, Options
  <2>3. c.opt.force => Config.protectDirs = {}
    BY DEF FitInv, CleanHost, Config
  <2>4. protect_dirs' = CheckedDirs(fs, Config.protectDirs) /\ UNCHANGED <<fs, host>> /\ phase' = "begin"
    BY <1>2 DEF Start, Select
  <2> QED BY <1>1, <2>2, <2>3, <2>4 DEF CheckedDirs, Planning
<1>3. ASSUME NEW c, StartUnknown(c) PROVE FitInv'
  BY <1>1, <1>3 DEF StartUnknown, FitInv, setupVars, listVars, Planning
<1>4. CASE BeginPass
  <2>1. phase' \in {"check"} \cup Stopped /\ links = <<>> /\ UNCHANGED <<fs, setupVars, links>>
        /\ UNCHANGED <<host, opt, protect_dirs, stow_dirs>>
    BY <1>4 DEF BeginPass, Enter, Stop, checkVars, TidyAll, PlanInv, setupVars, listVars, Stopped
  <2>2. PlansFitting(fs, links)'
    BY <2>1 DEF PlansFitting
  <2> QED BY <2>1, <2>2 DEF FitInv, CleanHost, TidyHost, TidyDisk, RootsOf, LinksFit, Fits, StowRoots,
             Config, IsLink, Stopped
<1>5. CASE Check
  <2>1. CheckOK /\ CheckStep /\ phase \in Planning
    BY <1>5, CheckStepTyped DEF Check, TidyAll, TypeOK, CheckOK, PlanStep
  <2>2. TidyReady /\ StowDir \in stow_dirs
    BY <2>1, TidyIsStraight DEF TidyReady, TidyAll, PlanInv, Planning
  <2> QED BY <2>1, <2>2, CheckStepFits DEF CleanReady
<1>6. CASE Exec
  BY <1>6, ExecFits
<1>7. CASE Again
  <2>1. opt \in Options
    BY DEF TidyAll, TypeOK, SetupTypeOK
  <2>2. opt'.force = opt.force /\ protect_dirs' = protect_dirs /\ UNCHANGED <<fs, host>> /\ phase' = "begin"
    BY <1>7, <2>1 DEF Again, listVars, Options
  <2> QED BY <1>1, <2>2 DEF FitInv, Planning
<1>8. CASE NextPackage
  <2>1. opt \in Options
    BY DEF TidyAll, TypeOK, SetupTypeOK
  <2>2. opt'.force = opt.force /\ protect_dirs' = protect_dirs /\ UNCHANGED <<fs, host>> /\ phase' = "begin"
    BY <1>8, <2>1 DEF NextPackage, Select, listVars, Options
  <2> QED BY <1>1, <2>2 DEF FitInv, Planning
<1>9. CASE Return \/ Die
  <2>1. phase' = "idle" /\ protect_dirs' = {} /\ UNCHANGED <<fs, host>>
    BY <1>9 DEF Return, Die, Quit
  <2> QED BY <1>1, <2>1 DEF Planning
<1>10. CASE UserEdit
  BY <1>10, EditFits
<1>11. CASE UNCHANGED vars
  <2>1. UNCHANGED <<fs, host, opt, protect_dirs, stow_dirs, phase, links, todo, deps, at>>
    BY <1>11 DEF vars, setupVars, listVars, checkVars, execVars
  <2> QED BY <2>1 DEF FitInv, CleanHost, TidyHost, TidyDisk, RootsOf, LinksFit, Fits, StowRoots, Config,
             IsLink, PlansFitting, DepsFit, match_stow_dirs
<1> QED BY <1>2, <1>3, <1>4, <1>5, <1>6, <1>7, <1>8, <1>9, <1>10, <1>11 DEF Next, Process, User
-----------------------------------------------------------------------------
(***************************************************************************)
(* Links go: what unstow has to remove.                                    *)
(***************************************************************************)
\* Every directory of the package on the way to a link of the package is a
\* directory in the target, too.
LEMMA PlacedFacts ==
    ASSUME CleanReady, phase # "idle", NEW q \in Placed
    PROVE  /\ q \in DOMAIN fs /\ q \in Path /\ IsInDir(q, package) /\ q # package
           /\ IsLink(fs, Dest(q)) /\ fs[Dest(q)].ref = q
           /\ \A a \in Path : IsInDir(a, package) /\ IsInDir(q, a) /\ a # q
                 => IsDir(fs, a) /\ IsDir(fs, Dest(a))
<1>1. q \in DOMAIN fs /\ IsInDir(q, package) /\ IsLink(fs, Dest(q)) /\ fs[Dest(q)].ref = q
  BY DEF Placed, Own
<1>2. Disk(fs) /\ TidyReady /\ package \in Path /\ Target \in Path
  BY CleanFacts
<1>3. q \in Path
  BY <1>1, <1>2 DEF Disk
<1>4. q # package
  <2>1. After(package, package) = <<>> /\ Target \o <<>> = Target /\ Len(Target) \in 0..Len(Target)
        /\ SubSeq(Target, 1, Len(Target)) = Target
    BY <1>2, InSelf, PathLen
  <2>2. Dest(package) = Target
    BY <2>1 DEF Dest
  <2>3. ~IsLink(fs, Target)
    BY <1>2, <2>1, TidyFacts DEF TidyDisk
  <2> QED BY <1>1, <2>2, <2>3
<1>5. ASSUME NEW a \in Path, IsInDir(a, package), IsInDir(q, a), a # q
      PROVE  IsDir(fs, a) /\ IsDir(fs, Dest(a))
  <2>1. IsDir(fs, a)
    BY <1>1, <1>2, <1>5, DirAbove
  <2> DEFINE z == After(q, a)
  <2>2. z \in Path /\ q = a \o z
    BY <1>3, <1>5, InDir
  <2> HIDE DEF z
  <2>3. Dest(q) = Dest(a) \o z /\ Dest(a) \in Path
    BY <1>2, <1>5, <2>2, DestBelow
  <2>4. PICK d \in Path : d = Dest(a)
    BY <2>3
  <2>5. PICK l : l = d \o z
    OBVIOUS
  <2>6. IsInDir(l, d) /\ l \in DOMAIN fs /\ l = Dest(q)
    BY <1>1, <2>2, <2>3, <2>4, <2>5, JoinIn DEF IsLink
  <2>7. Dest(a) # Dest(q)
    BY <1>1, <1>2, <1>3, <1>5, DestApart
  <2>8. IsDir(fs, d)
    BY <1>2, <2>4, <2>6, <2>7, DirAbove
  <2> QED BY <2>1, <2>4, <2>8
<1> QED BY <1>1, <1>3, <1>4, <1>5

\* What a link of the package leads to is seen by check, unless it is ignored.
LEMMA PlacedKid ==
    ASSUME CleanReady, phase # "idle", NEW q \in Placed,
           NEW a \in Path, IsInDir(a, package), IsInDir(q, a), q # a
    PROVE  \E n \in Children(a) : IsInDir(q, Append(a, n))
<1>1. q \in DOMAIN fs /\ q \in Path /\ IsInDir(q, package) /\ q # package /\ ~Exempt(q)
  BY PlacedFacts DEF Placed
<1>2. Disk(fs) /\ package \in Path /\ StowDir \in Path /\ PlainDir(fs, StowDir) /\ Config.nignores = <<>>
      /\ IsInDir(package, StowDir)
  BY CleanFacts
<1>3. PICK n \in Name : Append(a, n) \in DOMAIN fs /\ IsInDir(q, Append(a, n))
  BY <1>1, <1>2, NextName
<1>4. IsInDir(a, StowDir)
  BY <1>2, InTrans
<1>5. n \in Entries(fs, a) /\ Passes(a)
  BY <1>2, <1>3, <1>4, PlainName DEF Passes
<1>6. Append(a, n) \in Path /\ IsInDir(Append(a, n), StowDir)
  BY <1>2, <1>4, AddPath, InAdd
<1>7. ~IgnoredFile(a, n)
  <2> SUFFICES ASSUME IgnoredFile(a, n) PROVE FALSE
    OBVIOUS
  <2>1. ~IsDir(fs, Append(a, n))
    BY <1>2, <1>6, PlainName DEF IgnoredFile, IsDirNode
  <2>2. q = Append(a, n)
    BY <1>1, <1>2, <1>3, <1>6, <2>1, DirAbove
  <2> DEFINE f == After(q, package)
  <2>3. f \in Path /\ q = package \o f
    BY <1>1, <1>2, InDir
  <2>4. f \in FilesOf(fs, package)
    <3>1. IsStrictPrefix(package, q)
      BY <1>1 DEF IsInDir, IsStrictPrefix
    <3>2. fs[q].kind # "dir"
      BY <1>1, <2>1, <2>2 DEF IsDir
    <3> QED BY <1>1, <3>1, <3>2 DEF FilesOf
  <2> DEFINE y == After(a, package)
  <2>5. y \in Path /\ a = package \o y
    BY <1>2, InDir
  <2> HIDE DEF f, y
  <2>6. q = package \o Append(y, n) /\ Append(y, n) \in Path
    BY <2>2, <2>5, JoinAdd, AddPath, <1>2
  <2>7. f = Append(y, n)
    BY <1>2, <2>3, <2>6, JoinCancel
  <2>8. Len(y) + 1 \in DOMAIN f /\ f[Len(y) + 1] = n
    BY <2>5, <2>7 DEF Path
  <2>9. Ignored(f)
    <3>1. CASE match_ignore(n)
      BY <2>8, <3>1 DEF Ignored
    <3>2. CASE match_ignore_file_in_dir(package, q)
      <4>1. PICK g \in Config.ignoreInDir : q = package \o g
        BY <3>2 DEF match_ignore_file_in_dir
      <4>2. g \in Path
        <5>1. Config \in ConfigType
          BY CleanFacts, ConfigTyped DEF CheckOK
        <5> QED BY <4>1, <5>1 DEF ConfigType
      <4>3. f = g
        BY <1>2, <2>3, <4>1, <4>2, JoinCancel
      <4> QED BY <4>1, <4>3 DEF Ignored
    <3> QED BY <2>2, <3>1, <3>2 DEF IgnoredFile
  <2> QED BY <1>1, <2>3, <2>4, <2>9 DEF Exempt
<1> QED BY <1>3, <1>5, <1>7 DEF Children

\* What is ignored is decided by the configuration and the package.
LEMMA ExemptKept ==
    ASSUME UNCHANGED <<host, package>>, Config.nignores = <<>>,
           \A p : IsInDir(p, package) =>
              (p \in DOMAIN fs <=> p \in DOMAIN fs') /\ (p \in DOMAIN fs => fs'[p] = fs[p]),
           NEW q
    PROVE  Exempt(q)' <=> Exempt(q)
<1>1. Config' = Config
  BY DEF Config
<1>2. \A f : Ignored(f)' <=> Ignored(f)
  <2>1. \A d : Passes(d) /\ Passes(d)'
    BY <1>1 DEF Passes
  <2> QED BY <1>1, <2>1 DEF Ignored, Skipped, match_ignore
<1>3. FilesOf(fs', package) = FilesOf(fs, package)
  BY DEF FilesOf, IsInDir, IsStrictPrefix
<1> QED BY <1>2, <1>3 DEF Exempt

\* A step of check leaves it as it is.
LEMMA PlacedSame ==
    ASSUME UNCHANGED <<fs, host, package>>, Config.nignores = <<>>
    PROVE  Placed' = Placed
<1>1. \A q : Exempt(q)' <=> Exempt(q)
  BY ExemptKept
<1>2. \A q : Own(fs, q)' <=> Own(fs, q)
  BY DEF Own, Dest
<1> QED BY <1>1, <1>2 DEF Placed
-----------------------------------------------------------------------------
(***************************************************************************)
(* Links go: the planner.                                                  *)
(***************************************************************************)
UnstowReady == CleanReady /\ opt.unstow /\ UnstowInv

\* A step of check keeps UnstowInv when it takes care of what was to come.
LEMMA UnstowKept ==
    ASSUME UnstowReady, phase \in Planning, phase' \in Planning \cup Stopped,
           UNCHANGED <<fs, setupVars>>,
           NEW M \in Seq(Op), links' = M, Grown(links, M),
           phase' \in Planning => LinksOthers(M),
           phase' \in Planning => \A q \in Placed :
              Coming(q) \/ Diving(q) => ToUnlink(M, q) \/ Coming(q)' \/ Diving(q)'
    PROVE  UnstowInv'
<1>1. links \in Seq(Op) /\ Config.nignores = <<>>
  BY CleanFacts DEF UnstowReady, Planning
<1>2. UNCHANGED <<fs, host, package>> /\ package' = package /\ fs' = fs
  BY DEF setupVars
<1>3. Placed' = Placed
  BY <1>1, <1>2, PlacedSame
<1>4. /\ LinksOthers(M) <=> LinksOthers(links)'
      /\ \A q : ToUnlink(M, q) <=> ToUnlink(links, q)'
  BY <1>2 DEF LinksOthers, Dest, ToUnlink
<1>5. ASSUME NEW q, ToUnlink(links, q) PROVE ToUnlink(M, q)
  <2>1. PICK j \in DOMAIN links : Removes(links, j) /\ links[j].origin = Dest(q)
    BY <1>5 DEF ToUnlink
  <2>2. j \in DOMAIN M /\ M[j] = links[j]
    BY <1>1 DEF Grown
  <2> QED BY <2>1, <2>2 DEF ToUnlink, Removes
<1> DEFINE Cared(q) == ToUnlink(links, q) \/ Coming(q) \/ Diving(q)
<1>6. ASSUME phase' \in Planning, NEW q \in Placed PROVE Cared(q)'
  <2>1. Cared(q)
    BY DEF UnstowReady, UnstowInv, Planning
  <2> QED BY <1>4, <1>5, <1>6, <2>1
<1>7. CASE phase' \in Planning
  <2>1. LinksOthers(links)'
    BY <1>4, <1>7
  <2>2. \A q \in Placed' : Cared(q)'
    BY <1>3, <1>6, <1>7
  <2> QED BY <1>2, <1>7, <2>1, <2>2 DEF UnstowInv, Planning
<1>8. CASE phase' \in Stopped
  BY <1>8 DEF UnstowInv, Stopped
<1> QED BY <1>7, <1>8

LEMMA PushMore ==
    ASSUME NEW L \in Seq(Op), LinksOthers(L), NEW l \in Op,
           l.act = "SET_LINK" => ~IsInDir(l.origin, package)
    PROVE  Push(L, l) \in Seq(Op) /\ Grown(L, Push(L, l)) /\ LinksOthers(Push(L, l))
<1> DEFINE M == Push(L, l)
<1>1. /\ \A i \in DOMAIN L : M[i] = L[i]
      /\ \A i \in DOMAIN M \ DOMAIN L : M[i] = l
  BY PushCases
<1>2. M \in Seq(Op) /\ Grown(L, M)
  BY PushGrows
<1> HIDE DEF M
<1>3. LinksOthers(M)
  BY <1>1 DEF LinksOthers
<1> QED BY <1>2, <1>3 DEF M

\* A child that is done was the only way to what is below it.
LEMMA ChildClean ==
    ASSUME UnstowReady, phase = "check", phase' \in Planning, NEW n \in Name, n \in Top.kids, Done(n),
           UNCHANGED <<fs, setupVars>>,
           NEW M \in Seq(Op), links' = M, Grown(links, M), LinksOthers(M),
           \A q \in Placed : IsInDir(q, Base(n)) => ToUnlink(M, q) \/ Diving(q)'
    PROVE  UnstowInv'
<1>1. stack \in Seq(Call) /\ stack # <<>>
  BY CleanFacts DEF UnstowReady, CheckOK, CheckTypeOK
<1>2. Len(stack) \in DOMAIN stack
  BY <1>1, EmptySeq
<1>3. DOMAIN stack' = DOMAIN stack
      /\ \A k \in DOMAIN stack :
            /\ stack'[k].base = stack[k].base
            /\ \A m \in stack[k].kids : m \in stack'[k].kids \/ (k = Len(stack) /\ m = n)
  BY <1>1, <1>2 DEF Done, Call
<1>4. ASSUME NEW q \in Placed, Coming(q) \/ Diving(q)
      PROVE  ToUnlink(M, q) \/ Coming(q)' \/ Diving(q)'
  <2>1. PICK k \in DOMAIN stack : \E m \in stack[k].kids : IsInDir(q, Append(stack[k].base, m))
    BY <1>4 DEF Coming, Diving
  <2>2. PICK m \in stack[k].kids : IsInDir(q, Append(stack[k].base, m))
    BY <2>1
  <2>3. CASE k = Len(stack) /\ m = n
    BY <2>2, <2>3 DEF Base, Top
  <2>4. CASE m \in stack'[k].kids
    BY <1>3, <2>2, <2>4 DEF Coming
  <2> QED BY <1>3, <2>2, <2>3, <2>4
<1> QED BY <1>4, UnstowKept DEF Planning

\* Where a link of the package is at a child or below it, the target has that
\* link, or a directory.
LEMMA PlacedChild ==
    ASSUME CleanReady, phase = "check", NEW n \in Name, n \in Top.kids,
           NEW q \in Placed, IsInDir(q, Base(n))
    PROVE  /\ Lexists(fs, There(n))
           /\ \/ q = Base(n) /\ OwnLink(n) /\ There(n) = Dest(q)
              \/ /\ q # Base(n) /\ ~OwnLink(n) /\ IsDirNode(Base(n))
                 /\ ~LinkAt(fs, There(n)) /\ DirAt(fs, There(n))
<1>1. /\ TidyReady /\ Disk(fs) /\ phase # "idle" /\ PlainDir(fs, StowDir) /\ StowDir \in Path
      /\ IsInDir(package, StowDir) /\ package \in Path
  BY CleanFacts
<1>2. Base(n) \in Path /\ There(n) \in Path /\ IsInDir(Base(n), package) /\ There(n) = Dest(Base(n))
  BY <1>1, ChildPlace
<1>3. PICK a \in Path : a = Base(n)
  BY <1>2
<1>4. PICK w \in Path : w = There(n)
  BY <1>2
<1>5. w = Dest(a) /\ IsInDir(a, package) /\ IsInDir(q, a)
  BY <1>2, <1>3, <1>4
<1>6. CASE q = a
  <2>1. IsLink(fs, w) /\ fs[w].ref = q
    BY <1>1, <1>5, <1>6, PlacedFacts
  <2>2. Loc(fs, w) = w
    BY <1>1, <2>1, LocOfNode DEF IsLink
  <2>3. Lexists(fs, w) /\ LinkAt(fs, w) /\ LinkBuf(fs, w) = a
    BY <1>6, <2>1, <2>2 DEF Lexists, LinkAt, LinkBuf, IsLink
  <2> QED BY <1>3, <1>4, <1>5, <1>6, <2>3 DEF OwnLink
<1>7. CASE q # a
  <2>1. IsDir(fs, a) /\ IsDir(fs, w)
    BY <1>1, <1>5, <1>7, PlacedFacts
  <2>2. Loc(fs, w) = w
    BY <1>1, <2>1, LocOfNode DEF IsDir
  <2>3. DirAt(fs, w) /\ Lexists(fs, w) /\ ~LinkAt(fs, w)
    BY <1>1, <2>1, <2>2, StatOfDir DEF DirAt, Lexists, LinkAt, IsDir, IsLink
  <2>4. IsInDir(a, StowDir)
    BY <1>1, <1>5, InTrans
  <2>5. DirAt(fs, a)
    BY <1>1, <2>1, <2>4, PlainName
  <2> QED BY <1>3, <1>4, <1>7, <2>3, <2>5 DEF OwnLink, IsDirNode
<1> QED BY <1>6, <1>7

LEMMA StopClean ==
    ASSUME phase' \in Stopped PROVE UnstowInv'
BY DEF Stopped, UnstowInv

\* A child with nothing of the package at its place may be passed over.
LEMMA SkipClean ==
    ASSUME UnstowReady, phase = "check", NEW n \in Name, n \in Top.kids, Skip(n),
           \A q \in Placed : ~IsInDir(q, Base(n))
    PROVE  UnstowInv'
<1>1. UNCHANGED links /\ phase' = "check" /\ UNCHANGED <<fs, setupVars>> /\ Done(n)
  BY DEF Skip
<1>2. links \in Seq(Op) /\ Grown(links, links) /\ LinksOthers(links)
  BY CleanFacts, GrownSelf DEF UnstowReady, UnstowInv
<1> QED BY <1>1, <1>2, ChildClean DEF Planning

\* The link of the package itself is to be removed.
LEMMA OwnClean ==
    ASSUME UnstowReady, NEW n \in Name, ChildOwn(n)
    PROVE  UnstowInv'
<1>1. /\ phase = "check" /\ n \in Top.kids /\ OwnLink(n) /\ phase' = "check" /\ Done(n)
      /\ links' = Push(links, RemoveOp(There(n))) /\ UNCHANGED <<fs, setupVars>>
  BY DEF ChildOwn, Found, Plan, UnstowReady
<1>2. links \in Seq(Op) /\ LinksOthers(links) /\ CleanReady /\ TidyReady
  BY <1>1, CleanFacts DEF UnstowReady, UnstowInv
<1>3. PICK w \in Path : w = There(n)
  BY <1>1, <1>2, ChildPlace
<1>4. PICK l \in Op : l = RemoveOp(w) /\ l.act = "REMOVE" /\ l.origin = w
  <2>1. RemoveOp(w) \in Op
    BY NamedOpTyped
  <2> QED BY <2>1 DEF RemoveOp, MkOp
<1>5. PICK M : M = Push(links, l)
  OBVIOUS
<1>6. M \in Seq(Op) /\ Grown(links, M) /\ LinksOthers(M)
  BY <1>2, <1>4, <1>5, PushMore
<1>7. \E j \in DOMAIN M : SameOp(M[j], l)
  BY <1>2, <1>5, PushCases
<1>8. ASSUME NEW q \in Placed, IsInDir(q, Base(n)) PROVE ToUnlink(M, q)
  <2>1. w = Dest(q)
    BY <1>1, <1>2, <1>3, <1>8, PlacedChild
  <2> QED BY <1>4, <1>7, <2>1 DEF ToUnlink, Removes, SameOp
<1> QED BY <1>1, <1>3, <1>4, <1>5, <1>6, <1>8, ChildClean DEF Planning

\* What is skipped for another reason has no link of the package.
LEMMA ConflictClean ==
    ASSUME UnstowReady, NEW n \in Name,
           ChildConflict(n) \/ ChildProtected(n) \/ ChildForeign(n) \/ ChildMissing(n)
    PROVE  UnstowInv'
<1>1. phase = "check" /\ n \in Top.kids /\ CleanReady
  BY DEF ChildConflict, ChildProtected, ChildForeign, ChildMissing, Missing, LinkedDir, OpenDir, FoundDir,
         FoundFile, Found, UnstowReady
<1>2. Skip(n) \/ Stop("refused")
  BY DEF ChildConflict, ChildProtected, ChildForeign, ChildMissing, Obstacle, UnstowReady
<1>3. CASE Stop("refused")
  BY <1>3, StopClean DEF Stop, Stopped
<1>4. CASE Skip(n)
  <2>1. ASSUME NEW q \in Placed, IsInDir(q, Base(n)) PROVE FALSE
    <3>0. Lexists(fs, There(n)) /\ (OwnLink(n) \/ (IsDirNode(Base(n)) /\ ~LinkAt(fs, There(n))))
      BY <1>1, <2>1, PlacedChild
    <3>1. ~ChildMissing(n) /\ ~ChildConflict(n) /\ ~ChildForeign(n)
      BY <3>0 DEF ChildMissing, Missing, ChildConflict, FoundFile, ChildForeign, LinkedDir, OpenDir, FoundDir
    <3>2. match_protect_dirs(There(n)) /\ (opt.force \/ Stop("refused"))
      BY <3>1 DEF ChildProtected, Obstacle
    <3>3. opt.force => protect_dirs = {}
      BY <1>1, CleanFacts
    <3>4. Stop("refused")
      BY <3>2, <3>3 DEF match_protect_dirs
    <3> QED BY <1>1, <1>4, <3>4 DEF Stop, Skip
  <2> QED BY <1>1, <1>4, <2>1, SkipClean
<1> QED BY <1>2, <1>3, <1>4

LEMMA DirClean ==
    ASSUME UnstowReady, NEW n \in Name, ChildDir(n)
    PROVE  UnstowInv'
<1>1. /\ phase = "check" /\ n \in Top.kids /\ Done(n) /\ UNCHANGED links /\ UNCHANGED <<fs, setupVars>>
      /\ phase' = "dive" /\ at' = [entry |-> There(n), into |-> There(n), base |-> Base(n)]
      /\ ~OwnLink(n) /\ CleanReady
  BY DEF ChildDir, OpenDir, FoundDir, Found, DiveTo, UnstowReady
<1>2. links \in Seq(Op) /\ Grown(links, links) /\ LinksOthers(links)
  BY <1>1, CleanFacts, GrownSelf DEF UnstowReady, UnstowInv
<1>3. at'.entry = There(n) /\ at'.base = Base(n) /\ fs' = fs
  BY <1>1
<1>4. ASSUME NEW q \in Placed, IsInDir(q, Base(n)) PROVE Diving(q)'
  <2>1. q # Base(n) /\ DirAt(fs, There(n))
    BY <1>1, <1>4, PlacedChild
  <2> QED BY <1>1, <1>3, <1>4, <2>1 DEF Diving
<1> QED BY <1>1, <1>2, <1>4, ChildClean DEF Planning

\* Nothing of the package is in the folded directory of another one.
LEMMA FoldedClean ==
    ASSUME UnstowReady, NEW n \in Name, ChildFolded(n)
    PROVE  UnstowInv'
<1> DEFINE w == There(n)  L == Push(links, RemoveOp(w))  M == Push(L, MkdirOp(w))
<1>1. /\ phase = "check" /\ n \in Top.kids /\ Done(n) /\ UNCHANGED <<fs, setupVars>>
      /\ LinkAt(fs, w) /\ ~OwnLink(n) /\ CleanReady
      /\ phase' \in {"deps", "aborted"} /\ (phase' = "deps" => links' = M)
  BY DEF ChildFolded, LinkedDir, OpenDir, FoundDir, Found, CheckDirs, UnstowReady
<1>2. CASE phase' = "aborted"
  BY <1>2, StopClean DEF Stopped
<1>3. CASE phase' = "deps"
  <2>1. links \in Seq(Op) /\ LinksOthers(links) /\ TidyReady
    BY <1>1, CleanFacts DEF UnstowReady, UnstowInv
  <2>2. w \in Path
    BY <1>1, <2>1, ChildPlace
  <2>3. \A q \in Placed : ~IsInDir(q, Base(n))
    BY <1>1, PlacedChild
  <2> HIDE DEF w
  <2>4. /\ RemoveOp(w) \in Op /\ RemoveOp(w).act # "SET_LINK"
        /\ MkdirOp(w) \in Op /\ MkdirOp(w).act # "SET_LINK"
    BY <2>2, NamedOpTyped DEF RemoveOp, MkdirOp, MkOp
  <2>5. L \in Seq(Op) /\ Grown(links, L) /\ LinksOthers(L)
    BY <2>1, <2>4, PushMore
  <2> HIDE DEF L
  <2>6. M \in Seq(Op) /\ Grown(L, M) /\ LinksOthers(M)
    BY <2>4, <2>5, PushMore
  <2> HIDE DEF M
  <2>7. Grown(links, M)
    BY <2>1, <2>5, <2>6, GrownTrans
  <2> QED BY <1>1, <1>3, <2>3, <2>6, <2>7, ChildClean DEF Planning
<1> QED BY <1>1, <1>2, <1>3

LEMMA CheckChildClean ==
    ASSUME UnstowReady, NEW n \in Name, CheckChild(n)
    PROVE  UnstowInv'
<1>1. TidyReady
  BY DEF UnstowReady, CleanReady
<1>2. ~ChildExec(n) /\ ~ChildCopied(n)
  BY <1>1, NoCopies DEF ChildExec, ChildCopied
<1>3. ~ChildTraversed(n) /\ ~ChildAutoTraverse(n)
  BY <1>1, TidyFacts DEF ChildTraversed, ChildAutoTraverse, match_auto_traverse
<1> QED BY <1>2, <1>3, OwnClean, ConflictClean, DirClean, FoldedClean DEF CheckChild

\* A step that leaves the calls of check alone, and the links of the package.
LEMMA CalmClean ==
    ASSUME UnstowReady, phase \in Planning, phase' \in Planning \cup Stopped,
           UNCHANGED <<fs, setupVars>>, UNCHANGED stack,
           \/ UNCHANGED links
           \/ \E l \in Op : /\ links' = Push(links, l)
                            /\ l.act = "SET_LINK" => ~IsInDir(l.origin, package),
           \A q \in Placed : ~Diving(q)
    PROVE  UnstowInv'
<1>1. links \in Seq(Op) /\ LinksOthers(links)
  BY CleanFacts DEF UnstowReady, UnstowInv, Planning
<1>2. PICK M : M = links'
  OBVIOUS
<1>3. M \in Seq(Op) /\ Grown(links, M) /\ LinksOthers(M)
  <2>1. CASE UNCHANGED links
    BY <1>1, <1>2, <2>1, GrownSelf
  <2>2. CASE \E l \in Op : links' = Push(links, l) /\ (l.act = "SET_LINK" => ~IsInDir(l.origin, package))
    <3>1. PICK l \in Op : M = Push(links, l) /\ (l.act = "SET_LINK" => ~IsInDir(l.origin, package))
      BY <1>2, <2>2
    <3> QED BY <1>1, <3>1, PushMore
  <2> QED BY <2>1, <2>2
<1>4. \A q : Coming(q) => Coming(q)'
  BY DEF Coming
<1> QED BY <1>2, <1>3, <1>4, UnstowKept

\* checkDirs links other packages only.
LEMMA CheckDepsClean ==
    ASSUME UnstowReady, NEW n \in Name, CheckDeps(n)
    PROVE  UnstowInv'
<1>1. /\ phase = "deps" /\ phase' \in Planning \cup Stopped /\ UNCHANGED <<fs, setupVars>>
      /\ UNCHANGED stack
  BY DEF CheckDeps, DepsDir, DepsHarmless, DepsConflict, DepsLink, Shared, CheckDirs, Stop, checkVars,
         Planning, Stopped
<1>2. CleanReady /\ TidyReady /\ DepsFit(deps, at) /\ deps \in Seq(DepsCall) /\ deps # <<>>
  BY <1>1, CleanFacts DEF CheckOK, CheckTypeOK, UnstowReady
<1>3. \A q \in Placed : ~Diving(q)
  BY <1>1 DEF Diving
<1>4. CASE DepsHarmless(n) \/ DepsConflict(n)
  <2>1. UNCHANGED links
    BY <1>4 DEF DepsHarmless, DepsConflict, Stop, checkVars
  <2> QED BY <1>1, <1>3, <2>1, CalmClean DEF Planning
<1>5. CASE DepsDir(n)
  <2>1. W(n) \in Path
    BY <1>1, <1>2, WTidy
  <2>2. MkdirOp(W(n)) \in Op /\ MkdirOp(W(n)).act # "SET_LINK"
    BY <2>1, NamedOpTyped DEF MkdirOp, MkOp
  <2>3. UNCHANGED links \/ links' = Push(links, MkdirOp(W(n)))
    BY <1>5 DEF DepsDir, CheckDirs
  <2> QED BY <1>1, <1>3, <2>2, <2>3, CalmClean DEF Planning
<1>6. CASE DepsLink(n)
  <2>1. n \in Deps.rest /\ links' = Push(links, LinkOp(B(n), W(n)))
    BY <1>6 DEF DepsLink
  <2>2. Len(deps) \in DOMAIN deps
    BY <1>2, EmptySeq
  <2>3. B(n) \in DOMAIN fs
    BY <1>2, <2>1, <2>2 DEF DepsFit, B, Deps
  <2>4. LinkOp(B(n), W(n)) \in Op /\ ~IsInDir(B(n), package)
    BY <1>1, <1>2, <2>3, DepsLinkPlace
  <2>5. LinkOp(B(n), W(n)).origin = B(n)
    BY DEF LinkOp, MkOp
  <2> QED BY <1>1, <1>3, <2>1, <2>4, <2>5, CalmClean DEF Planning
<1> QED BY <1>4, <1>5, <1>6 DEF CheckDeps

LEMMA DepsReturnClean ==
    ASSUME UnstowReady, DepsReturn
    PROVE  UnstowInv'
<1>1. /\ phase = "deps" /\ phase' \in Planning /\ UNCHANGED <<fs, setupVars>> /\ UNCHANGED stack
      /\ UNCHANGED links \/ links' = Push(links, MkdirOp(Deps.w))
  BY DEF DepsReturn, Planning
<1>2. TidyReady
  BY DEF UnstowReady, CleanReady
<1>3. Deps.w \in Path
  BY <1>1, <1>2, WTidy
<1>4. MkdirOp(Deps.w) \in Op /\ MkdirOp(Deps.w).act # "SET_LINK"
  BY <1>3, NamedOpTyped DEF MkdirOp, MkOp
<1>5. \A q \in Placed : ~Diving(q)
  BY <1>1 DEF Diving
<1> QED BY <1>1, <1>4, <1>5, CalmClean DEF Planning

\* check is called for a directory: what was below it comes with that call.
LEMMA DiveClean ==
    ASSUME UnstowReady, DiveNotDir \/ DiveCopyDir \/ Dive
    PROVE  UnstowInv'
<1>1. phase = "dive" /\ CleanReady /\ TidyReady /\ links \in Seq(Op) /\ Grown(links, links) /\ LinksOthers(links)
      /\ stack \in Seq(Call) /\ at \in Child
  <2>1. phase = "dive" /\ CleanReady
    BY DEF DiveNotDir, DiveCopyDir, Dive, UnstowReady
  <2>2. links \in Seq(Op) /\ TidyReady /\ stack \in Seq(Call) /\ at \in Child /\ LinksOthers(links)
    BY <2>1, CleanFacts DEF UnstowReady, UnstowInv
  <2> QED BY <2>1, <2>2, GrownSelf
<1>2. CASE DiveNotDir
  <2>1. /\ phase' = "check" /\ UNCHANGED <<fs, setupVars>> /\ UNCHANGED stack
        /\ UNCHANGED links /\ ~DirAt(fs, at.entry)
    BY <1>2 DEF DiveNotDir, Surface
  <2>2. \A q \in Placed : ~Diving(q)
    BY <2>1 DEF Diving
  <2> QED BY <1>1, <2>1, <2>2, CalmClean DEF Planning
<1>3. ~DiveCopyDir
  BY <1>1, NoCopies DEF DiveCopyDir
<1>4. CASE Dive
  <2>1. Enter(at.into, at.base, stack)
    BY <1>4 DEF Dive
  <2>2. CASE phase' \in Stopped
    BY <2>2, StopClean
  <2>3. CASE phase' \notin Stopped
    <3> DEFINE frame == [dir |-> at.into, base |-> at.base, kids |-> Children(at.base)]
    <3>1. phase' = "check" /\ stack' = Append(stack, frame) /\ links' = links /\ UNCHANGED <<fs, setupVars>>
      BY <2>1, <2>3 DEF Enter, Stop, Stopped
    <3>2. frame.base = at.base /\ frame.kids = Children(at.base)
      OBVIOUS
    <3> HIDE DEF frame
    <3>3. PICK S : S = Append(stack, frame)
      OBVIOUS
    <3>4. /\ Len(stack) + 1 \in DOMAIN S /\ S[Len(stack) + 1] = frame
          /\ \A k \in DOMAIN stack : k \in DOMAIN S /\ S[k] = stack[k]
      BY <1>1, <3>3
    <3>5. stack' = S
      BY <3>1, <3>3
    <3>6. ASSUME NEW q, NEW k \in DOMAIN S, NEW n \in S[k].kids, IsInDir(q, Append(S[k].base, n))
          PROVE  Coming(q)'
      BY <3>5, <3>6 DEF Coming
    <3>7. ASSUME NEW q \in Placed, Coming(q) PROVE Coming(q)'
      <4>1. PICK k \in DOMAIN stack : \E n \in stack[k].kids : IsInDir(q, Append(stack[k].base, n))
        BY <3>7 DEF Coming
      <4> QED BY <3>4, <3>6, <4>1
    <3>8. ASSUME NEW q \in Placed, Diving(q) PROVE Coming(q)'
      <4>1. IsInDir(q, at.base) /\ q # at.base /\ at.base \in Path /\ IsInDir(at.base, package)
        BY <1>1, <3>8 DEF Diving, Child, TidyReady, TidyInv, Aligned
      <4>2. PICK n \in Children(at.base) : IsInDir(q, Append(at.base, n))
        BY <1>1, <4>1, PlacedKid
      <4> QED BY <3>2, <3>4, <3>6, <4>2
    <3> QED BY <1>1, <3>1, <3>7, <3>8, UnstowKept DEF Planning
  <2> QED BY <2>2, <2>3
<1> QED BY <1>2, <1>3, <1>4

LEMMA CheckReturnClean ==
    ASSUME UnstowReady, CheckReturn
    PROVE  UnstowInv'
<1>1. /\ phase = "check" /\ phase' = "check" /\ Top.kids = {} /\ Len(stack) > 1
      /\ stack' = SubSeq(stack, 1, Len(stack) - 1) /\ UNCHANGED links /\ UNCHANGED <<fs, setupVars>>
  BY DEF CheckReturn
<1>2. /\ stack \in Seq(Call) /\ stack # <<>>
      /\ links \in Seq(Op) /\ Grown(links, links) /\ LinksOthers(links)
  BY <1>1, CleanFacts, GrownSelf DEF UnstowReady, UnstowInv, CheckOK, CheckTypeOK
<1>3. \A k \in DOMAIN stack : stack[k].kids # {} => k \in DOMAIN stack' /\ stack'[k] = stack[k]
  BY <1>1, <1>2 DEF Top
<1>4. \A q : Coming(q) => Coming(q)'
  BY <1>3 DEF Coming
<1>5. \A q : ~Diving(q)
  BY <1>1 DEF Diving
<1> QED BY <1>1, <1>2, <1>4, <1>5, UnstowKept DEF Planning

\* Every step of the planner takes care of what was still to be looked at.
LEMMA CheckStepClean ==
    ASSUME UnstowReady, CheckStep
    PROVE  UnstowInv'
BY CheckChildClean, CheckDepsClean, DepsReturnClean, DiveClean, CheckReturnClean DEF CheckStep

\* check begins at the package: every link of it is to be looked at.
LEMMA BeginPassClean ==
    ASSUME TypeOK, PlanInv, TidyInv, FitInv, BeginPass
    PROVE  UnstowInv'
<1>1. /\ phase = "begin" /\ Enter(Target, package, <<>>) /\ links = <<>> /\ TidyReady
      /\ StowDir \in stow_dirs
  BY TidyIsStraight DEF BeginPass, PlanInv, TypeOK, CheckOK, TidyReady
<1>2. CleanReady /\ phase # "idle"
  BY <1>1 DEF CleanReady
<1>3. CASE phase' \in Stopped
  BY <1>3, StopClean
<1>4. CASE phase' \notin Stopped
  <2> DEFINE frame == [dir |-> Target, base |-> package, kids |-> Children(package)]
  <2>1. /\ phase' = "check" /\ links' = links /\ stack' = Append(<<>>, frame) /\ UNCHANGED <<fs, host, package>>
    BY <1>1, <1>4 DEF Enter, Stop, Stopped, setupVars
  <2>2. DOMAIN stack' = {1} /\ stack'[1].base = package /\ stack'[1].kids = Children(package)
    BY <2>1
  <2>3. Config.nignores = <<>> /\ package \in Path
    BY <1>2, CleanFacts
  <2>4. Placed' = Placed
    BY <2>1, <2>3, PlacedSame
  <2>5. ASSUME NEW q \in Placed PROVE Coming(q)'
    <3>1. IsInDir(q, package) /\ q # package
      BY <1>2, PlacedFacts
    <3>2. IsInDir(package, package)
      BY <2>3, InSelf
    <3>3. PICK n \in Children(package) : IsInDir(q, Append(package, n))
      BY <1>2, <2>3, <3>1, <3>2, PlacedKid
    <3> QED BY <2>2, <3>3 DEF Coming
  <2>6. DOMAIN links' = {}
    BY <1>1, <2>1
  <2>7. LinksOthers(links)'
    BY <2>6 DEF LinksOthers
  <2> QED BY <2>1, <2>4, <2>5, <2>7 DEF UnstowInv
<1> QED BY <1>3, <1>4
-----------------------------------------------------------------------------
(***************************************************************************)
(* Links go: the executor.                                                 *)
(***************************************************************************)
\* A change out of the packages that makes no link into the package makes
\* nothing more to remove.
LEMMA PlacedShrinks ==
    ASSUME TidyAll, phase # "idle", UNCHANGED <<host, package>>,
           NEW G, G = fs', NEW p \in Path, Elsewhere(p, G),
           \A q \in DOMAIN G : IsLink(G, q) =>
              (q \in DOMAIN fs /\ G[q] = fs[q]) \/ ~IsInDir(G[q].ref, package),
           NEW q \in Placed'
    PROVE  q \in Placed /\ Dest(q) \in DOMAIN G /\ IsLink(fs, Dest(q))
<1>1. /\ host \in DOMAIN Hosts /\ package \in Path /\ IsInDir(package, StowDir) /\ Config.nignores = <<>>
      /\ StowDir \in Path
  BY SetupAssumption DEF TidyAll, TypeOK, SetupTypeOK, PlanInv, TidyInv, TidyHost, Config
<1>2. StowDir \in StowRoots
  BY <1>1, RootsTyped
<1>3. ~IsInDir(p, package)
  BY <1>1, <1>2, InTrans DEF Elsewhere, Outside
<1>4. \A x : IsInDir(x, package) =>
         (x \in DOMAIN fs <=> x \in DOMAIN fs') /\ (x \in DOMAIN fs => fs'[x] = fs[x])
  BY <1>3 DEF Elsewhere
<1>5. Exempt(q)' <=> Exempt(q)
  BY <1>1, <1>4, ExemptKept
<1>6. PICK l : l = Dest(q)
  OBVIOUS
<1>7. q \in DOMAIN G /\ IsInDir(q, package) /\ IsLink(G, l) /\ G[l].ref = q /\ ~Exempt(q)
  <2>1. q \in DOMAIN G /\ Own(fs, q)' /\ ~Exempt(q)'
    BY DEF Placed
  <2>2. IsInDir(q, package) /\ IsLink(G, l) /\ G[l].ref = q
    BY <1>6, <2>1 DEF Own, Dest
  <2> QED BY <1>5, <2>1, <2>2
<1>8. q \in DOMAIN fs
  BY <1>4, <1>7
<1>9. l \in DOMAIN G /\ l \in DOMAIN fs /\ G[l] = fs[l]
  BY <1>7 DEF IsLink
<1>10. IsLink(fs, l) /\ fs[l].ref = q
  BY <1>7, <1>9 DEF IsLink
<1> QED BY <1>6, <1>7, <1>8, <1>9, <1>10 DEF Placed, Own

\* What is left to do takes care of what is left.
LEMMA MovedClean ==
    ASSUME TidyAll, phase = "exec", phase' = "exec", UNCHANGED <<host, package>>,
           NEW G, G = fs', NEW p \in Path, Elsewhere(p, G),
           \A q \in DOMAIN G : IsLink(G, q) =>
              (q \in DOMAIN fs /\ G[q] = fs[q]) \/ ~IsInDir(G[q].ref, package),
           NEW M, M = todo', LinksOthers(M),
           \A q \in Placed : IsLink(fs, Dest(q)) /\ Dest(q) \in DOMAIN G => ToUnlink(M, q)
    PROVE  UnstowInv'
<1>1. \A q \in Placed' : ToUnlink(M, q)
  BY PlacedShrinks
<1>2. /\ LinksOthers(M) <=> LinksOthers(todo)'
      /\ \A q : ToUnlink(M, q) <=> ToUnlink(todo, q)'
  BY DEF LinksOthers, ToUnlink, Dest
<1> QED BY <1>1, <1>2 DEF UnstowInv

LEMMA ExecClean ==
    ASSUME TidyAll, UnstowInv, Exec
    PROVE  UnstowInv'
<1>1. ExecOK /\ ExecStep /\ ExecPhases /\ UNCHANGED setupVars /\ UNCHANGED <<host, package, opt>>
  <2>1. ExecOK /\ ExecStep
    BY DEF TidyAll, Exec, TypeOK, CheckOK, ExecOK
  <2>2. UNCHANGED setupVars
    BY <2>1 DEF ExecStep, ExecBegin, ExecRemoveDir, ExecUnlink, ExecMkdir, ExecSetLink, file_copy,
                dir_copy, ExecCommand, ExecEnd, Frame
  <2> QED BY <2>1, <2>2, ExecStepTyped DEF setupVars
<1>2. CASE ~opt.unstow
  BY <1>1, <1>2 DEF UnstowInv
<1>3. Config.nignores = <<>>
  BY DEF TidyAll, TidyInv, TidyHost, Config
<1>4. CASE opt.unstow /\ phase = "check"
  <2>1. ExecBegin
    BY <1>1, <1>4 DEF ExecStep, ExecRemoveDir, ExecUnlink, ExecMkdir, ExecSetLink, file_copy,
                dir_copy, ExecCommand, ExecEnd, Doing
  <2>2. \/ phase' = "done" /\ Dry'
        \/ phase' = "exec" /\ todo' = links /\ fs' = fs
    BY <1>1, <2>1 DEF ExecBegin, Dry
  <2>3. CASE phase' = "done" /\ Dry'
    BY <2>3 DEF UnstowInv
  <2>4. CASE phase' = "exec" /\ todo' = links /\ fs' = fs
    <3>1. \A k \in DOMAIN stack : stack[k].kids = {}
      <4>1. stack \in Seq(Call) /\ Top.kids = {} /\ Len(stack) = 1
        BY <1>1, <2>1 DEF ExecBegin, Planned, ExecOK, CheckOK, CheckTypeOK
      <4> QED BY <4>1 DEF Top
    <3>2. \A q : ~Coming(q) /\ ~Diving(q)
      BY <1>4, <3>1 DEF Coming, Diving
    <3>3. Placed' = Placed
      BY <1>1, <1>3, <2>4, PlacedSame
    <3>4. PICK M : M = links
      OBVIOUS
    <3>5. LinksOthers(M) /\ \A q \in Placed : ToUnlink(M, q)
      BY <1>4, <3>2, <3>4 DEF UnstowInv
    <3>6. /\ LinksOthers(M) <=> LinksOthers(todo)'
          /\ \A q : ToUnlink(M, q) <=> ToUnlink(todo, q)'
      BY <1>1, <2>4, <3>4 DEF LinksOthers, ToUnlink, Dest
    <3> QED BY <2>4, <3>3, <3>5, <3>6 DEF UnstowInv
  <2> QED BY <2>2, <2>3, <2>4
<1>5. CASE opt.unstow /\ phase = "exec"
  <2>1. ToDo /\ OpsTidy(todo) /\ LinksOthers(todo) /\ \A q \in Placed : ToUnlink(todo, q)
    BY <1>5 DEF TidyAll, PlanInv, TidyInv, ToDo, UnstowInv
  <2>2. CASE phase' = "exec"
    <3>1. PICK G : G = fs'
      OBVIOUS
    <3>2. PICK M : M = todo'
      OBVIOUS
    <3>3. /\ todo # <<>> /\ Current = todo[1] /\ 1 \in DOMAIN todo /\ Elsewhere(Place(Current), G)
          /\ \A q \in DOMAIN G : IsLink(G, q) =>
                \/ q \in DOMAIN fs /\ G[q] = fs[q]
                \/ Current.act = "SET_LINK" /\ q = Current.target /\ G[q].ref = Current.origin
          /\ Current.act = "REMOVE" /\ IsLink(fs, Current.origin) => Current.origin \notin DOMAIN G
          /\ \A j \in DOMAIN M : M[j].act = "REMOVE" \/ \E i \in DOMAIN todo : M[j] = todo[i]
          /\ \A i \in DOMAIN todo : i = 1 \/ \E j \in DOMAIN M : M[j] = todo[i]
      BY <1>1, <1>5, <2>1, <2>2, <3>1, <3>2, ExecTurn
    <3>4. Place(Current) \in Path
      BY <1>1, <3>3, CurrentTyped DEF Place
    <3>5. \A q \in DOMAIN G : IsLink(G, q) =>
             (q \in DOMAIN fs /\ G[q] = fs[q]) \/ ~IsInDir(G[q].ref, package)
      BY <2>1, <3>3 DEF LinksOthers
    <3>6. LinksOthers(M)
      <4> SUFFICES ASSUME NEW j \in DOMAIN M, M[j].act = "SET_LINK" PROVE ~IsInDir(M[j].origin, package)
        BY DEF LinksOthers
      <4>1. PICK i \in DOMAIN todo : M[j] = todo[i]
        BY <3>3
      <4> QED BY <2>1, <4>1 DEF LinksOthers
    <3>7. ASSUME NEW q \in Placed, IsLink(fs, Dest(q)), Dest(q) \in DOMAIN G PROVE ToUnlink(M, q)
      <4>1. PICK i \in DOMAIN todo : todo[i].act = "REMOVE" /\ todo[i].origin = Dest(q)
        BY <2>1 DEF ToUnlink, Removes
      <4>2. i # 1
        BY <3>3, <3>7, <4>1
      <4>3. PICK j \in DOMAIN M : M[j] = todo[i]
        BY <3>3, <4>2
      <4> QED BY <4>1, <4>3 DEF ToUnlink, Removes
    <3> QED BY <1>1, <1>5, <2>2, <3>1, <3>2, <3>3, <3>4, <3>5, <3>6, <3>7, MovedClean
  <2>3. CASE phase' # "exec"
    <3>1. fs' = fs /\ (phase' = "done" => todo = <<>>)
      BY <1>1, <1>5, <2>1, <2>3, ExecDoes
    <3>2. CASE phase' = "done"
      <4>1. Placed' = Placed
        BY <1>1, <1>3, <3>1, PlacedSame
      <4>2. \A q : ~ToUnlink(todo, q)
        BY <3>1, <3>2 DEF ToUnlink
      <4> QED BY <2>1, <3>2, <4>1, <4>2 DEF UnstowInv
    <3>3. CASE phase' # "done"
      BY <1>1, <2>3, <3>3 DEF UnstowInv, ExecPhases
    <3> QED BY <3>2, <3>3
  <2> QED BY <2>2, <2>3
<1> QED BY <1>1, <1>2, <1>4, <1>5 DEF ExecPhases

\* The user makes no links into packages.
LEMMA EditClean ==
    ASSUME TidyAll, FitInv, UnstowInv, UserEdit
    PROVE  UnstowInv'
<1>1. CleanHost(host) /\ host \in DOMAIN Hosts /\ package \in Path
  BY DEF FitInv, TidyAll, TypeOK, SetupTypeOK
<1>2. PICK G : G = fs'
  OBVIOUS
<1>3. PICK M : M = todo'
  OBVIOUS
<1>4. /\ phase = "exec" /\ phase' = "exec" /\ UNCHANGED <<setupVars, todo>>
      /\ \E l \in Path : l \notin DOMAIN fs /\ Elsewhere(l, G)
      /\ \A q \in DOMAIN G : IsLink(G, q) =>
            \/ q \in DOMAIN fs /\ G[q] = fs[q]
            \/ G[q].ref \in Path /\ \A r \in StowRoots : ~IsInDir(G[q].ref, r)
  BY <1>1, <1>2, EditPlace
<1>5. UNCHANGED <<host, package, opt>> /\ M = todo
  BY <1>3, <1>4 DEF setupVars
<1>6. CASE ~opt.unstow
  BY <1>5, <1>6 DEF UnstowInv
<1>7. CASE opt.unstow
  <2>1. LinksOthers(M) /\ \A q \in Placed : ToUnlink(M, q)
    BY <1>4, <1>5, <1>7 DEF UnstowInv
  <2>2. StowDir \in StowRoots /\ StowDir \in Path /\ IsInDir(package, StowDir)
    BY <1>1, <1>4, RootsTyped, SetupAssumption DEF TidyAll, PlanInv
  <2>3. \A q \in DOMAIN G : IsLink(G, q) =>
           (q \in DOMAIN fs /\ G[q] = fs[q]) \/ ~IsInDir(G[q].ref, package)
    BY <1>1, <1>4, <2>2, InTrans
  <2>4. PICK l \in Path : Elsewhere(l, G)
    BY <1>4
  <2> QED BY <1>2, <1>3, <1>4, <1>5, <2>1, <2>3, <2>4, MovedClean
<1> QED BY <1>6, <1>7

CleanAll == TidyAll /\ CleanInv

LEMMA UnstowNext ==
    ASSUME CleanAll, [Next]_vars
    PROVE  UnstowInv'
<1>1. TidyAll /\ FitInv /\ UnstowInv
  BY DEF CleanAll, CleanInv
<1>2. ASSUME phase' \notin Planning \cup {"exec", "done"} PROVE UnstowInv'
  BY <1>2 DEF UnstowInv, Planning
<1>3. CASE \E c \in Hosts[host].commands : Start(c)
  BY <1>2, <1>3 DEF Start, Select, Planning
<1>4. CASE Again \/ NextPackage \/ Return \/ Die
  <2>1. phase' \in {"begin", "idle"}
    BY <1>4 DEF Select, Again, NextPackage, Return, Die, Quit
  <2> QED BY <1>2, <2>1 DEF Planning
<1>5. CASE \E c \in Hosts[host].commands : StartUnknown(c)
  BY <1>2, <1>5 DEF StartUnknown, Planning
<1>6. CASE BeginPass
  BY <1>1, <1>6, BeginPassClean DEF TidyAll
<1>7. CASE Check
  <2>1. CheckOK /\ CheckStep /\ phase \in Planning
    BY <1>1, <1>7, CheckStepTyped DEF Check, TidyAll, TypeOK, CheckOK, PlanStep
  <2>2. opt' = opt
    BY <1>7 DEF Check, CheckStep, CheckChild, ChildOwn, ChildExec, ChildCopied, ChildConflict,
       ChildProtected, ChildDir, ChildTraversed, ChildAutoTraverse, ChildForeign, ChildFolded,
       ChildMissing, Skip, Plan, Obstacle, Stop, CheckDeps, DepsDir, DepsHarmless, DepsConflict,
       DepsLink, DepsReturn, DiveNotDir, DiveCopyDir, Dive, Surface, Enter, CheckReturn, setupVars
  <2>3. CASE opt.unstow
    <3>1. TidyReady /\ StowDir \in stow_dirs
      BY <1>1, <2>1, TidyIsStraight DEF TidyReady, TidyAll, PlanInv, Planning
    <3>2. UnstowReady
      BY <1>1, <2>3, <3>1 DEF UnstowReady, CleanReady
    <3> QED BY <2>1, <3>2, CheckStepClean
  <2>4. CASE ~opt.unstow
    BY <2>2, <2>4 DEF UnstowInv
  <2> QED BY <2>3, <2>4
<1>8. CASE Exec
  BY <1>1, <1>8, ExecClean
<1>9. CASE UserEdit
  BY <1>1, <1>9, EditClean
<1>10. CASE UNCHANGED vars
  <2>1. UNCHANGED <<fs, host, package, opt, phase, stack, deps, at, links, todo>>
        /\ UNCHANGED <<fs, host, package>>
    BY <1>10 DEF vars, setupVars, checkVars, execVars
  <2>2. Placed' = Placed
    <3>1. Config.nignores = <<>>
      BY <1>1 DEF TidyAll, TidyInv, TidyHost, Config
    <3> QED BY <2>1, <3>1, PlacedSame
  <2> QED BY <1>1, <2>1, <2>2 DEF UnstowInv, Dry, LinksOthers, ToUnlink, Removes, Dest, Coming, Diving, DirAt
<1> QED BY <1>3, <1>4, <1>5, <1>6, <1>7, <1>8, <1>9, <1>10 DEF Next, Process, User

\* What CleanInv says of the end of a pass is what Gone asks for.
LEMMA CleanIsGone == CleanAll => Gone
<1> SUFFICES ASSUME CleanAll, phase = "done", ~Dry, opt.unstow,
                    NEW l \in DOMAIN fs, fs[l].kind = "link", IsInDir(fs[l].ref, package)
             PROVE  Exempt(fs[l].ref)
  BY DEF Gone, Finished, Exempt
<1>1. PICK q : q = fs[l].ref
  OBVIOUS
<1>2. Placed = {}
  BY DEF CleanAll, CleanInv, UnstowInv
<1>3. PICK p \in Pkg : package = PkgDir(p)
  BY DEF CleanAll, TidyAll, TidyInv
<1>4. IsLink(fs, l) /\ IsInDir(q, package)
  BY <1>1 DEF IsLink
<1>5. Fits(fs, StowRoots, l, q)
  BY <1>1, <1>4 DEF CleanAll, CleanInv, FitInv, LinksFit
<1>6. l = Dest(q) /\ q \in DOMAIN fs
  BY <1>3, <1>4, <1>5 DEF Fits, Dest
<1>7. Own(fs, q)
  BY <1>1, <1>4, <1>6 DEF Own
<1> QED BY <1>1, <1>2, <1>6, <1>7 DEF Placed

\* On such a host an unstow that ends with success has left no link into the
\* package, wherever in the target it was, except to a file that the patterns
\* tell it to ignore: check comes to every name of the package or finds why
\* there is no link, and exec_list stops at the first REMOVE that fails.
THEOREM UnstowRemovesAll == Spec /\ CleanHost(host) => []Gone
<1>1. Init /\ CleanHost(host) => CleanAll
  <2> SUFFICES ASSUME Init, CleanHost(host) PROVE CleanAll
    OBVIOUS
  <2>1. TidyAll
    BY TypeInit, PlanInit, TidyInit DEF CleanHost, TidyAll
  <2>2. phase = "idle" /\ fs \in Hosts[host].disks /\ protect_dirs = {}
    BY DEF Init
  <2>3. host \in DOMAIN Hosts
    BY DEF Init
  <2>4. StowRoots = RootsOf(host)
    BY <2>3, RootsTyped
  <2>5. LinksFit(fs, StowRoots)
    BY <2>2, <2>4 DEF CleanHost
  <2> QED BY <2>1, <2>2, <2>5 DEF CleanAll, CleanInv, FitInv, UnstowInv
<1>2. CleanAll /\ [Next]_vars => CleanAll'
  <2>1. TidyAll /\ [Next]_vars => TidyAll'
    BY TypeNext, TidyIsStraight, PlanNext, TidyNext DEF TidyAll
  <2> QED BY <2>1, FitNext, UnstowNext DEF CleanAll, CleanInv
<1> QED BY <1>1, <1>2, CleanIsGone, PTL DEF Spec
-----------------------------------------------------------------------------
(***************************************************************************)
(* Unstowing a package that is installed completely.                       *)
(***************************************************************************)
UndoReady == TidyReady /\ FullPackages(fs) /\ FilesOf(fs, package) \subseteq Shown(fs, package)

LEMMA SameHead ==
    ASSUME NEW a \in Path, NEW b \in Path, NEW z \in Path, a \o z = b \o z
    PROVE  a = b
<1>1. Len(a \o z) = Len(a) + Len(z) /\ Len(b \o z) = Len(b) + Len(z)
  BY JoinPath
<1>2. Len(a) \in Nat /\ Len(b) \in Nat /\ Len(z) \in Nat
  BY PathLen
<1>3. Len(a) = Len(b)
  BY <1>1, <1>2
<1>4. SubSeq(a \o z, 1, Len(a)) = a
  BY JoinIn, InDir, JoinPath
<1>5. SubSeq(b \o z, 1, Len(b)) = b
  BY JoinIn, InDir, JoinPath
<1> QED BY <1>3, <1>4, <1>5

\* The link that check finds for a directory of such a package is its own:
\* what it shows below is the files of the package.
LEMMA FullyLinked ==
    ASSUME UndoReady, NEW p \in Pkg, package = PkgDir(p),
           NEW a \in Path, IsStrictPrefix(package, a), IsDir(fs, a),
           NEW w, w = Dest(a), IsLink(fs, w), PlainDir(fs, fs[w].ref)
    PROVE  fs[w].ref = a
<1>1. Disk(fs) /\ package \in Path /\ Target \in Path
  BY TidyFacts DEF UndoReady
<1>2. PICK q \in DOMAIN fs : IsInDir(q, a) /\ ~IsDir(fs, q)
  BY DEF UndoReady, FullPackages, IsDir
<1>3. q \in Path /\ IsInDir(a, package)
  BY <1>1, <1>2 DEF Disk, IsStrictPrefix, IsInDir
<1> DEFINE z == After(q, a)  f == After(q, package)
<1>4. q = a \o z /\ z \in Path
  BY <1>2, <1>3, InDir
<1>5. IsInDir(q, package)
  BY <1>1, <1>2, <1>3, InTrans
<1>6. q # package
  BY <1>2, <1>3, <1>5, InAnti DEF IsStrictPrefix
<1>7. f \in FilesOf(fs, package)
  BY <1>2, <1>5, <1>6 DEF FilesOf, IsInDir, IsStrictPrefix, IsDir
<1>8. Lead(fs, Target \o f) = package \o f
  BY <1>7 DEF UndoReady, Shown, Shows
<1>9. package \o f = q /\ Target \o f = Dest(q)
  BY <1>1, <1>3, <1>5, InDir DEF Dest
<1>10. Dest(q) = w \o z
  BY <1>1, <1>3, <1>4, DestBelow
<1>11. z # <<>>
  <2> SUFFICES ASSUME z = <<>> PROVE FALSE
    OBVIOUS
  <2> QED BY <1>2, <1>4
<1> HIDE DEF z, f
<1>12. Loc(fs, w \o z) = fs[w].ref \o z
  BY <1>1, <1>4, <1>11, LocBelowLink
<1>13. fs[w].ref \in Path
  BY <1>1 DEF Disk, Node, IsLink
<1>14. fs[w].ref \o z \in Path /\ IsInDir(fs[w].ref \o z, fs[w].ref)
  BY <1>4, <1>13, JoinIn, JoinPath
<1>15. ~IsLink(fs, fs[w].ref \o z)
  BY <1>14 DEF PlainDir, IsLink
<1>16. Lead(fs, w \o z) = fs[w].ref \o z
  BY <1>12, <1>14, <1>15 DEF Lead, Follow
<1>17. fs[w].ref \o z = a \o z
  BY <1>4, <1>8, <1>9, <1>10, <1>16
<1> QED BY <1>4, <1>13, <1>17, SameHead

\* checkDirs is not called for it.
LEMMA NothingFolded ==
    ASSUME UndoReady, StowDir \in stow_dirs, OnlyRemoves(links), NEW n \in Name, ChildFolded(n)
    PROVE  phase' = "aborted"
<1> DEFINE a == Base(n)  w == There(n)
<1>1. phase = "check" /\ n \in Top.kids /\ LinkedDir(n) /\ OtherPackage(n) /\ ~OwnLink(n)
  BY DEF ChildFolded, LinkedDir, OpenDir, FoundDir, Found
<1>2. \/ Readable(fs, Buf(n))
      \/ phase' = "aborted"
  BY DEF ChildFolded, CheckDirs
<1> SUFFICES ASSUME Readable(fs, Buf(n)) PROVE FALSE
  BY <1>2
<1>3. Ready
  BY DEF UndoReady, TidyReady, Ready
<1>4. IsLink(fs, w) /\ fs[w].ref = Buf(n) /\ PlainDir(fs, fs[w].ref) /\ IsDir(fs, a)
  BY <1>1, <1>3, FoldedPlain
<1>5. a \in Path /\ IsInDir(a, package) /\ w = Dest(a)
  BY <1>1, ThereTidy DEF UndoReady, Aligned, Dest
<1>6. a # package
  <2>1. w # Target
    BY <1>1, ThereTidy DEF UndoReady
  <2>2. package \in Path /\ Target \in Path
    BY TidyFacts DEF UndoReady
  <2>3. After(package, package) = <<>> /\ Target \o <<>> = Target
    BY <2>2, InSelf
  <2> QED BY <1>5, <2>1, <2>3 DEF Dest
<1>7. IsStrictPrefix(package, a)
  BY <1>5, <1>6 DEF IsInDir, IsStrictPrefix
<1>8. PICK p \in Pkg : package = PkgDir(p)
  BY <1>1 DEF UndoReady, TidyReady, TidyInv
<1> HIDE DEF a, w
<1>9. fs[w].ref = a
  BY <1>4, <1>5, <1>7, <1>8, FullyLinked
<1>10. IsDir(fs, Top.dir) /\ Top.dir \in Path /\ Disk(fs)
  BY <1>1, NothingUnfolded DEF UndoReady, OnlyRemoves, Removes
<1>11. Loc(fs, w) = w
  BY <1>10, LocInDir DEF There, w
<1> QED BY <1>1, <1>4, <1>9, <1>11 DEF OwnLink, LinkAt, LinkBuf, a, w

LEMMA PushRemoves ==
    ASSUME NEW L \in Seq(Op), OnlyRemoves(L), NEW p \in Path
    PROVE  OnlyRemoves(Push(L, RemoveOp(p)))
<1>1. RemoveOp(p) \in Op /\ RemoveOp(p).act = "REMOVE"
  BY NamedOpTyped, EmptyPath DEF RemoveOp, MkOp
<1> DEFINE l == RemoveOp(p)  M == Push(L, l)
<1> HIDE DEF l
<1>2. \A i \in DOMAIN M : (i \in DOMAIN L /\ M[i] = L[i]) \/ M[i] = l
  <2>1. l \in Op
    BY <1>1 DEF l
  <2> QED BY <2>1, PushCases
<1> HIDE DEF M
<1>3. \A i \in DOMAIN M : M[i].act = "REMOVE"
  BY <1>1, <1>2 DEF OnlyRemoves, Removes, l
<1> QED BY <1>3 DEF OnlyRemoves, Removes, M, l

LEMMA CheckUndoes ==
    ASSUME UndoReady, StowDir \in stow_dirs, opt.unstow, ~opt.force,
           phase \in {"check", "dive"}, OnlyRemoves(links), CheckStep
    PROVE  phase' # "deps" /\ OnlyRemoves(links')
<1>1. ASSUME NEW n \in Name, CheckChild(n) PROVE phase' # "deps" /\ OnlyRemoves(links')
  <2>1. phase = "check" /\ n \in Top.kids
    BY <1>1 DEF CheckChild, ChildOwn, ChildExec, ChildCopied, ChildConflict, ChildProtected, ChildDir,
         ChildTraversed, ChildAutoTraverse, ChildForeign, ChildFolded, ChildMissing, LinkedDir, OpenDir,
         FoundDir, FoundFile, Found, Missing
  <2>2. CASE ChildOwn(n)
    <3>1. There(n) \in Path /\ links \in Seq(Op)
      BY <2>1, ThereTidy, TidyFacts DEF UndoReady
    <3> QED BY <2>1, <2>2, <3>1, PushRemoves DEF ChildOwn, Plan
  <2>3. CASE ChildFolded(n)
    <3>1. phase' = "aborted"
      BY <2>3, NothingFolded
    <3>2. UNCHANGED links
      BY <2>3, <3>1 DEF ChildFolded, CheckDirs
    <3> QED BY <3>1, <3>2 DEF OnlyRemoves, Removes
  <2>4. ~ChildExec(n)
    BY NoCopies DEF ChildExec, UndoReady
  <2>5. CASE ChildCopied(n) \/ ChildConflict(n) \/ ChildProtected(n) \/ ChildForeign(n) \/ ChildMissing(n)
    <3>1. UNCHANGED links /\ phase' \in {phase, "refused"}
      BY <2>5 DEF ChildCopied, ChildConflict, ChildProtected, ChildForeign, ChildMissing, Obstacle,
           Skip, Stop, checkVars
    <3> QED BY <2>1, <3>1 DEF OnlyRemoves, Removes
  <2>6. CASE ChildDir(n) \/ ChildTraversed(n) \/ ChildAutoTraverse(n)
    BY <2>6 DEF ChildDir, ChildTraversed, ChildAutoTraverse, DiveTo, OnlyRemoves, Removes
  <2> QED BY <1>1, <2>2, <2>3, <2>4, <2>5, <2>6 DEF CheckChild
<1>2. ~\E n \in Name : CheckDeps(n)
  BY DEF CheckDeps, DepsDir, DepsHarmless, DepsConflict, DepsLink, Shared
<1>3. ~DepsReturn /\ ~DiveCopyDir
  BY NoCopies DEF DepsReturn, DiveCopyDir, UndoReady
<1>4. CASE DiveNotDir \/ Dive \/ CheckReturn
  BY <1>4 DEF DiveNotDir, Dive, CheckReturn, Surface, Enter, Stop, checkVars, OnlyRemoves, Removes
<1> QED BY <1>1, <1>2, <1>3, <1>4 DEF CheckStep

LEMMA RootAbove ==
    ASSUME NEW q \in Path
    PROVE  IsPrefix(<<>>, q)
<1>1. IsInDir(<<>> \o q, <<>>)
  BY EmptyPath, JoinIn
<1>2. <<>> \o q = q
  OBVIOUS
<1> QED BY <1>1, <1>2 DEF IsInDir

LEMMA RestEmpty ==
    ASSUME NEW F, NEW G, NEW L \in Seq(Op), L # <<>>, OnlyRemoves(L), EmptyDirs(F, L),
           DOMAIN G \subseteq DOMAIN F, \A q \in DOMAIN G : G[q] = F[q]
    PROVE  OnlyRemoves(SubSeq(L, 2, Len(L))) /\ EmptyDirs(G, SubSeq(L, 2, Len(L)))
<1> DEFINE R == SubSeq(L, 2, Len(L))
<1>1. \A j \in DOMAIN R : \E i \in DOMAIN L : R[j] = L[i]
  <2>1. DOMAIN R = 1..(Len(L) - 1) /\ \A i \in 1..(Len(L) - 1) : R[i] = L[i + 1] /\ i + 1 \in DOMAIN L
    BY RestIs
  <2> QED BY <2>1
<1> HIDE DEF R
<1>2. \A d : IsDir(G, d) => IsDir(F, d)
  BY DEF IsDir
<1> QED BY <1>1, <1>2 DEF OnlyRemoves, EmptyDirs, Removes, R

LEMMA MoreEmpty ==
    ASSUME NEW G, NEW R \in Seq(Op), OnlyRemoves(R), EmptyDirs(G, R),
           NEW P \in Path, P # <<>>, \A q \in DOMAIN G : ~IsStrictPrefix(P, q)
    PROVE  OnlyRemoves(Append(R, RemoveOp(P))) /\ EmptyDirs(G, Append(R, RemoveOp(P)))
<1>1. RemoveOp(P) \in Op /\ RemoveOp(P).act = "REMOVE" /\ RemoveOp(P).origin = P
  BY NamedOpTyped, EmptyPath DEF RemoveOp, MkOp
<1> DEFINE l == RemoveOp(P)  M == Append(R, l)
<1> HIDE DEF l
<1>2. \A j \in DOMAIN M : (j \in DOMAIN R /\ M[j] = R[j]) \/ M[j] = l
  BY <1>1 DEF l
<1> HIDE DEF M
<1> QED BY <1>1, <1>2 DEF OnlyRemoves, EmptyDirs, Removes, M, l

\* The directory of what is removed: it is put on the list when it is empty,
\* which the root never is.
LEMMA RemovedEmpty ==
    ASSUME Fit, todo # <<>>, OnlyRemoves(todo), EmptyDirs(fs, todo), Current.origin # <<>>,
           NEW G, G = Drop(fs, Current.origin), Disk(G), Removed(Current.origin, G),
           StowDir \in StowRoots
    PROVE  OnlyRemoves(todo') /\ EmptyDirs(G, todo')
<1> DEFINE p == Current.origin  P == Parent(p)
<1>1. 1 \in DOMAIN todo /\ Current = todo[1] /\ Disk(fs) /\ todo \in Seq(Op)
      /\ Rest = SubSeq(todo, 2, Len(todo)) /\ Rest \in Seq(Op) /\ Len(todo) \in Nat
  BY FitFirst, RestIs
<1>2. Current.act = "REMOVE"
  BY <1>1 DEF OnlyRemoves, Removes
<1>3. p \in Path /\ p \in DOMAIN fs /\ Loc(fs, p) = p
  BY <1>2, RemovePlace DEF Fit, ToDo
<1>4. todo' = Rest \o ParentRemoval(G, p)
  BY DEF Removed
<1>5. P \in Path /\ P # p /\ IsDir(fs, P)
  <2>1. P \in Path /\ Len(P) = Len(p) - 1 /\ Len(p) \in Nat /\ Len(p) # 0
    BY <1>3, ParentPath, PathLen, EmptySeq DEF Path
  <2>2. Len(p) - 1 \in 0..(Len(p) - 1) /\ P = SubSeq(p, 1, Len(p) - 1)
    BY <2>1 DEF Parent
  <2> QED BY <1>1, <1>3, <2>1, <2>2 DEF Disk
<1>6. DOMAIN G = DOMAIN fs \ {p} /\ \A q \in DOMAIN G : G[q] = fs[q]
  BY <1>3 DEF Drop
<1> HIDE DEF P
<1>7. OnlyRemoves(Rest) /\ EmptyDirs(G, Rest)
  <2>1. DOMAIN G \subseteq DOMAIN fs
    BY <1>6
  <2> QED BY <1>1, <1>6, <2>1, RestEmpty
<1>8. CASE ParentRemoval(G, p) = <<>>
  <2>1. Rest \o <<>> = Rest
    BY <1>1
  <2> QED BY <1>4, <1>7, <1>8, <2>1
<1>9. CASE ParentRemoval(G, p) # <<>>
  <2>1. ParentRemoval(G, p) = <<RemoveOp(P)>> /\ Entries(G, P) = {}
    BY <1>9 DEF ParentRemoval, P
  <2>2. IsDir(G, P)
    BY <1>5, <1>6 DEF IsDir
  <2>3. Stat(G, P) = P
    <3>1. Loc(G, P) = P
      BY <2>2, LocOfNode DEF IsDir
    <3> QED BY <1>5, <2>2, <3>1, StatOfDir
  <2>4. \A n \in Name : Append(P, n) \notin DOMAIN G
    BY <2>1, <2>3 DEF Entries
  <2>5. \A q \in DOMAIN G : ~IsStrictPrefix(P, q)
    BY <1>5, <2>4, NextName DEF IsStrictPrefix, IsInDir
  <2>6. P # <<>>
    <3>1. Place(todo[1]) = p
      BY <1>1, <1>2 DEF Place
    <3>2. ~IsInDir(p, StowDir)
      BY <1>1, <3>1 DEF Fit, OpsTidy, Outside
    <3>3. StowDir \in Path /\ StowDir \in DOMAIN fs
      BY DEF Fit, PlainDir, IsDir
    <3>4. StowDir # p
      BY <3>2, <3>3, InSelf
    <3>5. StowDir \in DOMAIN G
      BY <1>6, <3>3, <3>4
    <3>6. StowDir # <<>>
      BY <1>3, <3>2, RootAbove DEF IsInDir
    <3>7. IsStrictPrefix(<<>>, StowDir)
      BY <3>3, <3>6, RootAbove DEF IsStrictPrefix
    <3> QED BY <2>5, <3>5, <3>7
  <2>7. RemoveOp(P) \in Op
    BY <1>5, NamedOpTyped
  <2>8. Rest \o <<RemoveOp(P)>> = Append(Rest, RemoveOp(P))
    BY <1>1, <2>7
  <2>9. OnlyRemoves(Append(Rest, RemoveOp(P))) /\ EmptyDirs(G, Append(Rest, RemoveOp(P)))
    BY <1>1, <1>5, <1>7, <2>5, <2>6, MoreEmpty
  <2> QED BY <1>4, <2>1, <2>8, <2>9
<1> QED BY <1>8, <1>9

LEMMA OpenParent ==
    ASSUME NEW F, Disk(F), OpenDisk(F), NEW p \in DOMAIN F, p # <<>>
    PROVE  Changeable(F, p)
<1>1. p \in Path
  BY DEF Disk
<1>2. Len(p) \in Nat /\ Len(p) # 0
  BY <1>1, PathLen, EmptySeq DEF Path
<1>3. Len(p) - 1 \in 0..(Len(p) - 1)
  BY <1>2
<1>4. IsDir(F, Parent(p))
  BY <1>3 DEF Disk, Parent
<1> QED BY <1>4 DEF Changeable, OpenDisk, IsDir

\* The links of the package and the directories they leave empty can all be
\* removed.
LEMMA ExecUndoes ==
    ASSUME Fit, OnlyRemoves(todo), EmptyDirs(fs, todo), OpenDisk(fs), StowDir \in StowRoots, ExecStep
    PROVE  phase' # "failed" /\ (phase' = "exec" => OnlyRemoves(todo') /\ EmptyDirs(fs', todo'))
<1> DEFINE p == Current.origin
<1>1. CASE todo = <<>>
  <2>1. ExecEnd
    BY <1>1 DEF ExecStep, ExecBegin, ExecRemoveDir, ExecUnlink, ExecMkdir, ExecSetLink, file_copy,
         dir_copy, ExecCommand, Doing, Fit, Planned
  <2> QED BY <2>1 DEF ExecEnd
<1>2. CASE todo # <<>>
  <2>1. 1 \in DOMAIN todo /\ Current = todo[1] /\ Disk(fs) /\ todo \in Seq(Op)
        /\ Rest = SubSeq(todo, 2, Len(todo)) /\ Rest \in Seq(Op) /\ Len(todo) \in Nat
    BY <1>2, FitFirst, RestIs
  <2>2. Current.act = "REMOVE"
    BY <2>1 DEF OnlyRemoves, Removes
  <2>3. p \in Path /\ p \in DOMAIN fs /\ Loc(fs, p) = p
    BY <1>2, <2>2, RemovePlace DEF Fit, ToDo
  <2>4. ExecRemoveDir \/ ExecUnlink
    BY <1>2, <2>2 DEF ExecStep, ExecBegin, ExecMkdir, ExecSetLink, file_copy, dir_copy, ExecCommand,
         ExecEnd, Doing, Fit, Planned
  <2>5. phase' = "failed" => Breaks
    BY ExecWorks
  <2>6. ExecStep => Disk(fs')
    BY ExecStepTyped DEF Fit, ExecOK, CheckOK
  <2>7. CASE IsDir(fs, p)
    <3>1. ExecRemoveDir
      BY <2>3, <2>4, <2>7 DEF ExecUnlink
    <3>2. p # <<>> /\ \A q \in DOMAIN fs : ~IsStrictPrefix(p, q)
      BY <2>1, <2>7 DEF EmptyDirs
    <3>3. CanRmdir(fs, p)
      BY <2>1, <2>3, <2>7, <3>2, OpenParent DEF CanRmdir
    <3>4. CASE keep_dir(fs, p)
      <4>1. Removed(p, fs)
        BY <3>1, <3>4 DEF ExecRemoveDir
      <4>2. fs' = fs /\ todo' = Rest /\ phase' = phase
        <5>1. ParentRemoval(fs, p) = <<>>
          BY <3>4 DEF ParentRemoval
        <5>2. Rest \o <<>> = Rest
          BY <2>1
        <5> QED BY <4>1, <5>1, <5>2 DEF Removed
      <4>3. OnlyRemoves(Rest) /\ EmptyDirs(fs, Rest)
        BY <1>2, <2>1, RestEmpty
      <4> QED BY <4>2, <4>3 DEF Fit
    <3>5. CASE ~keep_dir(fs, p)
      <4>1. Removed(p, Drop(fs, p))
        BY <3>1, <3>3, <3>5 DEF ExecRemoveDir
      <4>2. fs' = Drop(fs, p) /\ phase' = phase
        BY <4>1 DEF Removed
      <4>3. OnlyRemoves(todo') /\ EmptyDirs(Drop(fs, p), todo')
        BY <1>2, <2>6, <3>2, <4>1, <4>2, RemovedEmpty
      <4> QED BY <4>2, <4>3 DEF Fit
    <3> QED BY <3>4, <3>5
  <2>8. CASE ~IsDir(fs, p)
    <3>1. ExecUnlink
      BY <2>3, <2>4, <2>8 DEF ExecRemoveDir
    <3>2. phase' # "failed"
      <4>1. ~Breaks
        <5>1. 1 \in 1..Len(todo)
          BY <1>2, <2>1, EmptySeq
        <5> QED BY <2>1, <2>8, <5>1 DEF Breaks, OnlyRmdirs
      <4> QED BY <2>5, <4>1
    <3>3. CanUnlink(fs, p) /\ Removed(p, Drop(fs, p))
      BY <3>1, <3>2 DEF ExecUnlink, Failed
    <3>4. p # <<>>
      BY <2>3, <3>3 DEF CanUnlink, Changeable
    <3>5. fs' = Drop(fs, p)
      BY <3>3 DEF Removed
    <3>6. OnlyRemoves(todo') /\ EmptyDirs(Drop(fs, p), todo')
      BY <1>2, <2>6, <3>3, <3>4, <3>5, RemovedEmpty
    <3> QED BY <3>2, <3>5, <3>6
  <2> QED BY <2>7, <2>8
<1> QED BY <1>1, <1>2

\* check changes neither the options nor the package.
LEMMA CheckFrame ==
    ASSUME CheckStep
    PROVE  UNCHANGED <<opt, package>>
<1>1. CASE \E n \in Name : CheckChild(n) \/ CheckDeps(n)
  BY <1>1 DEF CheckChild, ChildOwn, ChildExec, ChildCopied, ChildConflict,
       ChildProtected, ChildDir, ChildTraversed, ChildAutoTraverse, ChildForeign,
       ChildFolded, ChildMissing, CheckDeps, DepsDir, DepsHarmless, DepsConflict, DepsLink,
       Plan, Skip, Obstacle, Stop, setupVars
<1>2. CASE DepsReturn \/ DiveNotDir \/ DiveCopyDir \/ Dive \/ CheckReturn
  BY <1>2 DEF DepsReturn, DiveNotDir, DiveCopyDir, Dive, CheckReturn, Surface, Enter, Stop, setupVars
<1> QED BY <1>1, <1>2 DEF CheckStep

\* No command has -f, and no pass has.
LEMMA ForceNext ==
    ASSUME TypeOK, \A c \in Hosts[host].commands : ~c.opt.force, ~opt.force, [Next]_vars
    PROVE  ~opt'.force
<1>1. opt \in Options
  BY DEF TypeOK, SetupTypeOK
<1>2. ASSUME NEW c \in Hosts[host].commands, Start(c) PROVE ~opt'.force
  <2>1. c.opt \in Options
    BY HostTyped DEF TypeOK, SetupTypeOK, Command
  <2> QED BY <1>2, <2>1 DEF Start, Select, Options
<1>3. CASE UNCHANGED opt
  BY <1>3
<1>4. CASE Again \/ NextPackage
  BY <1>1, <1>4 DEF Again, NextPackage, Select, Options
<1>5. CASE Return \/ Die
  BY <1>5 DEF Return, Die, Quit, NoOptions
<1>6. CASE (\E c \in Hosts[host].commands : StartUnknown(c)) \/ BeginPass \/ UserEdit \/ UNCHANGED vars
  BY <1>3, <1>6 DEF StartUnknown, BeginPass, Enter, Stop, UserEdit, vars, setupVars
<1>7. CASE Exec
  BY <1>3, <1>7 DEF Exec, ExecStep, ExecBegin, ExecRemoveDir, ExecUnlink, ExecMkdir, ExecSetLink,
              file_copy, dir_copy, ExecCommand, ExecEnd, Frame, setupVars
<1>8. CASE Check
  BY <1>3, <1>8, CheckFrame DEF Check
<1> QED BY <1>2, <1>4, <1>5, <1>6, <1>7, <1>8 DEF Next, Process, User

\* What a pass makes is a directory that can be changed, or a link; it makes
\* nothing in a package and takes nothing from one.
LEMMA UndoDisk ==
    ASSUME TidyAll, Hosts[host].edits = {}, FullPackages(fs), OpenDisk(fs), [Next]_vars
    PROVE  FullPackages(fs') /\ OpenDisk(fs')
<1>1. CASE fs' = fs
  BY <1>1
<1>2. CASE fs' # fs
  <2>1. Next
    BY <1>2 DEF vars
  <2>2. ~UserEdit
    BY DEF UserEdit
  <2>3. ExecOK /\ phase = "exec" /\ ToDo /\ OpsTidy(todo) /\ todo # <<>> /\ Changes(Current)
    BY <1>2, <2>1, <2>2, WhoChanges
  <2>4. Outside(Place(Current))
    BY <2>3, PlaceTidy
  <2>5. Current.act = "REMOVE" => Loc(fs, Current.origin) = Current.origin
    BY <2>3, RemovePlace DEF ToDo
  <2>6. PICK l :
           /\ l = Place(Current)
           /\ \A q : q # l => (q \in DOMAIN fs <=> q \in DOMAIN fs') /\ (q \in DOMAIN fs => fs'[q] = fs[q])
           /\ l \in DOMAIN fs' => fs'[l] \in {Dir, Link(Current.origin)}
    <3>1. CASE Current.act = "REMOVE"
      BY <1>2, <2>3, <2>5, <3>1 DEF Changes, Place, Drop
    <3>2. CASE Current.act # "REMOVE"
      BY <1>2, <2>3, <3>2 DEF Changes, Place, Put
    <3> QED BY <3>1, <3>2
  <2>7. StowDir \in StowRoots /\ ~IsInDir(l, StowDir) /\ StowDir \in Path
    BY <2>4, <2>6, RootsTyped DEF Outside, TidyAll, TypeOK, SetupTypeOK
  <2>8. DOMAIN fs \subseteq Path /\ DOMAIN fs' \subseteq Path
    <3>1. TypeOK'
      BY TypeNext DEF TidyAll
    <3> QED BY <3>1 DEF TidyAll, TypeOK, Disk
  <2>9. OpenDisk(fs')
    BY <2>6 DEF OpenDisk, IsDir, Dir, Link
  <2>10. ASSUME NEW p \in Pkg, NEW d \in DOMAIN fs', IsDir(fs', d), IsStrictPrefix(PkgDir(p), d)
         PROVE  \E q \in DOMAIN fs' : IsInDir(q, d) /\ ~IsDir(fs', q)
    <3>1. PkgDir(p) \in Path /\ IsInDir(PkgDir(p), StowDir) /\ d \in Path
      BY <2>8, <2>10, RootsTyped DEF TidyAll, TypeOK, SetupTypeOK
    <3>2. IsInDir(d, StowDir)
      <4>1. IsInDir(d, PkgDir(p))
        BY <2>10 DEF IsInDir, IsStrictPrefix
      <4> QED BY <2>7, <3>1, <4>1, InTrans
    <3>3. d \in DOMAIN fs /\ IsDir(fs, d)
      BY <2>6, <2>7, <2>10, <3>2 DEF IsDir
    <3>4. PICK q \in DOMAIN fs : IsInDir(q, d) /\ ~IsDir(fs, q)
      BY <2>10, <3>3 DEF FullPackages
    <3>5. q \in Path /\ IsInDir(q, StowDir)
      BY <2>7, <2>8, <3>1, <3>2, <3>4, InTrans
    <3>6. q \in DOMAIN fs' /\ ~IsDir(fs', q)
      BY <2>6, <2>7, <3>4, <3>5 DEF IsDir
    <3> QED BY <3>4, <3>6
  <2> QED BY <2>9, <2>10 DEF FullPackages
<1> QED BY <1>1, <1>2

UndoAll == FreshAll /\ UndoInv

LEMMA UndoKept ==
    ASSUME UndoAll, UNCHANGED <<before, opt, package>>, Undoing'
    PROVE  Undoing /\ opt.unstow
BY DEF Undoing

LEMMA UndoNext ==
    ASSUME UndoAll, [Next]_vars
    PROVE  UndoInv'
<1>1. /\ TidyAll /\ PassInv /\ FreshInv /\ host' = host
      /\ UndoHost(host) /\ Hosts[host].edits = {} /\ ~opt.force
  BY HostKept DEF UndoAll, FreshAll, UndoInv, UndoHost
<1>2. /\ TypeOK /\ PlanInv /\ TidyInv /\ ExecOK /\ Straight
      /\ StowRoots \subseteq Path /\ StowDir \in StowRoots
  BY <1>1, TidyIsStraight, RootsTyped DEF TidyAll, TypeOK, ExecOK, CheckOK, SetupTypeOK
<1>3. ~opt'.force
  BY <1>1, <1>2, ForceNext DEF UndoHost
<1>4. FullPackages(fs') /\ OpenDisk(fs')
  BY <1>1, UndoDisk DEF UndoAll, UndoInv
<1> SUFFICES ASSUME Undoing'
             PROVE  /\ phase' \in {"check", "deps", "dive"} => phase' # "deps" /\ OnlyRemoves(links')
                    /\ phase' = "exec" => OnlyRemoves(todo') /\ EmptyDirs(fs', todo')
                    /\ phase' # "failed"
  BY <1>1, <1>3, <1>4 DEF UndoInv
<1>5. CASE User \/ Again \/ NextPackage \/ Return \/ Die
  BY <1>5 DEF User, Start, StartUnknown, Select, Again, NextPackage, Return, Die, Quit
<1>6. CASE BeginPass
  <2>1. links' = <<>> /\ phase' \in {"check", "refused", "aborted"}
    BY <1>2, <1>6 DEF BeginPass, Enter, Stop, checkVars, PlanInv
  <2> QED BY <2>1 DEF OnlyRemoves
<1>7. CASE Check
  <2>1. CheckOK /\ CheckStep /\ phase \in Planning /\ phase' \in Planning \cup Stopped
    BY <1>2, <1>7, CheckStepTyped DEF Check, TypeOK, CheckOK, PlanStep
  <2>2. TidyReady /\ StowDir \in stow_dirs
    BY <1>2, <2>1 DEF TidyReady, PlanInv, Planning
  <2>3. UNCHANGED <<before, opt, package>>
    BY <1>7, <2>1, CheckFrame DEF Check, mainVars
  <2>4. Undoing /\ opt.unstow
    BY <2>3, UndoKept
  <2>5. fs = before
    BY <1>1, <2>1 DEF PassInv, Untouched
  <2>6. UndoReady
    BY <1>1, <2>2, <2>4, <2>5 DEF UndoReady, Undoing, UndoAll, UndoInv
  <2>7. phase \in {"check", "dive"} /\ OnlyRemoves(links)
    BY <2>1, <2>4 DEF UndoAll, UndoInv, Planning
  <2>8. phase' # "deps" /\ OnlyRemoves(links')
    BY <1>1, <2>1, <2>2, <2>4, <2>6, <2>7, CheckUndoes
  <2> QED BY <2>1, <2>8 DEF Planning, Stopped
<1>8. CASE Exec
  <2>1. ExecStep /\ ExecPhases /\ UNCHANGED <<before, opt, package>>
    BY <1>2, <1>8, ExecStepTyped DEF Exec, mainVars, ExecStep, ExecBegin, ExecRemoveDir, ExecUnlink,
         ExecMkdir, ExecSetLink, file_copy, dir_copy, ExecCommand, ExecEnd, Frame, setupVars
  <2>2. Undoing
    BY <2>1, UndoKept
  <2>3. CASE phase = "check"
    <3>1. phase' # "failed" /\ (phase' = "exec" => todo' = links) /\ fs' = fs
      BY <2>1, <2>3 DEF ExecStep, ExecBegin, ExecRemoveDir, ExecUnlink, ExecMkdir, ExecSetLink,
           file_copy, dir_copy, ExecCommand, ExecEnd, Doing
    <3>2. OnlyRemoves(links)
      BY <2>2, <2>3 DEF UndoAll, UndoInv
    <3>3. PlanOK(fs, links)
      BY <1>2, <2>3 DEF PlanInv, PlannerOK, CallsOK
    <3>4. EmptyDirs(fs, links)
      BY <3>2, <3>3 DEF EmptyDirs, OnlyRemoves, PlanOK, IsLink, IsDir
    <3> QED BY <2>1, <3>1, <3>2, <3>4 DEF ExecPhases
  <2>4. CASE phase = "exec"
    <3>1. Undisturbed
      BY <1>1, <2>4 DEF Undisturbed, PassInv, Dry
    <3>2. ToDo /\ OpsTidy(todo) /\ RestOK(fs, todo)
      BY <1>1, <1>2, <2>4, <3>1 DEF PlanInv, ToDo, TidyInv, FreshInv
    <3>3. TidyDisk(fs, StowRoots)
      BY <1>2 DEF TidyInv
    <3>4. Fit
      BY <1>2, <2>4, <3>2, <3>3 DEF Fit, TidyDisk
    <3>5. OnlyRemoves(todo) /\ EmptyDirs(fs, todo) /\ OpenDisk(fs)
      BY <2>2, <2>4 DEF UndoAll, UndoInv
    <3>6. phase' # "failed" /\ (phase' = "exec" => OnlyRemoves(todo') /\ EmptyDirs(fs', todo'))
      BY <1>2, <2>1, <3>4, <3>5, ExecUndoes
    <3> QED BY <2>1, <3>6 DEF ExecPhases
  <2> QED BY <2>1, <2>3, <2>4 DEF ExecPhases
<1>9. ~UserEdit
  BY <1>1 DEF UserEdit
<1>10. CASE UNCHANGED vars
  <2>1. UNCHANGED <<fs, before, opt, package, phase, links, todo>>
    BY <1>10 DEF vars, setupVars, checkVars, execVars, mainVars
  <2>2. Undoing
    BY <2>1, UndoKept
  <2> QED BY <2>1, <2>2 DEF UndoAll, UndoInv
<1> QED BY <1>5, <1>6, <1>7, <1>8, <1>9, <1>10 DEF Next, Process

\* On a tidy host where the user may change every directory, no command has -f
\* and no package has a directory without a file below it, a package that is
\* installed completely can be unstowed: check finds its links one by one and
\* has nothing to unfold, exec_list takes them away, and each directory that
\* it adds to the end of the list is empty then and stays so.
THEOREM UnstowSucceeds == Spec /\ UndoHost(host) => []UnstowWorks
<1>1. Spec /\ UndoHost(host) => []FreshAll
  BY FreshStays DEF UndoHost
<1>2. Init /\ UndoHost(host) => UndoInv
  BY DEF Init, UndoInv, UndoHost, NoOptions
<1>3. FreshAll /\ UndoInv /\ [Next]_vars => UndoInv'
  BY UndoNext DEF UndoAll
<1>4. UndoInv => UnstowWorks
  BY DEF UndoInv, UnstowWorks, Undoing
<1> QED BY <1>1, <1>2, <1>3, <1>4, PTL DEF Spec
=============================================================================
