----------------------------- MODULE WholeProofs -----------------------------
(***************************************************************************)
(* A stow that ends with success has installed all of the package: the     *)
(* proof that WholeInv is inductive on tidy hosts.                         *)
(***************************************************************************)
EXTENDS Whole, FreshProofs

\* On the way from a directory down to a node there is a name.
LEMMA NextName ==
    ASSUME NEW F, Disk(F), NEW a \in Path, NEW q \in DOMAIN F, IsInDir(q, a), q # a
    PROVE  \E n \in Name : Append(a, n) \in DOMAIN F /\ IsInDir(q, Append(a, n))
<1>1. q \in Path
  BY DEF Disk
<1>2. q = a \o After(q, a) /\ After(q, a) \in Path
  BY <1>1, InDir
<1>3. After(q, a) # <<>>
  BY <1>2, PathLen
<1>4. PICK n \in Name, z \in Path : After(q, a) = <<n>> \o z
  BY <1>2, <1>3, FirstName
<1>5. q = Append(a, n) \o z
  <2>1. Append(a, n) \o z = a \o (<<n>> \o z)
    BY AddJoin
  <2>2. q = a \o (<<n>> \o z)
    BY <1>2, <1>4
  <2> QED BY <2>1, <2>2
<1>6. Append(a, n) \in Path /\ IsInDir(q, Append(a, n))
  BY <1>5, AddPath, JoinIn
<1>7. Append(a, n) \in DOMAIN F
  BY <1>1, <1>6, DirAbove DEF IsDir
<1> QED BY <1>6, <1>7

\* A name of a directory without links is among the children Node::scan keeps.
LEMMA ChildKept ==
    ASSUME Disk(fs), Config.nignores = <<>>, Config.ignoreInDir = {},
           NEW d \in Path, PlainDir(fs, d), NEW a \in Path, IsInDir(a, d),
           NEW m \in Name, Append(a, m) \in DOMAIN fs, ~match_ignore(m)
    PROVE  m \in Children(a)
<1>1. m \in Entries(fs, a)
  BY PlainName
<1>2. Passes(a)
  BY DEF Passes
<1> QED BY <1>1, <1>2 DEF Children, IgnoredFile, match_ignore_file_in_dir

\* What nothing but the package and the configuration decides.
LEMMA WantedKept ==
    ASSUME UNCHANGED <<host, package>>, Config.nignores = <<>>,
           \A p : IsInDir(p, package) =>
              (p \in DOMAIN fs <=> p \in DOMAIN fs') /\ (p \in DOMAIN fs => fs'[p] = fs[p])
    PROVE  Wanted' = Wanted /\ Due' = Due
<1>1. Config' = Config
  BY DEF Config
<1>2. \A f : Ignored(f)' <=> Ignored(f)
  <2>1. \A d : Passes(d) /\ Passes(d)'
    BY <1>1 DEF Passes
  <2> QED BY <1>1, <2>1 DEF Ignored, Skipped, match_ignore
<1>3. FilesOf(fs', package) = FilesOf(fs, package)
  BY DEF FilesOf, IsInDir, IsStrictPrefix
<1>4. Wanted' = Wanted
  BY <1>2, <1>3 DEF Wanted
<1> QED BY <1>4 DEF Due

\* A step of check leaves it as it is.
LEMMA WantedSame ==
    ASSUME UNCHANGED <<fs, host, package>>, Config.nignores = <<>>
    PROVE  Due' = Due
BY WantedKept

\* A file to be installed: it is in the package, and no name on the way to it
\* is ignored.
LEMMA DueFacts ==
    ASSUME Disk(fs), package \in Path, NEW p \in Due
    PROVE  /\ p \in DOMAIN fs /\ p \in Path /\ ~IsDir(fs, p) /\ IsInDir(p, package)
           /\ \A d \in Path : \A n \in Name :
                 IsInDir(d, package) /\ IsInDir(p, Append(d, n)) => ~match_ignore(n)
<1>0. PICK f \in Wanted : p = package \o f
  BY DEF Due
<1>1. PICK q \in DOMAIN fs : IsStrictPrefix(package, q) /\ fs[q].kind # "dir" /\ f = After(q, package)
  BY DEF Wanted, FilesOf
<1>2. q \in Path /\ IsInDir(q, package)
  BY <1>1 DEF Disk, IsStrictPrefix, IsInDir
<1>3. q = package \o f /\ f \in Path
  BY <1>1, <1>2, InDir
<1>4. ~IsDir(fs, q)
  BY <1>1 DEF IsDir
<1>5. ASSUME NEW d \in Path, NEW n \in Name, IsInDir(d, package), IsInDir(q, Append(d, n))
      PROVE  ~match_ignore(n)
  <2> DEFINE y == After(d, package)  z == After(q, Append(d, n))
  <2>1. y \in Path /\ d = package \o y
    BY <1>5, InDir
  <2>2. Append(d, n) \in Path
    BY AddPath
  <2>3. z \in Path /\ q = Append(d, n) \o z
    BY <1>2, <1>5, <2>2, InDir
  <2> HIDE DEF y, z
  <2>4. Append(d, n) = package \o Append(y, n) /\ Append(y, n) \in Path
    BY <2>1, JoinAdd, AddPath
  <2>5. package \o f = package \o (Append(y, n) \o z)
    <3>1. (package \o Append(y, n)) \o z = package \o (Append(y, n) \o z)
      BY <2>3, <2>4, JoinAssoc
    <3> QED BY <1>3, <2>3, <2>4, <3>1
  <2>6. f = Append(y, n) \o z
    BY <1>3, <2>3, <2>4, <2>5, JoinCancel, JoinPath
  <2>7. Len(y) + 1 \in DOMAIN f /\ f[Len(y) + 1] = n
    BY <2>1, <2>3, <2>6 DEF Path
  <2>8. ~Ignored(f)
    BY DEF Wanted
  <2> QED BY <2>7, <2>8 DEF Ignored
<1> QED BY <1>0, <1>1, <1>2, <1>3, <1>4, <1>5
-----------------------------------------------------------------------------
(***************************************************************************)
(* The planner.                                                            *)
(***************************************************************************)
WholeReady ==
    /\ TidyReady /\ StowDir \in stow_dirs
    /\ Stows /\ Config.ignoreInDir = {} /\ Unblocked /\ WholeInv

LEMMA WholeFacts ==
    ASSUME WholeReady
    PROVE  /\ CheckOK /\ Disk(fs) /\ Ready /\ TidyReady
           /\ stack \in Seq(Call) /\ links \in Seq(Op) /\ at \in Child /\ deps \in Seq(DepsCall)
           /\ ~opt.unstow /\ ~opt.force /\ Config.ignoreInDir = {} /\ Config.nignores = <<>>
           /\ package \in Path /\ Target \in Path /\ StowDir \in Path
           /\ IsInDir(package, StowDir) /\ PlainDir(fs, StowDir)
           /\ phase # "idle" =>
                 \A d \in DOMAIN fs : IsDir(fs, d) /\ IsInDir(d, package) => ~IsFile(fs, Dest(d))
<1>1. TidyReady /\ CheckOK /\ Ready
  BY DEF WholeReady, TidyReady, Ready
<1>2. package \in Path /\ Target \in Path /\ StowDir \in Path
  BY <1>1, TidyFacts, SetupAssumption
<1>3. phase # "idle" => \E p \in Pkg : package = PkgDir(p)
  BY <1>1 DEF TidyReady, TidyInv
<1>4. phase # "idle" =>
         \A d \in DOMAIN fs : IsDir(fs, d) /\ IsInDir(d, package) => ~IsFile(fs, Dest(d))
  BY <1>3 DEF WholeReady, Unblocked, NoFileInWay, Dest
<1> QED BY <1>1, <1>2, <1>4 DEF WholeReady, TidyReady, CheckOK, CheckTypeOK, Straight, Stows

LEMMA DestBelow ==
    ASSUME package \in Path, Target \in Path, NEW a \in Path, IsInDir(a, package), NEW z \in Path
    PROVE  Dest(a \o z) = Dest(a) \o z /\ Dest(a) \in Path /\ IsInDir(a \o z, package)
<1> DEFINE y == After(a, package)
<1>1. y \in Path /\ a = package \o y
  BY InDir
<1> HIDE DEF y
<1>2. a \o z = package \o (y \o z) /\ y \o z \in Path
  BY <1>1, JoinAssoc, JoinPath
<1>3. After(a \o z, package) = y \o z /\ IsInDir(a \o z, package)
  BY <1>2, JoinIn
<1>4. After(a, package) = y
  BY <1>1, JoinIn
<1>5. Dest(a \o z) = Target \o (y \o z) /\ Dest(a) = Target \o y
  BY <1>3, <1>4 DEF Dest
<1>6. (Target \o y) \o z = Target \o (y \o z)
  BY <1>1, JoinAssoc
<1>7. Target \o y \in Path
  BY <1>1, JoinPath
<1> QED BY <1>3, <1>5, <1>6, <1>7

\* Two places of the package have two places in the target.
LEMMA DestApart ==
    ASSUME package \in Path, Target \in Path, NEW a \in Path, NEW b \in Path,
           IsInDir(a, package), IsInDir(b, package), Dest(a) = Dest(b)
    PROVE  a = b
<1>1. a = package \o After(a, package) /\ After(a, package) \in Path
  BY InDir
<1>2. b = package \o After(b, package) /\ After(b, package) \in Path
  BY InDir
<1>3. After(a, package) = After(b, package)
  BY <1>1, <1>2, JoinCancel DEF Dest
<1> QED BY <1>1, <1>2, <1>3

LEMMA ToLinkGrows ==
    ASSUME NEW L \in Seq(Op), NEW M \in Seq(Op), Grown(L, M), NEW q, ToLink(L, q)
    PROVE  ToLink(M, q)
<1>1. PICK j \in DOMAIN L :
          /\ L[j].act = "SET_LINK"
          /\ IsInDir(q, L[j].origin) /\ IsInDir(L[j].origin, package)
          /\ L[j].target = Dest(L[j].origin)
  BY DEF ToLink
<1>2. j \in DOMAIN M /\ M[j] = L[j]
  BY DEF Grown
<1> QED BY <1>1, <1>2 DEF ToLink

\* A step of check keeps WholeInv when it takes care of what was waiting.
LEMMA WholeKept ==
    ASSUME WholeReady, phase \in Planning, phase' \in Planning \cup Stopped,
           UNCHANGED <<fs, setupVars>>,
           NEW M \in Seq(Op), links' = M, Grown(links, M),
           phase' \in Planning => RemovesOthers(fs, M),
           phase' \in Planning => \A q \in Due :
              Waiting(q) \/ (phase \in {"deps", "dive"} /\ Onward(q))
                 => \/ Linked(fs, q) \/ ToLink(M, q)
                    \/ Waiting(q)' \/ (phase' \in {"deps", "dive"} /\ Onward(q)')
    PROVE  WholeInv'
<1>1. links \in Seq(Op) /\ Config.nignores = <<>>
  BY WholeFacts
<1>2. UNCHANGED <<fs, host, package>> /\ package' = package /\ fs' = fs
  BY DEF setupVars
<1>3. Due' = Due
  BY <1>1, <1>2, WantedSame
<1>4. /\ RemovesOthers(fs, M) <=> RemovesOthers(fs, links)'
      /\ \A q : Linked(fs, q)' <=> Linked(fs, q)
      /\ \A q : ToLink(M, q) <=> ToLink(links, q)'
  BY <1>2 DEF RemovesOthers, Linked, Own, Dest, ToLink
<1> DEFINE Cared(q) == \/ Linked(fs, q) \/ ToLink(links, q) \/ Waiting(q)
                       \/ phase \in {"deps", "dive"} /\ Onward(q)
<1>5. ASSUME phase' \in Planning, NEW q \in Due PROVE Cared(q)'
  <2>1. Cared(q)
    BY DEF WholeReady, WholeInv, Planning
  <2>2. CASE ToLink(links, q)
    <3>1. ToLink(M, q)
      BY <1>1, <2>2, ToLinkGrows
    <3> QED BY <1>4, <3>1
  <2>3. CASE ~ToLink(links, q)
    BY <1>4, <1>5, <2>1, <2>3
  <2> QED BY <2>2, <2>3
<1>6. CASE phase' \in Planning
  <2>1. RemovesOthers(fs, links)'
    BY <1>4, <1>6
  <2>2. \A q \in Due' : Cared(q)'
    BY <1>3, <1>5, <1>6
  <2> QED BY <1>2, <1>6, <2>1, <2>2 DEF WholeInv, Planning
<1>7. CASE phase' \in Stopped
  BY <1>7 DEF WholeInv, Stopped
<1> QED BY <1>6, <1>7

\* Where nothing is in the way below a, nothing is below b.
LEMMA ClearBelow ==
    ASSUME Disk(fs), NEW q, NEW a \in Path, NEW b \in Path, IsInDir(b, a), Clear(q, a)
    PROVE  Clear(q, b)
<1> SUFFICES ASSUME NEW d \in DOMAIN fs, Between(b, d, q) PROVE ~Blocks(d)
  BY DEF Clear
<1>1. d \in Path /\ IsInDir(d, b) /\ d # b
  BY DEF Disk, Between
<1>2. IsInDir(d, a)
  BY <1>1, InTrans
<1>3. d # a
  BY <1>1, InAnti
<1> QED BY <1>2, <1>3 DEF Clear, Between

\* check goes on with another directory.
LEMMA OnwardDive ==
    ASSUME UNCHANGED <<fs, package>>, phase' = "dive", NEW q, NEW a, NEW w, NEW i,
           at'.base = a, at'.entry = w, at'.into = i,
           IsInDir(q, a), DirAt(fs, w), IsDir(fs, i) \/ Clear(q, a)
    PROVE  Onward(q)'
<1>1. fs' = fs /\ package' = package
  OBVIOUS
<1>2. Clear(q, a)' <=> Clear(q, a)
  BY <1>1 DEF Clear, Blocks, Dest, Between
<1>3. Clear(q, at.base)' <=> Clear(q, a)'
  BY DEF Clear, Between
<1> QED BY <1>1, <1>2, <1>3 DEF Onward, DirAt

\* check is done with child n.
LEMMA ChildWhole ==
    ASSUME WholeReady, phase = "check", phase' \in Planning, NEW n \in Name, n \in Top.kids, Done(n),
           UNCHANGED <<fs, setupVars>>,
           NEW M \in Seq(Op), links' = M, Grown(links, M), RemovesOthers(fs, M),
           \A q \in Due :
              /\ IsInDir(q, Base(n))
              /\ IsDir(fs, Top.dir) \/ Clear(q, Top.base)
              => \/ Linked(fs, q) \/ ToLink(M, q)
                 \/ phase' \in {"deps", "dive"} /\ Onward(q)'
    PROVE  WholeInv'
<1>1. stack \in Seq(Call) /\ stack # <<>>
  BY WholeFacts DEF CheckOK, CheckTypeOK
<1>2. Len(stack) \in DOMAIN stack
  BY <1>1, EmptySeq
<1>3. DOMAIN stack' = DOMAIN stack
      /\ \A k \in DOMAIN stack :
            /\ stack'[k].dir = stack[k].dir /\ stack'[k].base = stack[k].base
            /\ \A m \in stack[k].kids : m \in stack'[k].kids \/ (k = Len(stack) /\ m = n)
  BY <1>1, <1>2 DEF Done, Call
<1>4. UNCHANGED <<fs, package>> /\ fs' = fs
  BY DEF setupVars
<1>5. ASSUME NEW q \in Due, Waiting(q)
      PROVE  \/ Linked(fs, q) \/ ToLink(M, q)
             \/ Waiting(q)' \/ (phase' \in {"deps", "dive"} /\ Onward(q)')
  <2>0. PICK k \in DOMAIN stack : \E m \in stack[k].kids :
            /\ IsInDir(q, Append(stack[k].base, m))
            /\ IsDir(fs, stack[k].dir) \/ Clear(q, stack[k].base)
    BY <1>5 DEF Waiting
  <2>1. PICK m \in stack[k].kids :
            /\ IsInDir(q, Append(stack[k].base, m))
            /\ IsDir(fs, stack[k].dir) \/ Clear(q, stack[k].base)
    BY <2>0
  <2>2. CASE k = Len(stack) /\ m = n
    BY <2>1, <2>2 DEF Base, Top
  <2>3. CASE m \in stack'[k].kids
    BY <1>3, <1>4, <2>1, <2>3 DEF Waiting, Clear, Blocks, Dest, Between
  <2> QED BY <1>3, <2>1, <2>2, <2>3
<1> QED BY <1>5, WholeKept DEF Planning

LEMMA StopWhole ==
    ASSUME phase' \in Stopped PROVE WholeInv'
BY DEF WholeInv, Stopped

LEMMA PushOthers ==
    ASSUME NEW L \in Seq(Op), NEW l \in Op, RemovesOthers(fs, L),
           l.act = "REMOVE" => \A a \in DOMAIN fs : Own(fs, a) => l.origin # Dest(a)
    PROVE  RemovesOthers(fs, Push(L, l))
<1> DEFINE M == Push(L, l)
<1>1. /\ \A i \in DOMAIN L : M[i] = L[i]
      /\ \A i \in DOMAIN M \ DOMAIN L : M[i] = l
  BY PushCases
<1> HIDE DEF M
<1>2. ASSUME NEW j \in DOMAIN M, Removes(M, j), NEW a \in DOMAIN fs, Own(fs, a)
      PROVE  M[j].origin # Dest(a)
  <2>1. CASE j \in DOMAIN L
    <3>1. M[j] = L[j] /\ Removes(L, j)
      BY <1>1, <1>2, <2>1 DEF Removes
    <3> QED BY <1>2, <2>1, <3>1 DEF RemovesOthers
  <2>2. CASE j \notin DOMAIN L
    BY <1>1, <1>2, <2>2 DEF Removes
  <2> QED BY <2>1, <2>2
<1>3. RemovesOthers(fs, M)
  BY <1>2 DEF RemovesOthers
<1> QED BY <1>3 DEF M

\* The child in the package and its place.
LEMMA ChildPlace ==
    ASSUME TidyReady, phase = "check", NEW n \in Name, n \in Top.kids
    PROVE  /\ Base(n) \in Path /\ There(n) \in Path /\ Top.base \in Path /\ Top.dir \in Path
           /\ IsInDir(Base(n), package) /\ There(n) = Dest(Base(n))
           /\ Base(n) \in DOMAIN fs
           /\ IsInDir(Top.base, package) /\ IsInDir(Base(n), Top.base) /\ Base(n) # Top.base
           /\ LinkAt(fs, There(n)) => Loc(fs, There(n)) = There(n) /\ IsLink(fs, There(n))
<1>1. stack \in Seq(Call) /\ stack # <<>> /\ CheckOK /\ CallsOK
  BY DEF TidyReady, CheckOK, CheckTypeOK, PlannerOK
<1>2. Len(stack) \in DOMAIN stack
  BY <1>1, EmptySeq
<1>3. CallTidy(Top)
  BY <1>1, <1>2 DEF TidyReady, TidyInv, Top
<1>4. Base(n) \in Path /\ There(n) \in Path /\ Top.base \in Path /\ Top.dir \in Path
      /\ (LinkAt(fs, There(n)) => Loc(fs, There(n)) = There(n) /\ IsLink(fs, There(n)))
  BY <1>1, ChildFacts
<1>5. Aligned(Base(n), There(n))
  BY <1>1, ThereTidy
<1>6. IsInDir(Base(n), Top.base) /\ Base(n) # Top.base
  <2>1. IsInDir(Base(n), Top.base)
    BY <1>4, InAdd, InSelf DEF Base
  <2>2. Len(Base(n)) = Len(Top.base) + 1 /\ Len(Top.base) \in Nat
    BY <1>4, AddPath, PathLen DEF Base
  <2> QED BY <2>1, <2>2
<1> QED BY <1>3, <1>4, <1>5, <1>6 DEF CallTidy, Aligned, Base, Dest

\* Nothing that has to be installed is below a name to be ignored.
LEMMA NotIgnored ==
    ASSUME WholeReady, phase = "check", NEW n \in Name, n \in Top.kids,
           NEW q \in Due, IsInDir(q, Base(n))
    PROVE  ~match_ignore(n)
<1>1. Disk(fs) /\ package \in Path /\ Top.base \in Path /\ IsInDir(Top.base, package)
  BY WholeFacts, ChildPlace
<1> QED BY <1>1, DueFacts DEF Base

LEMMA SkipWhole ==
    ASSUME WholeReady, phase = "check", NEW n \in Name, n \in Top.kids, Skip(n),
           \A q \in Due : IsInDir(q, Base(n)) => Linked(fs, q)
    PROVE  WholeInv'
<1>1. Done(n) /\ UNCHANGED <<phase, links>> /\ UNCHANGED <<fs, setupVars>>
  BY DEF Skip
<1>2. links \in Seq(Op) /\ Grown(links, links)
  BY WholeFacts, GrownSelf
<1>3. RemovesOthers(fs, links)
  BY DEF WholeReady, WholeInv
<1> QED BY <1>1, <1>2, <1>3, ChildWhole DEF Planning

LEMMA OwnWhole ==
    ASSUME WholeReady, NEW n \in Name, ChildOwn(n)
    PROVE  WholeInv'
<1>1. phase = "check" /\ n \in Top.kids /\ OwnLink(n) /\ Skip(n)
  BY WholeFacts DEF ChildOwn, Found
<1>2. /\ IsLink(fs, There(n)) /\ fs[There(n)].ref = Base(n)
      /\ Base(n) \in DOMAIN fs /\ IsInDir(Base(n), package) /\ There(n) = Dest(Base(n))
  BY <1>1, WholeFacts, ChildPlace DEF OwnLink, LinkBuf
<1>3. Own(fs, Base(n))
  BY <1>2 DEF Own
<1> QED BY <1>1, <1>2, <1>3, SkipWhole DEF Linked

LEMMA ConflictWhole ==
    ASSUME WholeReady, NEW n \in Name, ChildConflict(n) \/ ChildProtected(n) \/ ChildForeign(n)
    PROVE  WholeInv'
<1>1. phase = "check" /\ n \in Top.kids /\ ~opt.force
  BY WholeFacts DEF ChildConflict, ChildProtected, ChildForeign, LinkedDir, OpenDir, FoundDir, FoundFile, Found
<1>2. (Skip(n) /\ match_ignore(n)) \/ Stop("refused")
  BY <1>1, WholeFacts DEF ChildConflict, ChildProtected, ChildForeign, Obstacle, match_ignore_file_in_dir
<1>3. CASE Stop("refused")
  BY <1>3, StopWhole DEF Stop, Stopped
<1>4. CASE Skip(n) /\ match_ignore(n)
  BY <1>1, <1>4, NotIgnored, SkipWhole
<1> QED BY <1>2, <1>3, <1>4

LEMMA MissingWhole ==
    ASSUME WholeReady, NEW n \in Name, ChildMissing(n)
    PROVE  WholeInv'
<1> DEFINE l == LinkOp(Base(n), There(n))  M == Push(links, l)
<1>1. phase = "check" /\ n \in Top.kids
  BY DEF ChildMissing, Missing
<1>2. TidyReady /\ links \in Seq(Op) /\ ~opt.unstow /\ RemovesOthers(fs, links)
  BY <1>1, WholeFacts DEF WholeReady, WholeInv
<1>3. Install(n) = l
  BY <1>2, NoCopies DEF Install
<1>4. (Skip(n) /\ match_ignore(n)) \/ Plan(n, l) \/ Stop("refused")
  BY <1>2, <1>3 DEF ChildMissing
<1>5. CASE Skip(n) /\ match_ignore(n)
  BY <1>1, <1>5, NotIgnored, SkipWhole
<1>6. CASE Stop("refused")
  BY <1>6, StopWhole DEF Stop, Stopped
<1>7. CASE Plan(n, l)
  <2>1. Base(n) \in Path /\ There(n) \in Path /\ IsInDir(Base(n), package) /\ There(n) = Dest(Base(n))
    BY <1>1, WholeFacts, ChildPlace
  <2>2. l \in Op /\ l.act = "SET_LINK" /\ l.origin = Base(n) /\ l.target = There(n)
    BY <2>1, NamedOpTyped DEF LinkOp, MkOp
  <2>3. Done(n) /\ links' = M /\ UNCHANGED <<phase, fs, setupVars>> /\ UNCHANGED <<fs, setupVars>>
    BY <1>7 DEF Plan
  <2> HIDE DEF l
  <2>4. M \in Seq(Op) /\ Grown(links, M) /\ \E j \in DOMAIN M : SameOp(M[j], l)
    <3>1. M \in Seq(Op) /\ Grown(links, M)
      BY <1>2, <2>2, PushGrows
    <3>2. \E j \in DOMAIN M : SameOp(M[j], l)
      BY <1>2, <2>2, PushCases
    <3> QED BY <3>1, <3>2
  <2>5. RemovesOthers(fs, M)
    BY <1>2, <2>2, PushOthers
  <2> HIDE DEF M
  <2>6. \A q : IsInDir(q, Base(n)) => ToLink(M, q)
    BY <2>1, <2>2, <2>4 DEF ToLink, SameOp
  <2> QED BY <1>1, <2>3, <2>4, <2>5, <2>6, ChildWhole DEF Planning
<1> QED BY <1>4, <1>5, <1>6, <1>7

LEMMA KindIs ==
    ASSUME NEW F, Disk(F), NEW p \in DOMAIN F
    PROVE  IsDir(F, p) \/ IsFile(F, p) \/ IsLink(F, p)
BY DEF Disk, Node, IsDir, IsFile, IsLink

\* What stands in a directory of the disk stands under its own name.
LEMMA LocInDir ==
    ASSUME NEW F, Disk(F), NEW d \in Path, IsDir(F, d), NEW n \in Name
    PROVE  Loc(F, Append(d, n)) = Append(d, n)
<1>1. Append(d, n) \in Path /\ Len(Append(d, n)) = Len(d) + 1 /\ Len(d) \in Nat
  BY AddPath, PathLen
<1>2. ASSUME NEW k \in 0..(Len(Append(d, n)) - 1) PROVE IsDir(F, SubSeq(Append(d, n), 1, k))
  <2>1. k \in 0..Len(d)
    BY <1>1
  <2>2. SubSeq(Append(d, n), 1, k) = SubSeq(d, 1, k)
    BY <2>1, AddPrefix
  <2>3. SubSeq(d, 1, k) \in Path /\ IsInDir(d, SubSeq(d, 1, k))
    BY <2>1, PrefixIn
  <2> QED BY <2>2, <2>3, DirOver
<1> QED BY <1>1, <1>2, LocOfWay

\* Where the package and the target both have something and it is no link, it
\* is a directory in both: check goes on with it.
LEMMA DirWhole ==
    ASSUME WholeReady, NEW n \in Name, ChildDir(n)
    PROVE  WholeInv'
<1> DEFINE a == Base(n)  w == There(n)
<1>1. /\ phase = "check" /\ n \in Top.kids /\ Done(n) /\ UNCHANGED links /\ UNCHANGED <<fs, setupVars>>
      /\ phase' = "dive" /\ at' = [entry |-> w, into |-> w, base |-> a]
      /\ Lexists(fs, w) /\ ~LinkAt(fs, w) /\ IsDirNode(a)
  BY DEF ChildDir, OpenDir, FoundDir, Found, DiveTo
<1>2. /\ Disk(fs) /\ links \in Seq(Op) /\ Grown(links, links) /\ RemovesOthers(fs, links)
      /\ package \in Path /\ PlainDir(fs, StowDir) /\ IsInDir(package, StowDir) /\ StowDir \in Path
  BY <1>1, WholeFacts, GrownSelf DEF WholeReady, WholeInv
<1>3. /\ a \in Path /\ w \in Path /\ Top.base \in Path /\ Top.dir \in Path
      /\ IsInDir(a, package) /\ w = Dest(a) /\ a \in DOMAIN fs /\ IsInDir(a, Top.base) /\ a # Top.base
  BY <1>1, WholeFacts, ChildPlace
<1>4. IsDir(fs, a)
  <2>1. IsInDir(a, StowDir)
    BY <1>2, <1>3, InTrans
  <2> QED BY <1>1, <1>2, <1>3, <2>1, PlainName DEF IsDirNode
<1>5. IsDir(fs, Loc(fs, w)) \/ IsFile(fs, Loc(fs, w))
  BY <1>1, <1>2, KindIs DEF Lexists, LinkAt
<1>6. IsDir(fs, Top.dir) => IsDir(fs, w) /\ Loc(fs, w) = w
  <2>1. SUFFICES ASSUME IsDir(fs, Top.dir) PROVE IsDir(fs, w) /\ Loc(fs, w) = w
    OBVIOUS
  <2>2. Loc(fs, w) = w
    BY <1>2, <1>3, <2>1, LocInDir DEF There
  <2>3. ~IsFile(fs, w)
    BY <1>1, <1>3, <1>4, WholeFacts
  <2> QED BY <1>5, <2>2, <2>3
<1> HIDE DEF a, w
<1>7. ASSUME NEW q \in Due, IsInDir(q, a), IsDir(fs, Top.dir) \/ Clear(q, Top.base)
      PROVE  Onward(q)'
  <2>1. q # a
    BY <1>2, <1>4, DueFacts
  <2>2. IsDir(fs, Loc(fs, w)) /\ (IsDir(fs, w) \/ Clear(q, a))
    <3>1. CASE IsDir(fs, Top.dir)
      BY <1>6, <3>1
    <3>2. CASE Clear(q, Top.base)
      <4>1. Between(Top.base, a, q)
        BY <1>3, <1>7, <2>1 DEF Between
      <4>2. ~Blocks(a)
        BY <1>3, <3>2, <4>1 DEF Clear
      <4>3. Clear(q, a)
        BY <1>2, <1>3, <3>2, ClearBelow
      <4> QED BY <1>3, <1>5, <4>2, <4>3 DEF Blocks
    <3> QED BY <1>7, <3>1, <3>2
  <2>3. DirAt(fs, w)
    BY <1>2, <1>3, <2>2, StatOfDir DEF DirAt
  <2>4. UNCHANGED <<fs, package>>
    BY <1>1 DEF setupVars
  <2>5. at'.base = a /\ at'.entry = w /\ at'.into = w
    BY <1>1
  <2> QED BY <1>1, <1>7, <2>2, <2>3, <2>4, <2>5, OnwardDive
<1> QED BY <1>1, <1>2, <1>7, ChildWhole DEF Planning, a

\* The first name of what follows, whatever it follows.
LEMMA FirstStep ==
    ASSUME NEW x \in Path, x # <<>>
    PROVE  \E m \in Name : \E z \in Path : \A p \in Path : p \o x = Append(p, m) \o z
<1>1. PICK m \in Name, z \in Path : x = <<m>> \o z
  BY FirstName
<1>2. \A p \in Path : p \o x = Append(p, m) \o z
  BY <1>1, AddJoin
<1> QED BY <1>2

LEMMA DirOfLink ==
    ASSUME NEW F, Disk(F), NEW l, IsLink(F, l), PlainDir(F, F[l].ref)
    PROVE  DirAt(F, l)
<1> DEFINE b == F[l].ref
<1>1. l \in Path /\ b \in Path /\ Loc(F, l) = l
  BY LocOfNode DEF Disk, Node, IsLink
<1>2. IsInDir(b, b) /\ IsDir(F, b) /\ ~IsLink(F, b)
  BY <1>1, InSelf DEF PlainDir, IsDir, IsLink
<1>3. Loc(F, b) = b
  BY <1>1, <1>2, PlainName
<1> HIDE DEF b
<1>4. Lead(F, l) = b
  BY <1>1 DEF Lead, Follow, b
<1>5. Lead(F, b) = b
  BY <1>1, <1>2, <1>3 DEF Lead, Follow
<1>6. Stat(F, l) = b
  BY <1>3, <1>4, <1>5 DEF Stat
<1> QED BY <1>2, <1>6 DEF DirAt

LEMMA OnwardDeps ==
    ASSUME UNCHANGED <<fs, package>>, phase' = "deps", NEW q, NEW a, NEW w,
           at'.base = a, at'.entry = w, NEW D, deps' = D,
           IsInDir(q, a), DirAt(fs, w),
           \A d \in DOMAIN fs : Between(a, d, q) /\ Blocks(d)
              => \E k \in DOMAIN D : \E n \in D[k].common : IsInDir(d, Append(D[k].a, n))
    PROVE  Onward(q)'
BY DEF Onward, DirAt, Blocks, Dest, Between

\* What is in the way between a and q has the name of something that both
\* packages have: checkDirs comes to it.
LEMMA BlockCommon ==
    ASSUME WholeReady, NEW e \in Path, PlainDir(fs, e), NEW b \in Path, IsInDir(b, e),
           NEW a \in Path, IsInDir(a, package), NEW q \in Due,
           NEW x \in Path, x # <<>>, IsInDir(q, a \o x), a \o x \in DOMAIN fs,
           b \o x \in DOMAIN fs
    PROVE  \E m \in Children(a) \cap Children(b) : IsInDir(a \o x, Append(a, m))
<1>1. /\ Disk(fs) /\ Config.nignores = <<>> /\ Config.ignoreInDir = {}
      /\ package \in Path /\ StowDir \in Path /\ IsInDir(package, StowDir) /\ PlainDir(fs, StowDir)
  BY WholeFacts
<1>2. PICK m \in Name, z \in Path : \A p \in Path : p \o x = Append(p, m) \o z
  BY FirstStep
<1>3. a \o x = Append(a, m) \o z /\ b \o x = Append(b, m) \o z
  BY <1>2
<1>4. Append(a, m) \in Path /\ Append(b, m) \in Path
  BY AddPath
<1>5. IsInDir(a \o x, Append(a, m)) /\ IsInDir(b \o x, Append(b, m))
  BY <1>3, <1>4, JoinIn
<1>6. Append(a, m) \in DOMAIN fs /\ Append(b, m) \in DOMAIN fs
  BY <1>1, <1>4, <1>5, DirAbove DEF IsDir
<1>7. ~match_ignore(m)
  <2>1. q \in Path
    BY <1>1, DueFacts
  <2>2. a \o x \in Path
    BY JoinPath
  <2>3. IsInDir(q, Append(a, m))
    BY <1>4, <1>5, <2>1, <2>2, InTrans
  <2> QED BY <1>1, <2>3, DueFacts
<1>8. m \in Children(a)
  <2>1. IsInDir(a, StowDir)
    BY <1>1, InTrans
  <2> QED BY <1>1, <1>6, <1>7, <2>1, ChildKept
<1>9. m \in Children(b)
  BY <1>1, <1>6, <1>7, ChildKept
<1> QED BY <1>5, <1>8, <1>9

\* The link of another package is unfolded, with what checkDirs makes of it.
LEMMA FoldedWhole ==
    ASSUME WholeReady, NEW n \in Name, ChildFolded(n)
    PROVE  WholeInv'
<1> DEFINE w == There(n)  a == Base(n)  b == Buf(n)
           L == Push(links, RemoveOp(w))  M == Push(L, MkdirOp(w))
<1>1. /\ phase = "check" /\ n \in Top.kids /\ Done(n) /\ UNCHANGED <<setupVars, fs>>
      /\ UNCHANGED <<fs, package>> /\ UNCHANGED <<fs, setupVars>> /\ LinkedDir(n) /\ OtherPackage(n) /\ ~OwnLink(n)
  BY DEF ChildFolded, LinkedDir, OpenDir, FoundDir, Found, setupVars
<1>2. CASE ~(Readable(fs, a) /\ Readable(fs, b))
  BY <1>2, StopWhole DEF ChildFolded, CheckDirs, Stopped
<1>3. CASE Readable(fs, a) /\ Readable(fs, b)
  <2> DEFINE frame == [a |-> a, b |-> b, w |-> w,
                       common |-> Children(a) \cap Children(b), rest |-> Children(b) \ Children(a)]
  <2>1. /\ links' = M /\ deps' = Append(<<>>, frame) /\ phase' = "deps"
        /\ at' = [entry |-> w, into |-> w, base |-> a]
    BY <1>3 DEF ChildFolded, CheckDirs
  <2>2. IsLink(fs, w) /\ fs[w].ref = b /\ b \in Path /\ PlainDir(fs, b)
    BY <1>1, <1>3, WholeFacts, FoldedPlain
  <2>3. a \in Path /\ w \in Path /\ IsInDir(a, package) /\ w = Dest(a)
    BY <1>1, WholeFacts, ChildPlace
  <2>4. /\ Disk(fs) /\ links \in Seq(Op) /\ RemovesOthers(fs, links)
        /\ package \in Path /\ Target \in Path
    BY <1>1, WholeFacts DEF WholeReady, WholeInv
  <2>5. ~Own(fs, a)
    <3>1. LinkAt(fs, w)
      BY <1>1 DEF LinkedDir
    <3>2. Loc(fs, w) = w
      BY <1>1, <3>1, WholeFacts, ChildPlace
    <3>3. LinkBuf(fs, w) # a
      BY <1>1, <3>1 DEF OwnLink
    <3> HIDE DEF w, a
    <3> QED BY <2>3, <3>2, <3>3 DEF Own, LinkBuf
  <2> HIDE DEF w, a, b
  <2>6. /\ RemoveOp(w) \in Op /\ RemoveOp(w).origin = w
        /\ MkdirOp(w) \in Op /\ MkdirOp(w).act = "MKDIR"
    BY <2>3, NamedOpTyped DEF RemoveOp, MkdirOp, MkOp
  <2>7. ASSUME NEW c \in DOMAIN fs, Own(fs, c) PROVE w # Dest(c)
    <3>1. c \in Path /\ IsInDir(c, package)
      BY <2>4, <2>7 DEF Disk, Own
    <3> QED BY <2>3, <2>4, <2>5, <2>7, <3>1, DestApart
  <2>8. L \in Seq(Op) /\ Grown(links, L)
    BY <2>4, <2>6, PushGrows
  <2>9. RemovesOthers(fs, L)
    BY <2>4, <2>6, <2>7, PushOthers
  <2> HIDE DEF L
  <2>10. M \in Seq(Op) /\ Grown(L, M)
    BY <2>6, <2>8, PushGrows
  <2>11. RemovesOthers(fs, M)
    BY <2>6, <2>8, <2>9, PushOthers
  <2>12. Grown(links, M)
    BY <2>4, <2>8, <2>10, GrownTrans
  <2> HIDE DEF M
  <2>13. DirAt(fs, w)
    BY <2>2, <2>4, DirOfLink
  <2>14. DOMAIN deps' = {1} /\ deps'[1].a = a /\ deps'[1].common = Children(a) \cap Children(b)
    BY <2>1
  <2>15. ASSUME NEW q \in Due, IsInDir(q, a) PROVE Onward(q)'
    <3>1. ASSUME NEW d \in DOMAIN fs, Between(a, d, q), Blocks(d)
          PROVE  \E m \in Children(a) \cap Children(b) : IsInDir(d, Append(a, m))
      <4> DEFINE x == After(d, a)
      <4>1. d \in Path /\ IsInDir(d, a) /\ d # a /\ IsInDir(q, d)
        BY <2>4, <3>1 DEF Disk, Between
      <4>2. x \in Path /\ d = a \o x
        BY <2>3, <4>1, InDir
      <4> HIDE DEF x
      <4>3. x # <<>>
        BY <2>3, <4>1, <4>2, PathLen
      <4>4. Dest(d) = w \o x
        BY <2>3, <2>4, <4>2, DestBelow
      <4>5. Loc(fs, w \o x) = b \o x
        BY <2>2, <2>4, <4>2, <4>3, LocBelowLink
      <4>6. b \o x \in DOMAIN fs
        BY <3>1, <4>4, <4>5 DEF Blocks, IsFile
      <4>7. IsInDir(b, b)
        BY <2>2, InSelf
      <4> QED BY <2>2, <2>3, <3>1, <4>1, <4>2, <4>3, <4>6, <4>7, BlockCommon
    <3>2. \A d \in DOMAIN fs : Between(a, d, q) /\ Blocks(d)
             => \E k \in {1} : \E m \in Children(a) \cap Children(b) : IsInDir(d, Append(a, m))
      BY <3>1
    <3>3. PICK D : deps' = D
      OBVIOUS
    <3>4. DOMAIN D = {1} /\ D[1].a = a /\ D[1].common = Children(a) \cap Children(b)
      BY <2>14, <3>3
    <3>5. at'.base = a /\ at'.entry = w
      BY <2>1
    <3> QED BY <1>1, <2>1, <2>13, <2>15, <3>2, <3>3, <3>4, <3>5, OnwardDeps
  <2> QED BY <1>1, <2>1, <2>10, <2>11, <2>12, <2>15, ChildWhole DEF Planning, a
<1> QED BY <1>2, <1>3

LEMMA CheckChildWhole ==
    ASSUME WholeReady, NEW n \in Name, CheckChild(n)
    PROVE  WholeInv'
<1>1. TidyReady
  BY WholeFacts
<1>2. ~ChildExec(n) /\ ~ChildCopied(n)
  BY <1>1, NoCopies DEF ChildExec, ChildCopied
<1>3. ~ChildTraversed(n) /\ ~ChildAutoTraverse(n)
  BY <1>1, TidyFacts DEF ChildTraversed, ChildAutoTraverse, match_auto_traverse
<1> QED BY <1>2, <1>3, OwnWhole, ConflictWhole, DirWhole, FoldedWhole, MissingWhole DEF CheckChild
-----------------------------------------------------------------------------
LEMMA WaitingSame ==
    ASSUME UNCHANGED <<stack, fs, package>>, NEW q
    PROVE  Waiting(q)' <=> Waiting(q)
BY DEF Waiting, Clear, Blocks, Dest, Between

\* checkDirs goes on: what was in the way is still to come.
LEMMA DepsWhole ==
    ASSUME WholeReady, phase = "deps", phase' = "deps", UNCHANGED <<stack, at>>,
           UNCHANGED <<fs, setupVars>>,
           NEW M \in Seq(Op), links' = M, Grown(links, M), RemovesOthers(fs, M),
           NEW D, deps' = D,
           \A q \in Due : \A d \in DOMAIN fs : \A k \in DOMAIN deps : \A m \in deps[k].common :
              /\ IsInDir(q, at.base) /\ Between(at.base, d, q) /\ Blocks(d)
              /\ IsInDir(d, Append(deps[k].a, m))
              => \E j \in DOMAIN D : \E i \in D[j].common : IsInDir(d, Append(D[j].a, i))
    PROVE  WholeInv'
<1>1. UNCHANGED <<fs, package>> /\ UNCHANGED <<stack, fs, package>>
  BY DEF setupVars
<1>2. ASSUME NEW q \in Due, Onward(q) PROVE Onward(q)'
  <2>1. PICK a : a = at.base
    OBVIOUS
  <2>2. PICK w : w = at.entry
    OBVIOUS
  <2>3. at'.base = a /\ at'.entry = w
    BY <2>1, <2>2
  <2>4. IsInDir(q, a) /\ DirAt(fs, w)
    BY <1>2, <2>1, <2>2 DEF Onward
  <2>5. \A d \in DOMAIN fs : Between(a, d, q) /\ Blocks(d)
            => \E j \in DOMAIN D : \E i \in D[j].common : IsInDir(d, Append(D[j].a, i))
    <3> SUFFICES ASSUME NEW d \in DOMAIN fs, Between(a, d, q), Blocks(d)
                 PROVE  \E j \in DOMAIN D : \E i \in D[j].common : IsInDir(d, Append(D[j].a, i))
      OBVIOUS
    <3>1. PICK k \in DOMAIN deps : \E m \in deps[k].common : IsInDir(d, Append(deps[k].a, m))
      BY <1>2, <2>1 DEF Onward
    <3> QED BY <2>1, <2>4, <3>1
  <2> QED BY <1>1, <2>3, <2>4, <2>5, OnwardDeps
<1>3. \A q : Waiting(q)' <=> Waiting(q)
  BY <1>1, WaitingSame
<1> QED BY <1>2, <1>3, WholeKept DEF Planning

\* What is in the way below a name both packages have is a directory there, and
\* below that name again a name that both have.
LEMMA DepsBlock ==
    ASSUME WholeReady, phase = "deps", NEW n \in Name, NEW q \in Due,
           NEW d \in DOMAIN fs, Between(at.base, d, q), Blocks(d), IsInDir(d, A(n))
    PROVE  /\ IsDirNode(A(n))
           /\ IsDirNode(B(n)) => \E m \in Children(A(n)) \cap Children(B(n)) : IsInDir(d, Append(A(n), m))
<1> DEFINE e == at.entry  r == fs[at.entry].ref  c == at.base
<1>1. /\ Ready /\ Disk(fs) /\ package \in Path /\ Target \in Path
      /\ StowDir \in Path /\ IsInDir(package, StowDir) /\ PlainDir(fs, StowDir)
  BY WholeFacts
<1>2. /\ A(n) \in Path /\ B(n) \in Path /\ W(n) \in Path /\ e \in Path /\ r \in Path /\ c \in Path
      /\ PlainDir(fs, r) /\ IsInDir(A(n), StowDir) /\ IsInDir(B(n), r)
      /\ \E y \in Path : W(n) = e \o y /\ A(n) = c \o y /\ B(n) = r \o y
  BY <1>1, DepsFacts
<1>3. PICK y \in Path : W(n) = e \o y /\ A(n) = c \o y /\ B(n) = r \o y
  BY <1>2
<1>4. IsLink(fs, e) /\ at.into = e
  BY <1>1 DEF Ready, PlannerOK, DepsOK
<1>5. IsInDir(c, package) /\ e = Dest(c)
  BY <1>4 DEF WholeReady, TidyReady, TidyInv, Aligned, Dest
<1>6. d \in Path /\ q \in Path /\ IsInDir(q, d) /\ d # q /\ q \in DOMAIN fs /\ d # c
  BY <1>1, DueFacts DEF Disk, Between
<1> HIDE DEF e, r, c
<1>7. IsDir(fs, d)
  BY <1>1, <1>6, DirAbove
<1>8. IsDir(fs, A(n))
  BY <1>1, <1>2, <1>7, DirOver
<1>9. IsDirNode(A(n))
  BY <1>1, <1>2, <1>8, PlainName DEF IsDirNode
<1> DEFINE x == After(d, A(n))
<1>10. x \in Path /\ d = A(n) \o x
  BY <1>2, <1>6, InDir
<1> HIDE DEF x
<1>11. y \o x \in Path
  BY <1>10, JoinPath
<1>12. d = c \o (y \o x)
  <2>1. (c \o y) \o x = c \o (y \o x)
    BY <1>2, <1>10, JoinAssoc
  <2> QED BY <1>3, <1>10, <2>1
<1>13. y \o x # <<>>
  BY <1>2, <1>6, <1>12, PathLen
<1>14. Dest(d) = e \o (y \o x)
  BY <1>1, <1>2, <1>5, <1>11, <1>12, DestBelow
<1>15. Loc(fs, Dest(d)) = r \o (y \o x)
  <2>1. fs[e].ref = r
    BY DEF e, r
  <2> QED BY <1>1, <1>2, <1>4, <1>11, <1>13, <1>14, <2>1, LocBelowLink
<1>16. r \o (y \o x) = B(n) \o x
  <2>1. (r \o y) \o x = r \o (y \o x)
    BY <1>2, <1>10, JoinAssoc
  <2> QED BY <1>3, <2>1
<1>17. IsFile(fs, B(n) \o x)
  BY <1>15, <1>16 DEF Blocks
<1>18. ASSUME IsDirNode(B(n))
       PROVE  \E m \in Children(A(n)) \cap Children(B(n)) : IsInDir(d, Append(A(n), m))
  <2>1. IsDir(fs, B(n))
    BY <1>1, <1>2, <1>18, PlainName DEF IsDirNode
  <2>2. x # <<>>
    <3>1. SUFFICES ASSUME x = <<>> PROVE FALSE
      OBVIOUS
    <3>2. B(n) \o x = B(n)
      BY <1>2, <3>1, PathLen
    <3> QED BY <1>17, <2>1, <3>2 DEF IsFile, IsDir
  <2>3. IsInDir(A(n), package)
    <3>1. IsInDir(A(n), c)
      BY <1>2, <1>3, JoinIn
    <3> QED BY <1>1, <1>2, <1>5, <3>1, InTrans
  <2>4. A(n) \o x \in DOMAIN fs /\ IsInDir(q, A(n) \o x)
    BY <1>6, <1>10
  <2>5. B(n) \o x \in DOMAIN fs
    BY <1>17 DEF IsFile
  <2>6. \E m \in Children(A(n)) \cap Children(B(n)) : IsInDir(A(n) \o x, Append(A(n), m))
    BY <1>2, <1>10, <2>2, <2>3, <2>4, <2>5, BlockCommon
  <2> QED BY <1>10, <2>6
<1> QED BY <1>9, <1>18

LEMMA DepsHarmlessWhole ==
    ASSUME WholeReady, NEW n \in Name, DepsHarmless(n)
    PROVE  WholeInv'
<1>1. /\ phase = "deps" /\ phase' = "deps" /\ UNCHANGED <<stack, at>> /\ UNCHANGED <<fs, setupVars>>
      /\ UNCHANGED links /\ deps' = Handled(n) /\ ~IsDirNode(A(n))
  BY DEF DepsHarmless, Shared, Harmless
<1>2. /\ links \in Seq(Op) /\ Grown(links, links) /\ RemovesOthers(fs, links)
      /\ deps \in Seq(DepsCall) /\ deps # <<>>
  BY <1>1, WholeFacts, GrownSelf DEF WholeReady, WholeInv, CheckOK, CheckTypeOK
<1>3. PICK D : D = Handled(n)
  OBVIOUS
<1>4. /\ DOMAIN D = DOMAIN deps
      /\ \A k \in DOMAIN deps : D[k].a = deps[k].a
            /\ \A m \in deps[k].common : m \in D[k].common \/ (k = Len(deps) /\ m = n)
  BY <1>2, <1>3, HandledSame
<1>5. ASSUME NEW q \in Due, NEW d \in DOMAIN fs, NEW k \in DOMAIN deps, NEW m \in deps[k].common,
             Between(at.base, d, q), Blocks(d), IsInDir(d, Append(deps[k].a, m))
      PROVE  \E j \in DOMAIN D : \E i \in D[j].common : IsInDir(d, Append(D[j].a, i))
  <2>1. CASE k = Len(deps) /\ m = n
    BY <1>1, <1>5, <2>1, DepsBlock DEF A, Deps
  <2>2. CASE m \in D[k].common
    BY <1>4, <1>5, <2>2
  <2> QED BY <1>4, <2>1, <2>2
<1> QED BY <1>1, <1>2, <1>3, <1>5, DepsWhole

LEMMA DepsLinkWhole ==
    ASSUME WholeReady, NEW n \in Name, DepsLink(n)
    PROVE  WholeInv'
<1> DEFINE l == LinkOp(B(n), W(n))  M == Push(links, l)
<1>1. /\ phase = "deps" /\ phase' = "deps" /\ UNCHANGED <<stack, at>> /\ UNCHANGED <<fs, setupVars>>
      /\ links' = M /\ deps' = [deps EXCEPT ![Len(deps)].rest = @ \ {n}]
  BY DEF DepsLink
<1>2. /\ Ready /\ links \in Seq(Op) /\ RemovesOthers(fs, links) /\ deps \in Seq(DepsCall)
  BY <1>1, WholeFacts DEF WholeReady, WholeInv
<1>3. l \in Op /\ l.act = "SET_LINK"
  <2>1. B(n) \in Path /\ W(n) \in Path
    BY <1>1, <1>2, DepsFacts
  <2> QED BY <2>1, NamedOpTyped DEF LinkOp, MkOp
<1> HIDE DEF l
<1>4. M \in Seq(Op) /\ Grown(links, M)
  BY <1>2, <1>3, PushGrows
<1>5. RemovesOthers(fs, M)
  BY <1>2, <1>3, PushOthers
<1> HIDE DEF M
<1>6. PICK D : D = [deps EXCEPT ![Len(deps)].rest = @ \ {n}]
  OBVIOUS
<1>7. DOMAIN D = DOMAIN deps /\ \A k \in DOMAIN deps : D[k].a = deps[k].a /\ D[k].common = deps[k].common
  BY <1>2, <1>6 DEF DepsCall
<1> QED BY <1>1, <1>4, <1>5, <1>6, <1>7, DepsWhole

LEMMA DepsDirWhole ==
    ASSUME WholeReady, NEW n \in Name, DepsDir(n)
    PROVE  WholeInv'
<1> DEFINE l == MkdirOp(W(n))  M == Push(links, l)
           frame == [a |-> A(n), b |-> B(n), w |-> W(n),
                     common |-> Children(A(n)) \cap Children(B(n)),
                     rest   |-> Children(B(n)) \ Children(A(n))]
<1>1. CASE ~(Readable(fs, A(n)) /\ Readable(fs, B(n)))
  BY <1>1, StopWhole DEF DepsDir, CheckDirs, Stopped
<1>2. CASE Readable(fs, A(n)) /\ Readable(fs, B(n))
  <2>1. /\ phase = "deps" /\ phase' = "deps" /\ UNCHANGED <<stack, at>> /\ UNCHANGED <<fs, setupVars>>
        /\ links' = M /\ deps' = Append(Handled(n), frame) /\ IsDirNode(B(n))
    BY <1>2 DEF DepsDir, CheckDirs, Shared
  <2>2. /\ Ready /\ links \in Seq(Op) /\ RemovesOthers(fs, links)
        /\ deps \in Seq(DepsCall) /\ deps # <<>>
    BY <2>1, WholeFacts DEF WholeReady, WholeInv, CheckOK, CheckTypeOK
  <2>3. l \in Op /\ l.act = "MKDIR"
    <3>1. W(n) \in Path
      BY <2>1, <2>2, DepsFacts
    <3> QED BY <3>1, NamedOpTyped DEF MkdirOp, MkOp
  <2> HIDE DEF l
  <2>4. M \in Seq(Op) /\ Grown(links, M)
    BY <2>2, <2>3, PushGrows
  <2>5. RemovesOthers(fs, M)
    BY <2>2, <2>3, PushOthers
  <2> HIDE DEF M
  <2>6. PICK H : H = Handled(n)
    OBVIOUS
  <2>7. /\ H \in Seq(DepsCall) /\ DOMAIN H = DOMAIN deps
        /\ \A k \in DOMAIN deps : H[k].a = deps[k].a
              /\ \A m \in deps[k].common : m \in H[k].common \/ (k = Len(deps) /\ m = n)
    BY <2>2, <2>6, HandledSame
  <2>8. frame.a = A(n) /\ frame.common = Children(A(n)) \cap Children(B(n))
    OBVIOUS
  <2> HIDE DEF frame
  <2>9. PICK D : D = Append(H, frame)
    OBVIOUS
  <2>12. deps' = D
    BY <2>1, <2>6, <2>9
  <2>10. /\ Len(H) + 1 \in DOMAIN D /\ D[Len(H) + 1] = frame
         /\ \A k \in DOMAIN deps : k \in DOMAIN D /\ D[k] = H[k]
    BY <2>7, <2>9
  <2>11. ASSUME NEW q \in Due, NEW d \in DOMAIN fs, NEW k \in DOMAIN deps, NEW m \in deps[k].common,
                IsInDir(q, at.base), Between(at.base, d, q), Blocks(d), IsInDir(d, Append(deps[k].a, m))
         PROVE  \E j \in DOMAIN D : \E i \in D[j].common : IsInDir(d, Append(D[j].a, i))
    <3>1. CASE k = Len(deps) /\ m = n
      <4>1. IsInDir(d, A(n))
        BY <2>11, <3>1 DEF A, Deps
      <4>2. \E i \in frame.common : IsInDir(d, Append(frame.a, i))
        BY <2>1, <2>8, <2>11, <4>1, DepsBlock
      <4> QED BY <2>10, <4>2
    <3>2. CASE m \in H[k].common
      BY <2>7, <2>10, <2>11, <3>2
    <3> QED BY <2>7, <3>1, <3>2
  <2> QED BY <2>1, <2>4, <2>5, <2>12, <2>11, DepsWhole
<1> QED BY <1>1, <1>2

LEMMA CheckDepsWhole ==
    ASSUME WholeReady, NEW n \in Name, CheckDeps(n)
    PROVE  WholeInv'
<1>1. CASE DepsConflict(n)
  <2>1. phase' = "refused"
    BY <1>1, WholeFacts DEF DepsConflict, Stop
  <2> QED BY <2>1, StopWhole DEF Stopped
<1> QED BY <1>1, DepsHarmlessWhole, DepsLinkWhole, DepsDirWhole DEF CheckDeps

\* The outermost checkDirs has come to everything in the way, so nothing is.
LEMMA DepsReturnWhole ==
    ASSUME WholeReady, DepsReturn
    PROVE  WholeInv'
<1>1. /\ phase = "deps" /\ Deps.common = {} /\ UNCHANGED <<stack, at>> /\ UNCHANGED <<fs, setupVars>>
      /\ UNCHANGED <<fs, package>> /\ UNCHANGED <<stack, fs, package>>
  BY DEF DepsReturn, setupVars
<1>2. /\ TidyReady /\ links \in Seq(Op) /\ Grown(links, links) /\ RemovesOthers(fs, links)
      /\ deps \in Seq(DepsCall) /\ deps # <<>>
  BY <1>1, WholeFacts, GrownSelf DEF WholeReady, WholeInv, CheckOK, CheckTypeOK
<1>3. Len(deps) \in DOMAIN deps /\ Len(deps) \in Nat /\ DOMAIN deps = 1..Len(deps)
  BY <1>2, EmptySeq
<1>4. \A k \in DOMAIN deps : deps[k].common # {} => k \in 1..(Len(deps) - 1)
  BY <1>1, <1>3 DEF Deps
<1>5. CASE Len(deps) > 1
  <2> DEFINE l == MkdirOp(Deps.w)  M == Push(links, l)
  <2>1. phase' = "deps" /\ links' = M /\ deps' = SubSeq(deps, 1, Len(deps) - 1)
    BY <1>5 DEF DepsReturn
  <2>2. l \in Op /\ l.act = "MKDIR"
    <3>1. Deps.w \in Path
      BY <1>1, <1>2, WTidy
    <3> QED BY <3>1, NamedOpTyped DEF MkdirOp, MkOp
  <2> HIDE DEF l
  <2>3. M \in Seq(Op) /\ Grown(links, M)
    BY <1>2, <2>2, PushGrows
  <2>4. RemovesOthers(fs, M)
    BY <1>2, <2>2, PushOthers
  <2> HIDE DEF M
  <2>5. PICK D : D = SubSeq(deps, 1, Len(deps) - 1)
    OBVIOUS
  <2>6. \A k \in 1..(Len(deps) - 1) : k \in DOMAIN D /\ D[k] = deps[k]
    BY <1>2, <1>3, <1>5, <2>5
  <2>7. deps' = D
    BY <2>1, <2>5
  <2>8. ASSUME NEW q \in Due, NEW d \in DOMAIN fs, NEW k \in DOMAIN deps, NEW m \in deps[k].common,
               IsInDir(q, at.base), Between(at.base, d, q), Blocks(d), IsInDir(d, Append(deps[k].a, m))
        PROVE  \E j \in DOMAIN D : \E i \in D[j].common : IsInDir(d, Append(D[j].a, i))
    <3>1. k \in DOMAIN D /\ D[k] = deps[k]
      BY <1>4, <2>6
    <3> QED BY <2>8, <3>1
  <2> QED BY <1>1, <2>1, <2>3, <2>4, <2>7, <2>8, DepsWhole
<1>6. CASE ~(Len(deps) > 1)
  <2>1. phase' = "dive" /\ links' = links
    BY <1>6 DEF DepsReturn
  <2>2. \A k \in DOMAIN deps : deps[k].common = {}
    BY <1>3, <1>4, <1>6
  <2>3. PICK a : a = at.base
    OBVIOUS
  <2>4. PICK w : w = at.entry
    OBVIOUS
  <2>5. PICK i : i = at.into
    OBVIOUS
  <2>6. at'.base = a /\ at'.entry = w /\ at'.into = i
    BY <1>1, <2>3, <2>4, <2>5
  <2>7. ASSUME NEW q \in Due, Onward(q) PROVE Onward(q)'
    <3>1. IsInDir(q, a) /\ DirAt(fs, w)
      BY <2>3, <2>4, <2>7 DEF Onward
    <3>2. Clear(q, a)
      BY <1>1, <2>2, <2>3, <2>7 DEF Onward, Clear
    <3> QED BY <1>1, <2>1, <2>6, <3>1, <3>2, OnwardDive
  <2>8. \A q : Waiting(q)' <=> Waiting(q)
    BY <1>1, WaitingSame
  <2> QED BY <1>1, <1>2, <2>1, <2>7, <2>8, WholeKept DEF Planning
<1> QED BY <1>5, <1>6
-----------------------------------------------------------------------------
\* Node::scan finds the name that leads on to a file to be installed.
LEMMA ChildOnWay ==
    ASSUME Disk(fs), package \in Path, StowDir \in Path, IsInDir(package, StowDir),
           PlainDir(fs, StowDir), Config.nignores = <<>>, Config.ignoreInDir = {},
           NEW a \in Path, IsInDir(a, package), IsDir(fs, a), NEW q \in Due, IsInDir(q, a)
    PROVE  \E n \in Children(a) : IsInDir(q, Append(a, n))
<1>1. q \in DOMAIN fs /\ q \in Path /\ ~IsDir(fs, q) /\ IsInDir(q, package)
  BY DueFacts
<1>2. PICK n \in Name : Append(a, n) \in DOMAIN fs /\ IsInDir(q, Append(a, n))
  BY <1>1, NextName
<1>3. ~match_ignore(n)
  BY <1>2, DueFacts
<1>4. n \in Children(a)
  <2>1. IsInDir(a, StowDir)
    BY InTrans
  <2> QED BY <1>2, <1>3, <2>1, ChildKept
<1> QED BY <1>2, <1>4

\* check is called for a directory: the calls above it wait as before, and the
\* new one waits for the rest of what is below its directory.
LEMMA EnterWhole ==
    ASSUME WholeReady, phase = "dive", Enter(at.into, at.base, stack),
           IsDir(fs, at.base), IsInDir(at.base, package)
    PROVE  WholeInv'
<1>1. CASE phase' \in Stopped
  BY <1>1, StopWhole
<1>2. CASE phase' \notin Stopped
  <2> DEFINE frame == [dir |-> at.into, base |-> at.base, kids |-> Children(at.base)]
  <2>1. /\ phase' = "check" /\ stack' = Append(stack, frame) /\ links' = links
        /\ UNCHANGED <<fs, setupVars>> /\ UNCHANGED <<fs, package>>
    BY <1>2 DEF Enter, Stop, Stopped, setupVars
  <2>2. /\ stack \in Seq(Call) /\ links \in Seq(Op) /\ Grown(links, links) /\ RemovesOthers(fs, links)
        /\ Disk(fs) /\ at.base \in Path /\ StowDir \in Path /\ package \in Path
        /\ IsInDir(package, StowDir) /\ PlainDir(fs, StowDir) /\ Config.nignores = <<>> /\ Config.ignoreInDir = {}
    BY WholeFacts, GrownSelf DEF WholeReady, WholeInv, Child, Planning
  <2>3. frame.dir = at.into /\ frame.base = at.base /\ frame.kids = Children(at.base)
    OBVIOUS
  <2> HIDE DEF frame
  <2>4. PICK S : S = Append(stack, frame)
    OBVIOUS
  <2>5. /\ Len(stack) + 1 \in DOMAIN S /\ S[Len(stack) + 1] = frame
        /\ \A k \in DOMAIN stack : k \in DOMAIN S /\ S[k] = stack[k]
    BY <2>2, <2>4
  <2>6. stack' = S
    BY <2>1, <2>4
  <2>8. ASSUME NEW q, NEW k \in DOMAIN S, NEW n \in S[k].kids,
               IsInDir(q, Append(S[k].base, n)), IsDir(fs, S[k].dir) \/ Clear(q, S[k].base)
        PROVE  Waiting(q)'
    BY <2>1, <2>6, <2>8 DEF Waiting, Clear, Blocks, Dest, Between
  <2>9. ASSUME NEW q \in Due, Waiting(q) PROVE Waiting(q)'
    <3>1. PICK k \in DOMAIN stack : \E n \in stack[k].kids :
             /\ IsInDir(q, Append(stack[k].base, n))
             /\ IsDir(fs, stack[k].dir) \/ Clear(q, stack[k].base)
      BY <2>9 DEF Waiting
    <3> QED BY <2>5, <2>8, <3>1
  <2>10. ASSUME NEW q \in Due, Onward(q) PROVE Waiting(q)'
    <3>1. IsInDir(q, at.base) /\ (IsDir(fs, at.into) \/ Clear(q, at.base))
      BY <2>10 DEF Onward
    <3>2. PICK n \in Children(at.base) : IsInDir(q, Append(at.base, n))
      BY <2>2, <3>1, ChildOnWay
    <3> QED BY <2>3, <2>5, <2>8, <3>1, <3>2
  <2> QED BY <2>1, <2>2, <2>9, <2>10, WholeKept DEF Planning
<1> QED BY <1>1, <1>2

LEMMA DiveWhole ==
    ASSUME WholeReady, DiveNotDir \/ DiveCopyDir \/ Dive
    PROVE  WholeInv'
<1>1. phase = "dive" /\ TidyReady /\ Ready
  BY WholeFacts DEF DiveNotDir, DiveCopyDir, Dive
<1>2. CASE DiveNotDir
  <2>1. /\ phase' = "check" /\ UNCHANGED <<fs, setupVars>> /\ UNCHANGED <<stack, fs, package>>
        /\ UNCHANGED links /\ ~DirAt(fs, at.entry)
    BY <1>2 DEF DiveNotDir, Surface, setupVars
  <2>2. links \in Seq(Op) /\ Grown(links, links) /\ RemovesOthers(fs, links)
    BY <1>1, WholeFacts, GrownSelf DEF WholeReady, WholeInv
  <2>3. \A q : ~Onward(q)
    BY <2>1 DEF Onward
  <2>4. \A q : Waiting(q)' <=> Waiting(q)
    BY <2>1, WaitingSame
  <2> QED BY <1>1, <2>1, <2>2, <2>3, <2>4, WholeKept DEF Planning
<1>3. ~DiveCopyDir
  BY <1>1, NoCopies DEF DiveCopyDir
<1>4. CASE Dive
  <2>1. Enter(at.into, at.base, stack)
    BY <1>4 DEF Dive
  <2>2. CASE ~Usable(at.into)
    BY <2>1, <2>2, StopWhole DEF Enter, Stop, Stopped
  <2>3. CASE Usable(at.into)
    <3>1. IsDir(fs, at.base)
      BY <1>1, <2>3 DEF Usable, Ready, PlannerOK, FrameOK
    <3>2. IsInDir(at.base, package)
      BY <1>1 DEF TidyReady, TidyInv, Aligned
    <3> QED BY <1>1, <2>1, <3>1, <3>2, EnterWhole
  <2> QED BY <2>2, <2>3
<1> QED BY <1>2, <1>3, <1>4

LEMMA CheckReturnWhole ==
    ASSUME WholeReady, CheckReturn
    PROVE  WholeInv'
<1>1. /\ phase = "check" /\ phase' = "check" /\ Top.kids = {} /\ Len(stack) > 1
      /\ stack' = SubSeq(stack, 1, Len(stack) - 1) /\ UNCHANGED <<links, setupVars, fs>>
      /\ UNCHANGED <<fs, setupVars>> /\ UNCHANGED <<fs, package>>
  BY DEF CheckReturn, setupVars
<1>2. /\ stack \in Seq(Call) /\ stack # <<>>
      /\ links \in Seq(Op) /\ Grown(links, links) /\ RemovesOthers(fs, links)
  BY <1>1, WholeFacts, GrownSelf DEF WholeReady, WholeInv, CheckOK, CheckTypeOK
<1>3. \A k \in DOMAIN stack : stack[k].kids # {} => k \in DOMAIN stack' /\ stack'[k] = stack[k]
  BY <1>1, <1>2 DEF Top
<1>4. ASSUME NEW q \in Due, Waiting(q) PROVE Waiting(q)'
  <2>1. PICK k \in DOMAIN stack : \E n \in stack[k].kids :
            /\ IsInDir(q, Append(stack[k].base, n))
            /\ IsDir(fs, stack[k].dir) \/ Clear(q, stack[k].base)
    BY <1>4 DEF Waiting
  <2>2. k \in DOMAIN stack' /\ stack'[k] = stack[k]
    BY <1>3, <2>1
  <2> QED BY <1>1, <2>1, <2>2 DEF Waiting, Clear, Blocks, Dest, Between
<1> QED BY <1>1, <1>2, <1>4, WholeKept DEF Planning

\* Every step of the planner takes care of what was still to be looked at.
LEMMA CheckStepWhole ==
    ASSUME WholeReady, CheckStep
    PROVE  WholeInv'
BY CheckChildWhole, CheckDepsWhole, DepsReturnWhole, DiveWhole, CheckReturnWhole DEF CheckStep

\* check begins at the package: everything below it waits.
LEMMA BeginPassWhole ==
    ASSUME TypeOK, PlanInv, TidyInv, BeginPass, Config.ignoreInDir = {}
    PROVE  WholeInv'
<1>1. phase = "begin" /\ Enter(Target, package, <<>>) /\ links = <<>>
      /\ package \in Path /\ Target \in Path /\ StowDir \in Path /\ Disk(fs)
  BY SetupAssumption DEF BeginPass, PlanInv, TypeOK, SetupTypeOK
<1>2. CASE phase' \in Stopped
  BY <1>2, StopWhole
<1>3. CASE phase' \notin Stopped
  <2> DEFINE frame == [dir |-> Target, base |-> package, kids |-> Children(package)]
  <2>1. /\ Usable(Target) /\ Readable(fs, package) /\ phase' = "check" /\ links' = links
        /\ stack' = Append(<<>>, frame) /\ UNCHANGED <<fs, setupVars>>
        /\ UNCHANGED <<fs, host, package>> /\ UNCHANGED <<fs, package>>
    BY <1>1, <1>3 DEF Enter, Stop, Stopped, setupVars
  <2>2. Straight /\ IsInDir(package, StowDir) /\ Config.nignores = <<>> /\ PlainDir(fs, StowDir)
    BY <1>1, TidyIsStraight DEF Straight, PlanInv
  <2>3. IsDir(fs, Target) /\ IsDir(fs, package)
    BY <1>1, <2>1, <2>2, PlainName DEF Usable, Readable, Straight
  <2>4. DOMAIN stack' = {1} /\ stack'[1].dir = Target /\ stack'[1].base = package
        /\ stack'[1].kids = Children(package)
    BY <2>1
  <2>5. Due' = Due
    BY <2>1, <2>2, WantedSame
  <2>6. ASSUME NEW q \in Due PROVE Waiting(q)'
    <3>1. IsInDir(q, package)
      BY <1>1, DueFacts
    <3>2. IsInDir(package, package)
      BY <1>1, InSelf
    <3>3. PICK n \in Children(package) : IsInDir(q, Append(package, n))
      BY <1>1, <2>2, <2>3, <3>1, <3>2, ChildOnWay
    <3> QED BY <2>1, <2>3, <2>4, <3>3 DEF Waiting
  <2>7. DOMAIN links' = {}
    BY <1>1, <2>1
  <2>8. RemovesOthers(fs, links)'
    BY <2>7 DEF RemovesOthers
  <2> QED BY <2>1, <2>5, <2>6, <2>8 DEF WholeInv
<1> QED BY <1>2, <1>3
-----------------------------------------------------------------------------
(***************************************************************************)
(* The executor.                                                           *)
(***************************************************************************)
\* At most the place p, which is in no package, is not what it was.
Else(p) ==
    /\ ~IsInDir(p, package)
    /\ \A q : q # p => (q \in DOMAIN fs <=> q \in DOMAIN fs') /\ (q \in DOMAIN fs => fs'[q] = fs[q])

\* A link of the package is not taken away, and what is made stays.
LEMMA LinksStay ==
    ASSUME NEW p, Else(p), UNCHANGED package, RemovesOthers(fs, todo),
           NEW R, \A i \in DOMAIN R : \E j \in DOMAIN todo : R[i] = todo[j],
           p \in DOMAIN fs => \A a \in DOMAIN fs : Own(fs, a) => p # Dest(a),
           p \in DOMAIN fs /\ p \in DOMAIN fs' => fs'[p] = fs[p],
           \A i \in DOMAIN R : Removes(R, i) => R[i].origin \in DOMAIN fs
    PROVE  RemovesOthers(fs', R) /\ \A q : Linked(fs, q) => Linked(fs', q)
<1>1. ASSUME NEW i \in DOMAIN R, Removes(R, i), NEW a \in DOMAIN fs', Own(fs', a)
      PROVE  R[i].origin # Dest(a)
  <2>1. a \in DOMAIN fs
    BY <1>1 DEF Else, Own
  <2>2. CASE Dest(a) \in DOMAIN fs
    <3>1. Own(fs, a)
      BY <1>1, <2>2 DEF Else, Own, IsLink
    <3>2. PICK j \in DOMAIN todo : R[i] = todo[j]
      BY <1>1
    <3> QED BY <1>1, <2>1, <3>1, <3>2 DEF RemovesOthers, Removes
  <2>3. CASE Dest(a) \notin DOMAIN fs
    BY <1>1, <2>3
  <2> QED BY <2>2, <2>3
<1>2. ASSUME NEW q, NEW a \in DOMAIN fs, IsInDir(q, a), Own(fs, a) PROVE Linked(fs', q)
  <2>1. a \in DOMAIN fs' /\ Dest(a) \in DOMAIN fs
    BY <1>2 DEF Else, Own, IsLink
  <2>2. Dest(a) # p
    BY <1>2, <2>1
  <2>3. Own(fs', a)
    BY <1>2, <2>1, <2>2 DEF Else, Own, IsLink
  <2> QED BY <1>2, <2>1, <2>3 DEF Linked
<1> QED BY <1>1, <1>2 DEF RemovesOthers, Linked

\* What the executor does with a list that installs.
LEMMA ExecMoves ==
    ASSUME ExecOK, phase = "exec", ToDo, OpsTidy(todo), ~opt.unstow, ExecStep
    PROVE  \/ phase' = "failed"
           \/ todo = <<>> /\ fs' = fs /\ phase' = "done"
           \/ /\ todo # <<>> /\ phase' = "exec" /\ todo' = Rest
              /\ \/ Current.act = "REMOVE" /\ fs' \in {fs, Drop(fs, Current.origin)}
                 \/ /\ Current.act # "REMOVE" /\ Current.target \notin DOMAIN fs
                    /\ \E n \in Node :
                          /\ fs' = Put(fs, Current.target, n)
                          /\ Current.act = "SET_LINK" => n = Link(Current.origin)
<1>1. CASE ExecEnd
  BY <1>1 DEF ExecEnd
<1>2. ~ExecBegin
  BY DEF ExecBegin, Planned
<1>3. ~(file_copy \/ dir_copy \/ ExecCommand)
  <2> SUFFICES ASSUME todo # <<>>, Current.act \in {"COPY", "COPY_DIR", "EXEC"} PROVE FALSE
    BY DEF file_copy, dir_copy, ExecCommand, Doing
  <2>1. Current.act \in {"REMOVE", "MKDIR", "SET_LINK"}
    BY PlaceTidy
  <2> QED BY <2>1
<1>4. CASE ExecRemoveDir \/ ExecUnlink
  <2> DEFINE p == Current.origin
  <2>1. todo # <<>> /\ Current.act = "REMOVE"
    BY <1>4 DEF ExecRemoveDir, ExecUnlink, Doing
  <2>2. \/ phase' = "failed"
        \/ \E F \in {fs, Drop(fs, p)} : Removed(p, F)
    BY <1>4 DEF ExecRemoveDir, ExecUnlink, Failed
  <2>3. \A F : ParentRemoval(F, p) = <<>>
    BY DEF ParentRemoval
  <2>4. Rest \o <<>> = Rest
    BY <2>1, CurrentTyped
  <2> QED BY <2>1, <2>2, <2>3, <2>4 DEF Removed
<1>5. CASE ExecMkdir \/ ExecSetLink
  <2> DEFINE t == Current.target
  <2>1. todo # <<>> /\ Current.act # "REMOVE"
    BY <1>5 DEF ExecMkdir, ExecSetLink, Doing
  <2>2. Loc(fs, t) = t
    BY <2>1, MakePlace DEF ToDo
  <2>3. Dir \in Node /\ Link(Current.origin) \in Node
    BY <2>1, CurrentTyped, NewNode
  <2>4. CASE ExecMkdir
    BY <2>1, <2>2, <2>3, <2>4 DEF ExecMkdir, Doing, Try, Failed, CanMake, Lexists
  <2>5. CASE ExecSetLink
    BY <2>1, <2>2, <2>3, <2>5 DEF ExecSetLink, Doing, Try, Failed, CanMake, Lexists
  <2> QED BY <1>5, <2>4, <2>5
<1> QED BY <1>1, <1>2, <1>3, <1>4, <1>5 DEF ExecStep

\* The part of WholeInv that is about the executor, on disk F with list L.
ExecWhole(F, L, D) == RemovesOthers(F, L) /\ \A q \in D : Linked(F, q) \/ ToLink(L, q)

\* An operation done is a link there, where it was one to be made.
LEMMA MoveWhole ==
    ASSUME ExecOK, phase = "exec", ToDo, OpsTidy(todo), ~opt.unstow, ExecStep, phase' = "exec",
           Config.nignores = <<>>, package \in Path, Target \in Path, StowDir \in StowRoots,
           IsInDir(package, StowDir), UNCHANGED <<host, package>>, ExecWhole(fs, todo, Due)
    PROVE  Due' = Due /\ ExecWhole(fs', todo', Due)
<1>1. /\ todo # <<>> /\ todo' = Rest
      /\ \/ Current.act = "REMOVE" /\ fs' \in {fs, Drop(fs, Current.origin)}
         \/ /\ Current.act # "REMOVE" /\ Current.target \notin DOMAIN fs
            /\ \E n \in Node : /\ fs' = Put(fs, Current.target, n)
                               /\ Current.act = "SET_LINK" => n = Link(Current.origin)
  BY ExecMoves
<1>2. /\ todo \in Seq(Op) /\ 1 \in DOMAIN todo /\ Current = todo[1] /\ Rest = SubSeq(todo, 2, Len(todo))
      /\ DOMAIN Rest = 1..(Len(todo) - 1) /\ Len(todo) \in Nat /\ Disk(fs)
      /\ \A i \in 1..(Len(todo) - 1) : Rest[i] = todo[i + 1] /\ i + 1 \in DOMAIN todo
  BY <1>1, RestIs, EmptySeq DEF ExecOK, ExecTypeOK, CheckOK, Current, Rest
<1>3. \A i \in DOMAIN Rest : \E j \in DOMAIN todo : Rest[i] = todo[j]
  BY <1>2
<1>4. \A i \in DOMAIN Rest : Removes(Rest, i) => Rest[i].origin \in DOMAIN fs
  BY <1>2 DEF ToDo, TodoOK, Removes, IsLink, IsDir
<1> DEFINE p == Place(Current)
<1>5. Outside(p)
  BY <1>1, PlaceTidy
<1>6. ~IsInDir(p, package)
  <2>1. p \in Path /\ StowDir \in Path
    BY <1>1, CurrentTyped, SetupAssumption DEF Place
  <2>2. ~IsInDir(p, StowDir)
    BY <1>5 DEF Outside
  <2> QED BY <2>1, <2>2, InTrans
<1>7. Else(p) /\ (p \in DOMAIN fs /\ p \in DOMAIN fs' => fs'[p] = fs[p])
  <2>1. CASE Current.act = "REMOVE"
    <3>1. Loc(fs, p) = p
      BY <1>1, <2>1, RemovePlace DEF ToDo, Place
    <3> QED BY <1>1, <1>6, <2>1, <3>1 DEF Else, Drop, Place
  <2>2. CASE Current.act # "REMOVE"
    BY <1>1, <1>6, <2>2 DEF Else, Put, Place
  <2> QED BY <2>1, <2>2
<1>8. p \in DOMAIN fs => \A a \in DOMAIN fs : Own(fs, a) => p # Dest(a)
  BY <1>1, <1>2 DEF ExecWhole, RemovesOthers, Removes, Place
<1>9. RemovesOthers(fs', Rest) /\ \A q : Linked(fs, q) => Linked(fs', q)
  BY <1>3, <1>4, <1>7, <1>8, LinksStay DEF ExecWhole
<1>10. Due' = Due
  <2>1. \A q : IsInDir(q, package) =>
           (q \in DOMAIN fs <=> q \in DOMAIN fs') /\ (q \in DOMAIN fs => fs'[q] = fs[q])
    BY <1>6, <1>7 DEF Else
  <2> QED BY <2>1, WantedKept
<1>11. ASSUME NEW q \in Due, ToLink(todo, q) PROVE Linked(fs', q) \/ ToLink(Rest, q)
  <2>1. PICK j \in DOMAIN todo :
            /\ todo[j].act = "SET_LINK"
            /\ IsInDir(q, todo[j].origin) /\ IsInDir(todo[j].origin, package)
            /\ todo[j].target = Dest(todo[j].origin)
    BY <1>11 DEF ToLink
  <2>2. CASE j = 1
    <3> DEFINE a == Current.origin  t == Current.target
    <3>1. /\ Current.act = "SET_LINK" /\ IsInDir(q, a) /\ IsInDir(a, package) /\ t = Dest(a)
          /\ fs' = Put(fs, t, Link(a))
      BY <1>1, <1>2, <2>1, <2>2
    <3>2. q \in DOMAIN fs /\ q \in Path /\ a \in Path
      BY <1>1, <1>2, CurrentTyped, DueFacts
    <3>3. a \in DOMAIN fs
      BY <1>2, <3>1, <3>2, DirAbove DEF IsDir
    <3>4. a \in DOMAIN fs' /\ Own(fs', a)
      BY <3>1, <3>3 DEF Own, Put, IsLink, Link
    <3> QED BY <3>1, <3>4 DEF Linked
  <2>3. CASE j # 1
    <3>1. j - 1 \in DOMAIN Rest /\ Rest[j - 1] = todo[j]
      BY <1>2, <2>1, <2>3
    <3> QED BY <2>1, <3>1 DEF ToLink
  <2> QED BY <2>2, <2>3
<1> QED BY <1>1, <1>9, <1>10, <1>11 DEF ExecWhole
-----------------------------------------------------------------------------
\* The configuration does not change, and the options not within a pass.
LEMMA HostKept ==
    ASSUME [Next]_vars
    PROVE  host' = host
<1>1. Check => UNCHANGED host
  BY DEF Check, CheckStep, CheckChild, ChildOwn, ChildExec, ChildCopied, ChildConflict,
     ChildProtected, ChildDir, ChildTraversed, ChildAutoTraverse, ChildForeign, ChildFolded,
     ChildMissing, Skip, Plan, Obstacle, Stop, CheckDeps, DepsDir, DepsHarmless, DepsConflict,
     DepsLink, DepsReturn, DiveNotDir, DiveCopyDir, Dive, Surface, Enter, CheckReturn, setupVars
<1>2. Exec => UNCHANGED host
  BY DEF Exec, ExecStep, ExecBegin, ExecRemoveDir, ExecUnlink, ExecMkdir, ExecSetLink, file_copy,
     dir_copy, ExecCommand, ExecEnd, Frame, setupVars
<1>3. User \/ UserEdit \/ BeginPass \/ Again \/ NextPackage \/ Return \/ Die => UNCHANGED host
  BY DEF User, Start, StartUnknown, UserEdit, BeginPass, Enter, Stop, Again, NextPackage, Return,
     Die, Quit, setupVars
<1> QED BY <1>1, <1>2, <1>3 DEF Next, Process, vars, setupVars

\* Everything the argument needs.
WholeAll == TidyAll /\ Config.ignoreInDir = {} /\ WholeInv

\* Where the executor is, what it has done and has to do takes care of all.
LEMMA ExecInv ==
    ASSUME phase' = "exec" \/ (phase' = "done" /\ todo' = <<>>), UNCHANGED package,
           Due' = Due, ExecWhole(fs', todo', Due)
    PROVE  WholeInv'
<1>1. PICK F : F = fs'
  OBVIOUS
<1>2. PICK L : L = todo'
  OBVIOUS
<1>3. RemovesOthers(F, L) /\ \A q \in Due : Linked(F, q) \/ ToLink(L, q)
  BY <1>1, <1>2 DEF ExecWhole
<1>4. /\ RemovesOthers(F, L) <=> RemovesOthers(fs, todo)'
      /\ \A q : (Linked(fs, q)' <=> Linked(F, q)) /\ (ToLink(todo, q)' <=> ToLink(L, q))
  BY <1>1, <1>2 DEF RemovesOthers, Linked, ToLink, Own, Dest, Removes
<1>5. todo' = <<>> => \A q : ~ToLink(L, q)
  BY <1>2 DEF ToLink
<1> QED BY <1>3, <1>4, <1>5 DEF WholeInv

LEMMA ExecKeepsWhole ==
    ASSUME WholeAll, Exec
    PROVE  WholeInv'
<1>1. ExecOK /\ ExecStep /\ ExecPhases /\ UNCHANGED setupVars /\ UNCHANGED <<host, package, opt>>
  <2>1. ExecOK /\ ExecStep
    BY DEF WholeAll, TidyAll, Exec, TypeOK, CheckOK, ExecOK
  <2>2. UNCHANGED setupVars
    BY <2>1 DEF ExecStep, ExecBegin, ExecRemoveDir, ExecUnlink, ExecMkdir, ExecSetLink, file_copy,
                dir_copy, ExecCommand, ExecEnd, Frame
  <2> QED BY <2>1, <2>2, ExecStepTyped DEF setupVars
<1>2. /\ host \in DOMAIN Hosts /\ Config.nignores = <<>> /\ StowDir \in StowRoots
      /\ package \in Path /\ Target \in Path /\ IsInDir(package, StowDir)
  <2>1. TypeOK /\ TidyInv /\ PlanInv
    BY DEF WholeAll, TidyAll
  <2>2. host \in DOMAIN Hosts /\ package \in Path /\ Target \in Path
    BY <2>1, SetupAssumption DEF TypeOK, SetupTypeOK
  <2> QED BY <1>1, <2>1, <2>2, RootsTyped DEF TidyInv, TidyHost, Config, PlanInv, ExecPhases
<1>3. CASE ~Stows
  BY <1>1, <1>3 DEF WholeInv, Stows
<1>4. CASE Stows /\ phase = "check"
  <2>1. ExecBegin
    BY <1>1, <1>4 DEF ExecStep, ExecRemoveDir, ExecUnlink, ExecMkdir, ExecSetLink, file_copy,
                dir_copy, ExecCommand, ExecEnd, Doing
  <2>2. \/ phase' = "done" /\ Dry'
        \/ phase' = "exec" /\ todo' = links /\ fs' = fs
    BY <1>1, <2>1 DEF ExecBegin, Dry
  <2>3. CASE phase' = "done" /\ Dry'
    BY <2>3 DEF WholeInv
  <2>4. CASE phase' = "exec" /\ todo' = links /\ fs' = fs
    <3>1. \A k \in DOMAIN stack : stack[k].kids = {}
      <4>1. stack \in Seq(Call) /\ Top.kids = {} /\ Len(stack) = 1
        BY <1>1, <2>1 DEF ExecBegin, Planned, ExecOK, CheckOK, CheckTypeOK
      <4> QED BY <4>1 DEF Top
    <3>2. \A q : ~Waiting(q)
      BY <3>1 DEF Waiting
    <3>3. Due' = Due
      BY <1>1, <1>2, <2>4, WantedSame
    <3>4. ExecWhole(fs', todo', Due)
      BY <1>4, <2>4, <3>2 DEF WholeAll, WholeInv, ExecWhole
    <3> QED BY <1>1, <2>4, <3>3, <3>4, ExecInv
  <2> QED BY <2>2, <2>3, <2>4
<1>5. CASE Stows /\ phase = "exec"
  <2>1. ToDo /\ OpsTidy(todo) /\ ExecWhole(fs, todo, Due) /\ ~opt.unstow
    BY <1>5 DEF WholeAll, TidyAll, PlanInv, TidyInv, ToDo, WholeInv, ExecWhole, Stows
  <2>2. CASE phase' = "exec"
    <3>1. Due' = Due /\ ExecWhole(fs', todo', Due)
      BY <1>1, <1>2, <1>5, <2>1, <2>2, MoveWhole
    <3> QED BY <1>1, <2>2, <3>1, ExecInv
  <2>3. CASE phase' # "exec"
    <3>1. phase' = "failed" \/ (todo = <<>> /\ fs' = fs /\ phase' = "done")
      BY <1>1, <1>5, <2>1, <2>3, ExecMoves
    <3>2. CASE phase' = "failed"
      BY <3>2 DEF WholeInv
    <3>3. CASE todo = <<>> /\ fs' = fs /\ phase' = "done"
      <4>1. Due' = Due
        BY <1>1, <1>2, <3>3, WantedSame
      <4>2. todo' = todo
        BY <1>1, <1>5, <3>3 DEF ExecStep, ExecBegin, Planned, ExecRemoveDir, ExecUnlink, ExecMkdir,
              ExecSetLink, file_copy, dir_copy, ExecCommand, ExecEnd, Doing
      <4> QED BY <1>1, <2>1, <3>3, <4>1, <4>2, ExecInv
    <3> QED BY <3>1, <3>2, <3>3
  <2> QED BY <2>2, <2>3
<1> QED BY <1>1, <1>3, <1>4, <1>5 DEF ExecPhases

\* What the user makes takes no link away.
LEMMA EditWhole ==
    ASSUME WholeAll, UserEdit
    PROVE  WholeInv'
<1>1. PICK e \in Hosts[host].edits :
          /\ CanMake(fs, e.place) /\ fs' = Put(fs, Loc(fs, e.place), e.node)
          /\ ~\E d \in StowRoots : IsInDir(Loc(fs, e.place), d)
  BY DEF UserEdit
<1> DEFINE l == Loc(fs, e.place)
<1>2. phase = "exec" /\ phase' = "exec" /\ todo' = todo /\ UNCHANGED <<host, package, opt>>
  BY DEF UserEdit, setupVars, execVars
<1>3. CASE ~Stows
  BY <1>2, <1>3 DEF WholeInv, Stows
<1>4. CASE Stows
  <2>1. TypeOK /\ TidyInv /\ PlanInv /\ WholeInv
    BY DEF WholeAll, TidyAll
  <2>2. /\ host \in DOMAIN Hosts /\ package \in Path /\ StowDir \in Path /\ todo \in Seq(Op)
        /\ Disk(fs) /\ e.place \in Path /\ IsInDir(package, StowDir) /\ TodoOK(fs, todo)
    BY <1>2, <2>1, HostTyped, SetupAssumption DEF TypeOK, SetupTypeOK, ExecTypeOK, PlanInv, Edit
  <2>3. Config.nignores = <<>> /\ StowDir \in StowRoots
    BY <2>1, <2>2, RootsTyped DEF TidyInv, TidyHost, Config
  <2>4. l \in Path /\ l \notin DOMAIN fs
    BY <1>1, <2>2, LocPath DEF CanMake, Lexists
  <2>5. ~IsInDir(l, package)
    <3>1. ~IsInDir(l, StowDir)
      BY <1>1, <2>3
    <3> QED BY <2>2, <2>4, <3>1, InTrans
  <2> HIDE DEF l
  <2>6. fs' = Put(fs, l, e.node)
    BY <1>1 DEF l
  <2>7. Else(l)
    BY <2>5, <2>6 DEF Else, Put
  <2>8. \A i \in DOMAIN todo : Removes(todo, i) => todo[i].origin \in DOMAIN fs
    BY <2>2 DEF TodoOK, IsLink, IsDir
  <2>9. ExecWhole(fs, todo, Due)
    BY <1>2, <1>4, <2>1 DEF WholeInv, ExecWhole
  <2>10. RemovesOthers(fs', todo) /\ \A q : Linked(fs, q) => Linked(fs', q)
    BY <1>2, <2>4, <2>7, <2>8, <2>9, LinksStay DEF ExecWhole
  <2>11. Due' = Due
    <3>1. \A q : IsInDir(q, package) =>
             (q \in DOMAIN fs <=> q \in DOMAIN fs') /\ (q \in DOMAIN fs => fs'[q] = fs[q])
      BY <2>5, <2>7 DEF Else
    <3> QED BY <1>2, <2>3, <3>1, WantedKept
  <2>12. ExecWhole(fs', todo', Due)
    BY <1>2, <2>9, <2>10 DEF ExecWhole
  <2> QED BY <1>2, <2>11, <2>12, ExecInv
<1> QED BY <1>3, <1>4

LEMMA WholeNext == WholeAll /\ Unblocked /\ [Next]_vars => (WholeInv /\ Config.ignoreInDir = {})'
<1> SUFFICES ASSUME WholeAll, Unblocked, [Next]_vars PROVE WholeInv'
  <2>1. WholeAll /\ [Next]_vars => (Config.ignoreInDir = {})'
    BY HostKept DEF WholeAll, Config
  <2> QED BY <2>1
<1>2. ASSUME phase' \notin Planning \cup {"exec", "done"} PROVE WholeInv'
  BY <1>2 DEF WholeInv, Planning
<1>3. CASE User \/ Again \/ NextPackage \/ Return \/ Die
  <2>1. phase' \in {"begin", "idle"}
    BY <1>3 DEF User, Start, StartUnknown, Select, Again, NextPackage, Return, Die, Quit
  <2> QED BY <1>2, <2>1 DEF Planning
<1>4. CASE BeginPass
  BY <1>4, BeginPassWhole DEF WholeAll, TidyAll
<1>5. CASE Check
  <2>1. CheckOK /\ CheckStep /\ phase \in Planning /\ phase' \in Planning \cup Stopped
    BY <1>5, CheckStepTyped DEF Check, WholeAll, TidyAll, TypeOK, CheckOK, PlanStep
  <2>2. UNCHANGED <<host, opt>>
    BY <1>5 DEF Check, CheckStep, CheckChild, ChildOwn, ChildExec, ChildCopied, ChildConflict,
       ChildProtected, ChildDir, ChildTraversed, ChildAutoTraverse, ChildForeign, ChildFolded,
       ChildMissing, Skip, Plan, Obstacle, Stop, CheckDeps, DepsDir, DepsHarmless, DepsConflict,
       DepsLink, DepsReturn, DiveNotDir, DiveCopyDir, Dive, Surface, Enter, CheckReturn, setupVars
  <2>3. CASE Stows
    <3>1. TidyReady /\ StowDir \in stow_dirs
      BY <2>1, TidyIsStraight DEF TidyReady, WholeAll, TidyAll, PlanInv, Planning
    <3>2. WholeReady
      BY <2>3, <3>1 DEF WholeReady, WholeAll
    <3> QED BY <2>1, <3>2, CheckStepWhole
  <2>4. CASE ~Stows
    BY <2>2, <2>4 DEF WholeInv, Stows
  <2> QED BY <2>3, <2>4
<1>6. CASE Exec
  BY <1>6, ExecKeepsWhole
<1>7. CASE UserEdit
  BY <1>7, EditWhole
<1>8. CASE UNCHANGED vars
  <2>1. UNCHANGED <<fs, host, package, opt, phase, stack, deps, at, links, todo>>
        /\ UNCHANGED <<fs, host, package>>
    BY <1>8 DEF vars, setupVars, checkVars, execVars
  <2>2. Due' = Due
    <3>1. Config.nignores = <<>>
      BY DEF WholeAll, TidyAll, TidyInv, TidyHost, Config
    <3> QED BY <2>1, <3>1, WantedSame
  <2> QED BY <2>1, <2>2 DEF WholeAll, WholeInv, Stows, Dry, RemovesOthers, Removes, Linked, Own, Dest,
         ToLink, Waiting, Onward, Between, Clear, Blocks, DirAt
<1> QED BY <1>3, <1>4, <1>5, <1>6, <1>7, <1>8 DEF Next, Process

\* Below a link that has its place the package is seen.
LEMMA LinkedShows ==
    ASSUME WholeAll, phase # "idle", NEW f \in Wanted, Linked(fs, package \o f)
    PROVE  Shows(fs, package, f)
<1> DEFINE q == package \o f
<1>1. TypeOK /\ TidyInv /\ PlanInv
  BY DEF WholeAll, TidyAll
<1>2. /\ Disk(fs) /\ package \in Path /\ Target \in Path /\ StowDir \in Path
      /\ IsInDir(package, StowDir) /\ PlainDir(fs, StowDir)
  <2>1. host \in DOMAIN Hosts /\ Disk(fs) /\ package \in Path /\ Target \in Path /\ StowDir \in Path
    BY <1>1, SetupAssumption DEF TypeOK, SetupTypeOK
  <2>2. PlainDir(fs, StowDir)
    BY <1>1, <2>1, RootsTyped DEF TidyInv, TidyDisk
  <2> QED BY <1>1, <2>1, <2>2 DEF PlanInv
<1>3. q \in Due
  BY DEF Due
<1>4. q \in DOMAIN fs /\ q \in Path /\ IsInDir(q, package)
  BY <1>2, <1>3, DueFacts
<1>5. f \in Path
  <2>1. PICK r \in DOMAIN fs : IsStrictPrefix(package, r) /\ f = After(r, package)
    BY DEF Wanted, FilesOf
  <2>2. r \in Path /\ IsInDir(r, package)
    BY <1>2, <2>1 DEF Disk, IsStrictPrefix, IsInDir
  <2> QED BY <1>2, <2>1, <2>2, InDir
<1>6. Dest(q) = Target \o f
  BY <1>2, <1>5, JoinIn DEF Dest
<1>7. PICK a \in DOMAIN fs : IsInDir(q, a) /\ Own(fs, a)
  BY DEF Linked
<1>8. a \in Path /\ IsInDir(a, package) /\ IsLink(fs, Dest(a)) /\ fs[Dest(a)].ref = a
  BY <1>2, <1>7 DEF Disk, Own
<1> DEFINE z == After(q, a)
<1>9. z \in Path /\ q = a \o z
  BY <1>4, <1>7, <1>8, InDir
<1> HIDE DEF q, z
<1>10. Dest(q) = Dest(a) \o z /\ Dest(a) \in Path
  BY <1>2, <1>8, <1>9, DestBelow
<1>11. Lead(fs, Dest(q)) = q
  <2>1. CASE z = <<>>
    <3>1. q = a
      BY <1>8, <1>9, <2>1, PathLen
    <3>2. Loc(fs, Dest(a)) = Dest(a)
      BY <1>2, <1>8, LocOfNode DEF IsLink
    <3> QED BY <1>8, <1>10, <3>1, <3>2 DEF Lead, Follow
  <2>2. CASE z # <<>>
    <3>1. q # a
      BY <1>8, <1>9, <2>2, PathLen
    <3>2. IsDir(fs, a)
      BY <1>2, <1>4, <1>7, <1>8, <3>1, DirAbove
    <3>3. PlainDir(fs, a)
      <4>1. IsInDir(a, StowDir)
        BY <1>2, <1>8, InTrans
      <4> QED BY <1>2, <1>8, <3>2, <4>1, PlainBelow
    <3>4. Loc(fs, Dest(a) \o z) = a \o z
      <4>1. PICK l : l = Dest(a)
        OBVIOUS
      <4>2. IsLink(fs, l) /\ fs[l].ref = a
        BY <1>8, <4>1
      <4>3. Loc(fs, l \o z) = fs[l].ref \o z
        BY <1>2, <1>9, <2>2, <3>3, <4>2, LocBelowLink
      <4> QED BY <4>1, <4>2, <4>3
    <3>5. ~IsLink(fs, q)
      BY <1>4, <1>7, <3>3 DEF PlainDir
    <3>6. Loc(fs, Dest(q)) = q
      BY <1>9, <1>10, <3>4
    <3> QED BY <1>4, <3>5, <3>6 DEF Lead, Follow
  <2> QED BY <2>1, <2>2
<1> QED BY <1>6, <1>11 DEF Shows, q

LEMMA WholeIsComplete == WholeAll => Complete
<1> SUFFICES ASSUME WholeAll, Finished, ~opt.unstow, ~opt.force, NEW f \in Wanted PROVE Installed(f)
  BY DEF Complete
<1>1. Linked(fs, package \o f)
  BY DEF WholeAll, WholeInv, Stows, Finished, Due
<1>2. Shows(fs, package, f)
  BY <1>1, LinkedShows DEF Finished
<1> QED BY <1>2 DEF Installed

\* On a tidy host where no name of a package's directory is taken by a plain
\* file of the target, a stow pass that ends with success has installed every
\* file of the package that the configuration leaves (xstow.pod, exit code 0):
\* whatever was installed before, by whichever of the linked, unfolded and
\* shared directories the file is reached, and whatever the user makes outside
\* the packages while the plan is carried out.
THEOREM WholeInstalls == Spec /\ WholeHost(host) /\ []Unblocked => []Complete
<1>1. Init /\ WholeHost(host) => WholeAll
  <2> SUFFICES ASSUME Init, WholeHost(host) PROVE WholeAll
    OBVIOUS
  <2>1. TidyAll
    BY TypeInit, PlanInit, TidyInit DEF WholeHost, TidyAll
  <2>2. phase = "idle"
    BY DEF Init
  <2> QED BY <2>1, <2>2 DEF WholeAll, WholeHost, WholeInv, Config
<1>2. WholeAll /\ Unblocked /\ [Next]_vars => WholeAll'
  <2>1. TidyAll /\ [Next]_vars => TidyAll'
    BY TypeNext, TidyIsStraight, PlanNext, TidyNext DEF TidyAll
  <2> QED BY <2>1, WholeNext DEF WholeAll
<1> QED BY <1>1, <1>2, WholeIsComplete, PTL DEF Spec
-----------------------------------------------------------------------------
\* XStow puts no plain file anywhere on a tidy host.
LEMMA UnblockedNext ==
    ASSUME TidyAll, OpenHost(host), Unblocked, [Next]_vars
    PROVE  Unblocked'
<1>1. CASE fs' = fs
  BY <1>1 DEF Unblocked, NoFileInWay
<1>2. CASE fs' # fs
  <2>1. ASSUME NEW l, Outside(l), NEW F, F = fs',
               \A q : q # l => (q \in DOMAIN F => q \in DOMAIN fs /\ F[q] = fs[q]),
               ~IsFile(F, l)
        PROVE  Unblocked'
    <3> SUFFICES ASSUME NEW p \in Pkg, NEW q \in DOMAIN F, IsDir(F, q), IsInDir(q, PkgDir(p)),
                        IsFile(F, Target \o After(q, PkgDir(p)))
                 PROVE  FALSE
      BY <2>1 DEF Unblocked, NoFileInWay
    <3>1. IsFile(fs, Target \o After(q, PkgDir(p)))
      BY <2>1 DEF IsFile
    <3>2. q # l
      <4>1. StowDir \in StowRoots /\ StowRoots \subseteq Path /\ PkgDir(p) \in Path
            /\ IsInDir(PkgDir(p), StowDir) /\ Disk(F)
        BY <2>1, RootsTyped, TypeNext DEF TidyAll, TypeOK, SetupTypeOK
      <4>2. q \in Path
        BY <4>1 DEF Disk
      <4>3. IsInDir(q, StowDir)
        BY <4>1, <4>2, InTrans
      <4> QED BY <2>1, <4>1, <4>3 DEF Outside
    <3>3. IsDir(fs, q) /\ q \in DOMAIN fs
      BY <2>1, <3>2 DEF IsDir
    <3> QED BY <3>1, <3>3 DEF Unblocked, NoFileInWay
  <2>2. PICK F : F = fs'
    OBVIOUS
  <2>3. CASE ExecOK /\ ToDo /\ OpsTidy(todo) /\ todo # <<>> /\ Changes(Current)
    <3>1. Outside(Place(Current))
      BY <2>3, PlaceTidy
    <3>2. CASE Current.act = "REMOVE"
      <4> DEFINE l == Current.origin
      <4>1. Loc(fs, l) = l
        BY <2>3, <3>2, RemovePlace DEF ToDo
      <4>2. F = Drop(fs, l)
        BY <1>2, <2>2, <2>3, <3>2 DEF Changes
      <4>3. l \notin DOMAIN F /\ \A q \in DOMAIN F : q \in DOMAIN fs /\ F[q] = fs[q]
        BY <4>1, <4>2 DEF Drop
      <4> QED BY <2>1, <2>2, <3>1, <3>2, <4>3 DEF Place, IsFile
    <3>3. CASE Current.act # "REMOVE"
      <4> DEFINE l == Current.target
      <4>1. PICK n \in {Dir, Link(Current.origin)} : F = Put(fs, l, n)
        BY <1>2, <2>2, <2>3, <3>3 DEF Changes
      <4>2. n.kind # "file"
        BY DEF Dir, Link
      <4>3. F[l] = n /\ \A q \in DOMAIN F : q # l => q \in DOMAIN fs /\ F[q] = fs[q]
        BY <4>1 DEF Put
      <4> QED BY <2>1, <2>2, <3>1, <3>3, <4>2, <4>3 DEF Place, IsFile
    <3> QED BY <3>2, <3>3
  <2>4. CASE UserEdit
    <3>1. PICK e \in Hosts[host].edits :
              /\ F = Put(fs, Loc(fs, e.place), e.node)
              /\ ~\E r \in StowRoots : IsInDir(Loc(fs, e.place), r)
      BY <2>2, <2>4 DEF UserEdit
    <3> DEFINE l == Loc(fs, e.place)
    <3>2. Outside(l)
      BY <3>1 DEF Outside
    <3>3. e.node.kind # "file"
      BY DEF OpenHost
    <3> HIDE DEF l
    <3>4. F[l] = e.node /\ \A q \in DOMAIN F : q # l => q \in DOMAIN fs /\ F[q] = fs[q]
      BY <3>1 DEF Put, l
    <3> QED BY <2>1, <2>2, <3>2, <3>3, <3>4 DEF IsFile
  <2>5. Next
    BY <1>2 DEF vars
  <2> QED BY <1>2, <2>3, <2>4, <2>5, WhoChanges
<1> QED BY <1>1, <1>2

\* On such a host it is enough that no file is in the way to begin with.
THEOREM CompleteOnHost == Spec /\ WholeHost(host) /\ OpenHost(host) => []Complete
<1>1. Init /\ WholeHost(host) /\ OpenHost(host) => TidyAll /\ OpenHost(host) /\ Unblocked
  BY TypeInit, PlanInit, TidyInit DEF WholeHost, TidyAll, OpenHost, Unblocked, Init
<1>2. TidyAll /\ OpenHost(host) /\ Unblocked /\ [Next]_vars
         => (TidyAll /\ OpenHost(host) /\ Unblocked)'
  <2>1. TidyAll /\ [Next]_vars => TidyAll'
    BY TypeNext, TidyIsStraight, PlanNext, TidyNext DEF TidyAll
  <2> QED BY <2>1, UnblockedNext, HostKept
<1>3. Spec /\ WholeHost(host) /\ OpenHost(host) => []Unblocked
  BY <1>1, <1>2, PTL DEF Spec
<1> QED BY <1>3, WholeInstalls, PTL
-----------------------------------------------------------------------------
(***************************************************************************)
(* Stowing what is installed already.                                      *)
(***************************************************************************)
\* While no directory is planned, check works in directories of the target itself.
LEMMA NothingUnfolded ==
    ASSUME TidyReady, phase = "check", \A j \in DOMAIN links : links[j].act # "MKDIR"
    PROVE  IsDir(fs, Top.dir) /\ Top.dir \in Path /\ Disk(fs)
<1>1. CheckOK /\ CallsOK /\ stack # <<>> /\ Disk(fs)
  BY TidyFacts DEF TidyReady, PlannerOK, CheckOK, CheckTypeOK
<1>2. PICK d \in Path, a \in Path : d = Top.dir /\ a = Top.base /\ FrameOK(fs, links, a, d)
  <2>1. stack \in Seq(Call)
    BY <1>1 DEF CheckOK, CheckTypeOK
  <2>2. Len(stack) \in DOMAIN stack /\ Top \in Call
    BY <1>1, <2>1, EmptySeq DEF Top
  <2> QED BY <1>1, <2>2 DEF CallsOK, Top, Call
<1>3. ~Unfolding(fs, links, a, d)
  <2> SUFFICES ASSUME NEW l \in DOMAIN fs, NEW b, b = fs[l].ref \o After(d, l),
                      IsLink(fs, l), IsInDir(d, l), IsDir(fs, b), Mirrored(fs, links, a, b, d)
               PROVE  FALSE
    BY DEF Unfolding
  <2>1. b \in DOMAIN fs /\ b \in Path /\ IsDir(fs, a)
    BY <1>1, <1>2 DEF IsDir, Disk, FrameOK
  <2>2. After(b, b) = <<>> /\ IsInDir(b, b)
    BY <2>1, InSelf
  <2>3. <<>> \in NamesIn(fs, b)
    BY <2>1, <2>2 DEF NamesIn
  <2>4. a \o <<>> = a /\ b \o <<>> = b
    BY <2>1
  <2>5. Made(links, d \o <<>>)
    BY <2>1, <2>3, <2>4 DEF Mirrored
  <2>6. PICK j \in 1..Len(links) : links[j].act = "MKDIR"
    BY <2>5 DEF Made, MadeBy
  <2>7. links \in Seq(Op)
    BY TidyFacts
  <2> QED BY <2>6, <2>7
<1> QED BY <1>1, <1>2, <1>3 DEF FrameOK

\* What check finds for a child of a package that has its place: its link, or
\* a directory for a directory.
LEMMA ChildInPlace ==
    ASSUME TidyReady, phase = "check", links = <<>>, InPlace(fs, package),
           NEW n \in Name, n \in Top.kids
    PROVE  Lexists(fs, There(n)) /\ (OwnLink(n) \/ (~LinkAt(fs, There(n)) /\ IsDirNode(Base(n))))
<1> DEFINE a == Base(n)  w == There(n)
<1>1. IsDir(fs, Top.dir) /\ Top.dir \in Path /\ Disk(fs)
  <2>1. DOMAIN links = {}
    OBVIOUS
  <2> QED BY <2>1, NothingUnfolded
<1>2. Loc(fs, w) = w
  BY <1>1, LocInDir DEF There
<1>3. /\ a \in Path /\ w \in Path /\ IsInDir(a, package) /\ w = Target \o After(a, package)
      /\ Outside(w) /\ w # Target
  BY ThereTidy DEF Aligned
<1>4. package \in Path /\ Target \in Path /\ StowDir \in StowRoots /\ PlainDir(fs, StowDir)
      /\ StowDir \in Path
  BY TidyFacts
<1>5. CheckOK /\ CallsOK /\ stack # <<>>
  BY DEF TidyReady, PlannerOK, CheckOK, CheckTypeOK
<1>6. IsInDir(a, StowDir)
  BY <1>5, ChildFacts
<1>7. a \in DOMAIN fs
  <2>1. Len(stack) \in DOMAIN stack
    BY <1>5, TopTyped DEF CheckOK, CheckTypeOK
  <2> QED BY <2>1 DEF TidyReady, TidyInv, CallTidy, Top, Base
<1>8. a # package
  <2>1. After(package, package) = <<>> /\ Target \o <<>> = Target
    BY <1>4, InSelf
  <2> QED BY <1>3, <2>1
<1>9. package \o After(a, package) = a
  BY <1>3, <1>4, InDir
<1> HIDE DEF a, w
<1>10. IsStrictPrefix(package, a)
  BY <1>3, <1>8 DEF IsInDir, IsStrictPrefix
<1>11. CASE Shows(fs, package, After(a, package))
  <2>1. Lead(fs, w) = a
    BY <1>3, <1>9, <1>11 DEF Shows
  <2>2. w # a
    BY <1>3, <1>4, <1>6 DEF Outside
  <2>3. IsLink(fs, w) /\ fs[w].ref = a
    BY <1>2, <1>3, <2>1, <2>2 DEF Lead, Follow
  <2> QED BY <1>2, <2>3 DEF OwnLink, LinkAt, LinkBuf, Lexists, IsLink, a, w
<1>12. CASE IsDir(fs, a) /\ IsDir(fs, w)
  <2>1. ~LinkAt(fs, w) /\ Lexists(fs, w)
    BY <1>2, <1>12 DEF LinkAt, IsLink, IsDir, Lexists
  <2>2. Loc(fs, a) = a
    BY <1>1, <1>3, <1>12, LocOfNode DEF IsDir
  <2>3. IsDirNode(a)
    BY <1>1, <1>3, <1>12, <2>2, StatOfDir DEF IsDirNode, DirAt
  <2> QED BY <2>1, <2>3 DEF a, w
<1> QED BY <1>3, <1>7, <1>10, <1>11, <1>12 DEF InPlace

LEMMA CheckIdem ==
    ASSUME TidyReady, IdemInv, phase \in Planning, CheckStep
    PROVE  IdemInv'
<1> SUFFICES ASSUME phase' \in Planning, ~opt'.unstow, InPlace(fs', package')
             PROVE  phase' # "deps" /\ links' = <<>>
  BY DEF IdemInv, Planning
<1>1. UNCHANGED <<opt, package, fs>>
  BY DEF CheckStep, CheckChild, ChildOwn, ChildExec, ChildCopied, ChildConflict,
       ChildProtected, ChildDir, ChildTraversed, ChildAutoTraverse, ChildForeign, ChildFolded,
       ChildMissing, Skip, Plan, Obstacle, Stop, CheckDeps, DepsDir, DepsHarmless, DepsConflict,
       DepsLink, DepsReturn, DiveNotDir, DiveCopyDir, Dive, Surface, Enter, CheckReturn,
       setupVars, listVars
<1>2. phase # "deps" /\ links = <<>> /\ ~opt.unstow /\ InPlace(fs, package)
  BY <1>1 DEF IdemInv, Planning
<1>3. ASSUME NEW n \in Name, CheckChild(n) PROVE phase' # "deps" /\ links' = <<>>
  <2>1. phase = "check" /\ n \in Top.kids
    BY <1>3 DEF CheckChild, ChildOwn, ChildExec, ChildCopied, ChildConflict, ChildProtected, ChildDir,
         ChildTraversed, ChildAutoTraverse, ChildForeign, ChildFolded, ChildMissing, LinkedDir, OpenDir,
         FoundDir, FoundFile, Found, Missing
  <2>2. Lexists(fs, There(n)) /\ (OwnLink(n) \/ (~LinkAt(fs, There(n)) /\ IsDirNode(Base(n))))
    BY <1>2, <2>1, ChildInPlace
  <2>3. ChildOwn(n) \/ ChildProtected(n) \/ ChildDir(n)
    BY <1>3, <2>2 DEF CheckChild, ChildExec, ChildCopied, ChildConflict, ChildTraversed, ChildAutoTraverse,
         ChildForeign, ChildFolded, ChildMissing, LinkedDir, OpenDir, FoundDir, FoundFile, Missing
  <2> QED BY <1>2, <2>1, <2>3 DEF ChildOwn, ChildProtected, ChildDir, Obstacle, Skip, Stop, DiveTo, checkVars
<1>4. ~\E n \in Name : CheckDeps(n)
  BY <1>2 DEF CheckDeps, DepsDir, DepsHarmless, DepsConflict, DepsLink, Shared
<1>5. ~DepsReturn /\ ~DiveCopyDir
  BY <1>2, NoCopies DEF DepsReturn, DiveCopyDir
<1>6. CASE DiveNotDir \/ Dive \/ CheckReturn
  BY <1>2, <1>6 DEF DiveNotDir, Dive, CheckReturn, Surface, Enter, Stop, checkVars
<1> QED BY <1>3, <1>4, <1>5, <1>6 DEF CheckStep

LEMMA IdemNext == TidyAll /\ IdemInv /\ [Next]_vars => IdemInv'
<1> SUFFICES ASSUME TidyAll, IdemInv, [Next]_vars PROVE IdemInv'
  OBVIOUS
<1>1. CASE BeginPass
  <2>1. links = <<>> /\ phase' # "deps" /\ UNCHANGED links
    BY <1>1 DEF BeginPass, Enter, Stop, checkVars, TidyAll, PlanInv
  <2> QED BY <2>1 DEF IdemInv
<1>2. CASE Check
  <2>1. CheckOK /\ CheckStep /\ phase \in Planning
    BY <1>2, CheckStepTyped DEF Check, TidyAll, TypeOK, CheckOK, PlanStep
  <2>2. TidyReady
    BY <2>1, TidyIsStraight DEF TidyReady, TidyAll, PlanInv, Planning
  <2> QED BY <2>1, <2>2, CheckIdem
<1>3. CASE User \/ Again \/ NextPackage \/ Return \/ Die
  <2>1. phase' \in {"begin", "idle"}
    BY <1>3 DEF User, Start, StartUnknown, Select, Again, NextPackage, Return, Die, Quit
  <2> QED BY <2>1 DEF IdemInv
<1>4. CASE Exec
  <2>1. phase' \in {"exec", "done", "failed"}
    BY <1>4 DEF Exec, ExecStep, ExecBegin, ExecRemoveDir, ExecUnlink, ExecMkdir, ExecSetLink, file_copy,
         dir_copy, ExecCommand, ExecEnd, Doing, Removed, Try, Failed, CopyFailed
  <2> QED BY <2>1 DEF IdemInv
<1>5. CASE UserEdit
  <2>1. phase' = "exec"
    BY <1>5 DEF UserEdit
  <2> QED BY <2>1 DEF IdemInv
<1>6. CASE UNCHANGED vars
  BY <1>6 DEF vars, setupVars, checkVars, execVars, IdemInv
<1> QED BY <1>1, <1>2, <1>3, <1>4, <1>5, <1>6 DEF Next, Process

\* On a tidy host, stowing a package all of which has its place already plans
\* nothing, whoever put it there: every name is its own link (check, "link is
\* part of the own package") or a directory to go on with.
THEOREM StowTwice == Spec /\ TidyHost(host) => []Idempotent
<1>1. Init /\ TidyHost(host) => TidyAll /\ IdemInv
  BY TypeInit, PlanInit, TidyInit DEF TidyAll, IdemInv, Init
<1>2. TidyAll /\ IdemInv /\ [Next]_vars => (TidyAll /\ IdemInv)'
  BY TypeNext, TidyIsStraight, PlanNext, TidyNext, IdemNext DEF TidyAll
<1>3. IdemInv => Idempotent
  BY DEF IdemInv, Idempotent, Planned
<1> QED BY <1>1, <1>2, <1>3, PTL DEF Spec
=============================================================================
