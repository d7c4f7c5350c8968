----------------------------- MODULE FreshProofs -----------------------------
(***************************************************************************)
(* On a tidy host a plan that check accepted is carried out to its end:    *)
(* the proof that FreshInv is inductive and that under it no operation but *)
(* the rmdir of an unstow fails.                                           *)
(***************************************************************************)
EXTENDS Fresh, PlanProofs

\* What is in one child of a directory is not in another.
LEMMA ApartNames ==
    ASSUME NEW p \in Path, NEW d \in Path, NEW m \in Name, NEW n \in Name, m # n,
           IsInDir(p, Append(d, m))
    PROVE  ~IsInDir(p, Append(d, n))
<1> SUFFICES ASSUME IsInDir(p, Append(d, n)) PROVE FALSE
  OBVIOUS
<1>1. /\ Append(d, m) \in Path /\ Len(Append(d, m)) = Len(d) + 1
      /\ Append(d, n) \in Path /\ Len(Append(d, n)) = Len(d) + 1
  BY AddPath
<1>2. Append(d, m) = SubSeq(p, 1, Len(d) + 1) /\ Append(d, n) = SubSeq(p, 1, Len(d) + 1)
  BY <1>1, InDir
<1>3. Append(d, m)[Len(d) + 1] = m /\ Append(d, n)[Len(d) + 1] = n
  BY DEF Path
<1> QED BY <1>2, <1>3
-----------------------------------------------------------------------------
(***************************************************************************)
(* The plan when an operation comes.                                       *)
(***************************************************************************)
LEMMA PushCases ==
    ASSUME NEW L \in Seq(Op), NEW l \in Op
    PROVE  /\ Push(L, l) \in Seq(Op) /\ DOMAIN L \subseteq DOMAIN Push(L, l)
           /\ \A i \in DOMAIN L : Push(L, l)[i] = L[i]
           /\ \A i \in DOMAIN Push(L, l) \ DOMAIN L : Push(L, l)[i] = l /\ i = Len(L) + 1
           /\ \E j \in DOMAIN Push(L, l) : SameOp(Push(L, l)[j], l)
<1>1. CASE \E i \in DOMAIN L : SameOp(L[i], l)
  BY <1>1 DEF Push
<1>2. CASE ~\E i \in DOMAIN L : SameOp(L[i], l)
  <2>1. Push(L, l) = Append(L, l)
    BY <1>2 DEF Push
  <2>2. /\ DOMAIN Append(L, l) = DOMAIN L \cup {Len(L) + 1} /\ Append(L, l)[Len(L) + 1] = l
        /\ \A i \in DOMAIN L : Append(L, l)[i] = L[i]
    OBVIOUS
  <2>3. SameOp(l, l)
    BY DEF SameOp
  <2> QED BY <2>1, <2>2, <2>3
<1> QED BY <1>1, <1>2

\* What the plan makes in p afterwards.
LEMMA PushMakes ==
    ASSUME NEW L \in Seq(Op), NEW l \in Op, NEW p, NEW i \in MakesIn(Push(L, l), p)
    PROVE  \/ i \in MakesIn(L, p) /\ Push(L, l)[i] = L[i]
           \/ Push(L, l)[i] = l /\ l.act # "REMOVE" /\ IsInDir(l.target, p)
BY PushCases DEF MakesIn, Removes

LEMMA AheadPush ==
    ASSUME NEW L \in Seq(Op), NEW l \in Op, NEW p, Ahead(L, p),
           l.act # "REMOVE" /\ IsInDir(l.target, p) => Lexists(fs, l.target) /\ p \notin DOMAIN fs
    PROVE  Ahead(Push(L, l), p)
BY PushMakes DEF Ahead

LEMMA PushNothing ==
    ASSUME NEW L \in Seq(Op), NEW l \in Op, NEW p, MakesIn(L, p) = {},
           l.act = "REMOVE" \/ ~IsInDir(l.target, p)
    PROVE  MakesIn(Push(L, l), p) = {}
BY PushMakes

\* A place below one that check has not come to is one too.
LEMMA AheadBelow ==
    ASSUME Disk(fs), NEW L \in Seq(Op), NEW p \in Path, Ahead(L, p), NEW q \in Path, IsInDir(q, p)
    PROVE  Ahead(L, q)
<1> SUFFICES ASSUME NEW i \in MakesIn(L, q) PROVE Lexists(fs, L[i].target) /\ q \notin DOMAIN fs
  BY DEF Ahead
<1>1. i \in DOMAIN L /\ L[i].target \in Path /\ IsInDir(L[i].target, q) /\ ~Removes(L, i)
  <2>1. i \in DOMAIN L /\ IsInDir(L[i].target, q) /\ ~Removes(L, i)
    BY DEF MakesIn
  <2>2. L[i] \in Op
    BY <2>1
  <2> QED BY <2>1, <2>2 DEF Op
<1>2. i \in MakesIn(L, p)
  BY <1>1, InTrans DEF MakesIn
<1>3. p \notin DOMAIN fs /\ Lexists(fs, L[i].target)
  BY <1>2 DEF Ahead
<1>4. q \notin DOMAIN fs
  BY <1>3, DirAbove DEF IsDir
<1> QED BY <1>3, <1>4

\* Something is made at a place where nothing is, or nothing will be then.
LEMMA PushMakeFresh ==
    ASSUME NEW F, NEW L \in Seq(Op), FreshOK(F, L), NEW l \in Op, l.act # "REMOVE",
           l.act = "MKDIR" => l.origin = <<>>,
           OpenDirOf(F, Parent(l.target)),
           l.target \in DOMAIN F => \E j \in DOMAIN L : Removes(L, j) /\ L[j].origin = l.target,
           \A i \in DOMAIN L : ~Removes(L, i) => L[i].target # l.target
    PROVE  FreshOK(F, Push(L, l))
<1> DEFINE M == Push(L, l)
<1>1. /\ DOMAIN L \subseteq DOMAIN M /\ \A i \in DOMAIN L : M[i] = L[i]
      /\ \A i \in DOMAIN M \ DOMAIN L : M[i] = l /\ i = Len(L) + 1
  BY PushCases
<1>2. DOMAIN L = 1..Len(L) /\ Len(L) \in Nat
  OBVIOUS
<1> HIDE DEF M
<1>3. ASSUME NEW i \in DOMAIN M, Removes(M, i) PROVE i \in DOMAIN L /\ Removes(L, i)
  BY <1>1, <1>3 DEF Removes
<1>4. ASSUME NEW i \in DOMAIN M, ~Removes(M, i)
      PROVE  /\ OpenDirOf(F, Parent(M[i].target))
             /\ M[i].target \in DOMAIN F =>
                   \E j \in 1..(i - 1) : Removes(M, j) /\ M[j].origin = M[i].target
             /\ M[i].act = "MKDIR" => M[i].origin = <<>>
  <2>1. CASE i \in DOMAIN L
    <3>1. ~Removes(L, i) /\ M[i] = L[i]
      BY <1>1, <1>4, <2>1 DEF Removes
    <3>2. \A j \in 1..(i - 1) : j \in DOMAIN L
      BY <1>2, <2>1
    <3> QED BY <1>1, <2>1, <3>1, <3>2 DEF FreshOK, MakesFresh, Removes
  <2>2. CASE i \notin DOMAIN L
    <3>1. M[i] = l /\ i = Len(L) + 1
      BY <1>1, <2>2
    <3>2. \A j \in DOMAIN L : j \in 1..(i - 1)
      BY <1>2, <3>1
    <3> QED BY <1>1, <3>1, <3>2 DEF Removes
  <2> QED BY <2>1, <2>2
<1>5. ASSUME NEW i \in DOMAIN M, NEW j \in DOMAIN M, ~Removes(M, i), ~Removes(M, j),
             M[i].target = M[j].target
      PROVE  i = j
  BY <1>1, <1>5 DEF FreshOK, MakesFresh, Removes
<1>6. \A i \in DOMAIN L : Removes(L, i) =>
          GoodLink(F, L[i].origin)
  BY DEF FreshOK, MakesFresh
<1>7. \A i \in DOMAIN M : Removes(M, i) =>
          GoodLink(F, M[i].origin)
  BY <1>1, <1>3, <1>6
<1>8. FreshOK(F, M)
  BY <1>4, <1>5, <1>7 DEF FreshOK, MakesFresh
<1> QED BY <1>8 DEF M

\* A link to a package is taken away.
LEMMA PushRemoveFresh ==
    ASSUME NEW F, NEW L \in Seq(Op), FreshOK(F, L), NEW p \in Path, GoodLink(F, p)
    PROVE  /\ FreshOK(F, Push(L, RemoveOp(p)))
           /\ \E j \in DOMAIN Push(L, RemoveOp(p)) :
                 Removes(Push(L, RemoveOp(p)), j) /\ Push(L, RemoveOp(p))[j].origin = p
<1> DEFINE l == RemoveOp(p)  M == Push(L, l)
<1>1. l \in Op /\ l.act = "REMOVE" /\ l.origin = p
  <2>1. <<>> \in Path
    BY DEF Path
  <2>2. l.act = "REMOVE" /\ l.origin = p
    BY DEF RemoveOp, MkOp
  <2> QED BY <2>1, <2>2, NamedOpTyped
<1> HIDE DEF l
<1>2. /\ DOMAIN L \subseteq DOMAIN M /\ \A i \in DOMAIN L : M[i] = L[i]
      /\ \A i \in DOMAIN M \ DOMAIN L : M[i] = l /\ i = Len(L) + 1
      /\ \E j \in DOMAIN M : SameOp(M[j], l)
  BY <1>1, PushCases
<1>3. DOMAIN L = 1..Len(L) /\ Len(L) \in Nat
  OBVIOUS
<1> HIDE DEF M
<1>4. \E j \in DOMAIN M : Removes(M, j) /\ M[j].origin = p
  BY <1>1, <1>2 DEF SameOp, Removes
<1>5. ASSUME NEW i \in DOMAIN M, Removes(M, i)
      PROVE  GoodLink(F, M[i].origin)
  <2>1. CASE i \in DOMAIN L
    BY <1>2, <1>5, <2>1 DEF FreshOK, MakesFresh, Removes
  <2>2. CASE i \notin DOMAIN L
    BY <1>1, <1>2, <2>2
  <2> QED BY <2>1, <2>2
<1>6. ASSUME NEW i \in DOMAIN M, ~Removes(M, i)
      PROVE  i \in DOMAIN L /\ ~Removes(L, i) /\ M[i] = L[i]
  BY <1>1, <1>2, <1>6 DEF Removes
<1>7. ASSUME NEW i \in DOMAIN M, ~Removes(M, i)
      PROVE  /\ OpenDirOf(F, Parent(M[i].target))
             /\ M[i].target \in DOMAIN F =>
                   \E j \in 1..(i - 1) : Removes(M, j) /\ M[j].origin = M[i].target
             /\ M[i].act = "MKDIR" => M[i].origin = <<>>
  <2>1. i \in DOMAIN L /\ ~Removes(L, i) /\ M[i] = L[i]
    BY <1>6, <1>7
  <2>2. \A j \in 1..(i - 1) : j \in DOMAIN L
    BY <1>3, <2>1
  <2> QED BY <1>2, <2>1, <2>2 DEF FreshOK, MakesFresh, Removes
<1>8. ASSUME NEW i \in DOMAIN M, NEW j \in DOMAIN M, ~Removes(M, i), ~Removes(M, j),
             M[i].target = M[j].target
      PROVE  i = j
  <2>1. i \in DOMAIN L /\ ~Removes(L, i) /\ M[i] = L[i] /\ j \in DOMAIN L /\ ~Removes(L, j) /\ M[j] = L[j]
    BY <1>6, <1>8
  <2> QED BY <1>8, <2>1 DEF FreshOK, MakesFresh
<1>9. FreshOK(F, M)
  BY <1>5, <1>7, <1>8 DEF FreshOK, MakesFresh
<1> QED BY <1>4, <1>9 DEF M, l
-----------------------------------------------------------------------------
(***************************************************************************)
(* The planner.                                                            *)
(***************************************************************************)
\* The parts of FreshInv that a step of check works with.
FreshReady == TidyReady /\ StowDir \in stow_dirs /\ Undisturbed /\ FreshInv

LEMMA FreshKept ==
    ASSUME FreshReady, UNCHANGED <<fs, setupVars>>, phase' \in Planning \cup Stopped,
           phase' \in Planning => CallsFresh',
           phase' \in {"deps", "dive"} => IntoFresh',
           phase' = "deps" => DepsFresh'
    PROVE  FreshInv'
BY DEF FreshInv, Planning, Stopped

LEMMA FreshSame ==
    ASSUME UNCHANGED <<fs, host>>, NEW M, links' = M, FreshOK(fs, M)
    PROVE  FreshOK(fs, links)'
<1>1. StowRoots' = StowRoots
  BY DEF StowRoots, Config
<1> QED BY <1>1 DEF FreshOK, MakesFresh, GoodLink

LEMMA FreshFacts ==
    ASSUME FreshReady
    PROVE  /\ CheckOK /\ Disk(fs) /\ TidyReady /\ Ready
           /\ stack \in Seq(Call) /\ links \in Seq(Op) /\ at \in Child /\ deps \in Seq(DepsCall)
           /\ ~opt.force /\ ~opt.simulate
           /\ phase \in Planning => CallsFresh
           /\ phase \in {"deps", "dive"} => IntoFresh
           /\ phase = "deps" => DepsFresh
BY DEF FreshReady, TidyReady, Ready, Undisturbed, FreshInv, CheckOK, CheckTypeOK, Planning

LEMMA CallIs ==
    ASSUME NEW S \in Seq(Call), NEW k \in DOMAIN S
    PROVE  S[k].dir \in Path /\ S[k].kids \subseteq Name
<1>1. S[k] \in Call
  OBVIOUS
<1> QED BY <1>1 DEF Call

\* The calls after child n is done, when what came to the plan is at its place.
LEMMA ChildFresh ==
    ASSUME FreshReady, phase = "check", NEW n \in Name, n \in Top.kids, Done(n), UNCHANGED <<fs, host>>,
           NEW M \in Seq(Op), links' = M, FreshOK(fs, M),
           \A p \in Path : Ahead(links, p) /\ ~IsInDir(There(n), p) => Ahead(M, p)
    PROVE  CallsFresh' /\ \A k \in DOMAIN stack' : Past(stack'[k], There(n))
<1>1. CallsFresh /\ stack \in Seq(Call) /\ stack # <<>> /\ CheckOK
  BY FreshFacts DEF Planning, CheckOK, CheckTypeOK
<1>2. Len(stack) \in DOMAIN stack /\ Top = stack[Len(stack)] /\ Top.dir \in Path /\ There(n) \in Path
  BY <1>1, EmptySeq, TopTyped DEF Top, Call
<1>3. DOMAIN stack' = DOMAIN stack
      /\ \A k \in DOMAIN stack :
            /\ stack'[k].dir = stack[k].dir /\ stack'[k].kids \subseteq stack[k].kids
            /\ k = Len(stack) => n \notin stack'[k].kids
  BY <1>1 DEF Done, Call
<1>4. ASSUME NEW k \in DOMAIN stack PROVE Past(stack'[k], There(n))
  <2>1. CASE k = Len(stack)
    <3>1. stack'[k].dir = Top.dir /\ n \in Name \ stack'[k].kids
      BY <1>2, <1>3, <2>1
    <3>2. IsInDir(There(n), Append(Top.dir, n))
      BY <1>2, InSelf DEF There
    <3> QED BY <3>1, <3>2 DEF Past
  <2>2. CASE k # Len(stack)
    <3>1. k \in 1..(Len(stack) - 1)
      BY <1>1, <2>2
    <3>2. Past(stack[k], Top.dir)
      BY <1>1, <1>2, <3>1 DEF CallsFresh
    <3>3. PICK m \in Name \ stack[k].kids : IsInDir(Top.dir, Append(stack[k].dir, m))
      BY <3>2 DEF Past
    <3>4. stack[k].dir \in Path
      BY <1>1, CallIs
    <3>5. Append(stack[k].dir, m) \in Path
      BY <3>4, AddPath
    <3>6. IsInDir(There(n), Append(stack[k].dir, m))
      BY <1>2, <3>3, <3>5, InAdd DEF There
    <3> QED BY <1>3, <3>3, <3>6 DEF Past
  <2> QED BY <2>1, <2>2
<1>5. ASSUME NEW k \in DOMAIN stack, NEW m \in stack'[k].kids
      PROVE  Ahead(M, Append(stack[k].dir, m))
  <2>1. m \in stack[k].kids /\ m \in Name /\ stack[k].dir \in Path
    BY <1>1, <1>3, <1>5, CallIs
  <2>2. PICK e \in Name \ stack'[k].kids : IsInDir(There(n), Append(stack[k].dir, e))
    BY <1>3, <1>4 DEF Past
  <2>3. ~IsInDir(There(n), Append(stack[k].dir, m))
    BY <1>2, <1>5, <2>1, <2>2, ApartNames
  <2>4. Ahead(links, Append(stack[k].dir, m)) /\ Append(stack[k].dir, m) \in Path
    BY <1>1, <2>1, AddPath DEF CallsFresh
  <2> QED BY <2>3, <2>4
<1>6. ASSUME NEW k \in DOMAIN stack, NEW j \in 1..(k - 1) PROVE Past(stack'[j], stack'[k].dir)
  <2>1. j \in DOMAIN stack
    BY <1>1
  <2> QED BY <1>1, <1>3, <2>1 DEF CallsFresh, Past
<1>7. FreshOK(fs, links)'
  BY FreshSame
<1>8. \A k \in DOMAIN stack' : OpenDirOf(fs, stack'[k].dir)
  BY <1>1, <1>3 DEF CallsFresh
<1>9. CallsFresh'
  BY <1>3, <1>5, <1>6, <1>7, <1>8 DEF CallsFresh, OpenDirOf, IsDir, Ahead, MakesIn, Removes,
     Past, Lexists
<1> QED BY <1>3, <1>4, <1>9

\* Nothing new is planned for the child.
LEMMA SkipFresh ==
    ASSUME FreshReady, phase = "check", NEW n \in Name, n \in Top.kids, Done(n),
           UNCHANGED <<fs, setupVars, links>>
    PROVE  CallsFresh' /\ \A k \in DOMAIN stack' : Past(stack'[k], There(n))
<1>1. links \in Seq(Op) /\ FreshOK(fs, links)
  BY FreshFacts DEF CallsFresh, Planning
<1>2. UNCHANGED <<fs, host>>
  BY DEF setupVars
<1>3. \A p \in Path : Ahead(links, p) /\ ~IsInDir(There(n), p) => Ahead(links, p)
  OBVIOUS
<1> QED BY <1>1, <1>2, <1>3, ChildFresh

LEMMA ObstacleFresh ==
    ASSUME FreshReady, phase = "check", NEW n \in Name, n \in Top.kids, Skip(n) \/ Obstacle(n)
    PROVE  FreshInv'
<1>1. CASE Skip(n)
  <2>1. CallsFresh'
    BY <1>1, SkipFresh DEF Skip
  <2> QED BY <1>1, <2>1, FreshKept DEF Skip, Planning
<1>2. CASE ~Skip(n)
  <2>1. Stop("refused")
    BY <1>2, FreshFacts DEF Obstacle
  <2> QED BY <2>1, FreshKept DEF Stop, Stopped, Planning
<1> QED BY <1>1, <1>2

\* What a child of the top call needs.
LEMMA TopFresh ==
    ASSUME FreshReady, phase = "check", NEW n \in Name, n \in Top.kids
    PROVE  /\ Base(n) \in Path /\ There(n) \in Path /\ Top.dir \in Path
           /\ Parent(There(n)) = Top.dir
           /\ OpenDirOf(fs, Parent(There(n))) /\ Ahead(links, There(n))
<1>1. CallsFresh /\ stack \in Seq(Call) /\ stack # <<>> /\ CheckOK
  BY FreshFacts DEF Planning, CheckOK, CheckTypeOK
<1>2. Len(stack) \in DOMAIN stack /\ Top = stack[Len(stack)]
  BY <1>1, EmptySeq DEF Top
<1>3. Top.dir \in Path /\ There(n) \in Path /\ Base(n) \in Path
  BY <1>1, <1>2, CallIs, TopTyped
<1>4. Parent(There(n)) = Top.dir
  BY <1>3, AddPath DEF There
<1>5. OpenDirOf(fs, Top.dir) /\ Ahead(links, There(n))
  BY <1>1, <1>2 DEF CallsFresh, There
<1> QED BY <1>3, <1>4, <1>5

\* The child is linked, at a place where nothing is.
LEMMA MissingFresh ==
    ASSUME FreshReady, NEW n \in Name, ChildMissing(n)
    PROVE  FreshInv'
<1>1. phase = "check" /\ n \in Top.kids /\ ~Lexists(fs, There(n))
  BY DEF ChildMissing, Missing
<1> DEFINE l == LinkOp(Base(n), There(n))
<1>2. Install(n) = l
  BY FreshFacts, NoCopies DEF Install
<1>3. Skip(n) \/ Plan(n, l) \/ Stop("refused")
  BY <1>2 DEF ChildMissing
<1>4. CASE Skip(n)
  BY <1>1, <1>4, ObstacleFresh
<1>5. CASE Stop("refused")
  BY <1>5, FreshKept DEF Stop, Stopped, Planning
<1>6. CASE Plan(n, l)
  <2>1. /\ Base(n) \in Path /\ There(n) \in Path /\ OpenDirOf(fs, Parent(There(n)))
        /\ Ahead(links, There(n))
    BY <1>1, TopFresh
  <2>2. l \in Op /\ l.act = "SET_LINK" /\ l.target = There(n)
    BY <2>1, NamedOpTyped DEF LinkOp, MkOp
  <2> HIDE DEF l
  <2>3. Disk(fs) /\ links \in Seq(Op) /\ FreshOK(fs, links)
    BY <1>1, FreshFacts DEF CallsFresh, Planning
  <2>4. There(n) \notin DOMAIN fs
    BY <1>1, <2>3, LocOfNode DEF Lexists
  <2>5. ASSUME NEW i \in DOMAIN links, ~Removes(links, i), links[i].target = There(n) PROVE FALSE
    <3>1. i \in MakesIn(links, There(n))
      BY <2>1, <2>5, InSelf DEF MakesIn
    <3> QED BY <1>1, <2>1, <2>5, <3>1 DEF Ahead
  <2>6. FreshOK(fs, Push(links, l)) /\ Push(links, l) \in Seq(Op)
    BY <2>1, <2>2, <2>3, <2>4, <2>5, PushMakeFresh, PushTyped
  <2>7. \A p \in Path : Ahead(links, p) /\ ~IsInDir(There(n), p) => Ahead(Push(links, l), p)
    BY <2>2, <2>3, AheadPush
  <2>8. Done(n) /\ links' = Push(links, l) /\ UNCHANGED <<phase, setupVars, fs>> /\ UNCHANGED <<fs, host>>
    BY <1>6 DEF Plan, setupVars
  <2>9. CallsFresh'
    BY <1>1, <2>6, <2>7, <2>8, ChildFresh
  <2> QED BY <1>1, <2>8, <2>9, FreshKept DEF Planning
<1> QED BY <1>3, <1>4, <1>5, <1>6

\* The child's own link is taken away, or is left.
LEMMA OwnFresh ==
    ASSUME FreshReady, NEW n \in Name, ChildOwn(n)
    PROVE  FreshInv'
<1>1. phase = "check" /\ n \in Top.kids /\ OwnLink(n)
  BY DEF ChildOwn, Found
<1> DEFINE w == There(n)
<1>2. CASE Skip(n)
  BY <1>1, <1>2, ObstacleFresh
<1>3. CASE Plan(n, RemoveOp(w))
  <2>1. /\ Base(n) \in Path /\ w \in Path /\ Top.dir \in Path /\ OpenDirOf(fs, Parent(w))
    BY <1>1, TopFresh
  <2>2. Disk(fs) /\ links \in Seq(Op) /\ FreshOK(fs, links) /\ CheckOK /\ CallsOK /\ stack # <<>>
    <3>1. Disk(fs) /\ links \in Seq(Op) /\ CallsFresh /\ CheckOK /\ Ready
      BY <1>1, FreshFacts DEF Planning
    <3> QED BY <1>1, <3>1 DEF CallsFresh, Ready, PlannerOK, CheckOK, CheckTypeOK
  <2>3. IsLink(fs, w) /\ fs[w].ref = Base(n)
    <3>1. LinkAt(fs, w) => Loc(fs, w) = w /\ IsLink(fs, w)
      BY <2>2, ChildFacts
    <3> QED BY <1>1, <3>1 DEF OwnLink, LinkBuf
  <2>4. Base(n) \in DOMAIN fs /\ IsInDir(Base(n), StowDir)
    <3>1. Top \in Call /\ Len(stack) \in DOMAIN stack
      BY <2>2, TopTyped DEF CheckOK, CheckTypeOK
    <3>2. CallTidy(Top)
      BY <1>1, <3>1, FreshFacts DEF TidyReady, TidyInv, Top
    <3> QED BY <1>1, <2>2, <3>2, ChildFacts DEF CallTidy, Base
  <2>5. GoodLink(fs, w)
    BY <2>1, <2>3, <2>4 DEF GoodLink, StowRoots
  <2> HIDE DEF w
  <2>6. RemoveOp(w) \in Op /\ RemoveOp(w).act = "REMOVE"
    BY <2>1, NamedOpTyped DEF RemoveOp, MkOp
  <2>7. FreshOK(fs, Push(links, RemoveOp(w))) /\ Push(links, RemoveOp(w)) \in Seq(Op)
    BY <2>1, <2>2, <2>5, <2>6, PushRemoveFresh, PushTyped
  <2>8. \A p \in Path : Ahead(links, p) => Ahead(Push(links, RemoveOp(w)), p)
    BY <2>2, <2>6, AheadPush
  <2>9. Done(n) /\ links' = Push(links, RemoveOp(w)) /\ UNCHANGED <<phase, setupVars, fs>>
        /\ UNCHANGED <<fs, host>>
    BY <1>3 DEF Plan, setupVars
  <2>10. CallsFresh'
    BY <1>1, <2>7, <2>8, <2>9, ChildFresh
  <2> QED BY <1>1, <2>9, <2>10, FreshKept DEF Planning
<1> QED BY <1>2, <1>3 DEF ChildOwn

\* check goes into a directory of the target.
LEMMA DirFresh ==
    ASSUME FreshReady, NEW n \in Name, ChildDir(n)
    PROVE  FreshInv'
<1>1. /\ phase = "check" /\ n \in Top.kids /\ Done(n) /\ UNCHANGED <<deps, links, setupVars, fs>>
      /\ phase' = "dive" /\ at' = [entry |-> There(n), into |-> There(n), base |-> Base(n)]
  BY DEF ChildDir, OpenDir, FoundDir, Found, DiveTo
<1>2. CallsFresh' /\ \A k \in DOMAIN stack' : Past(stack'[k], There(n))
  BY <1>1, SkipFresh
<1>3. Disk(fs) /\ links \in Seq(Op) /\ There(n) \in Path /\ Ahead(links, There(n))
  BY <1>1, FreshFacts, TopFresh
<1>4. ASSUME NEW m \in Name PROVE Ahead(links, Append(There(n), m))
  <2>1. Append(There(n), m) \in Path /\ IsInDir(Append(There(n), m), There(n))
    BY <1>3, AddPath, InAdd, InSelf
  <2> QED BY <1>3, <2>1, AheadBelow
<1>5. at'.into = There(n)
  BY <1>1
<1>6. IntoFresh'
  BY <1>1, <1>2, <1>4, <1>5 DEF IntoFresh, Past, Ahead, MakesIn, Removes, Lexists
<1> QED BY <1>1, <1>2, <1>6, FreshKept DEF Planning

\* The link of another package is unfolded: its place is the link's until the
\* directory comes, and check has planned nothing below.
LEMMA FoldedFresh ==
    ASSUME FreshReady, NEW n \in Name, ChildFolded(n)
    PROVE  FreshInv'
<1> DEFINE w == There(n)  a == Base(n)  b == Buf(n)
           L == Push(links, RemoveOp(w))  M == Push(L, MkdirOp(w))
<1>1. /\ phase = "check" /\ n \in Top.kids /\ Done(n) /\ UNCHANGED <<setupVars, fs>>
      /\ UNCHANGED <<fs, host>> /\ LinkedDir(n) /\ OtherPackage(n)
  BY DEF ChildFolded, LinkedDir, OpenDir, FoundDir, Found, setupVars
<1>2. CASE ~(Readable(fs, a) /\ Readable(fs, b))
  <2>1. phase' = "aborted"
    BY <1>2 DEF ChildFolded, CheckDirs
  <2> QED BY <1>1, <2>1, FreshKept DEF Stopped, Planning
<1>3. CASE Readable(fs, a) /\ Readable(fs, b)
  <2> DEFINE frame == [a |-> a, b |-> b, w |-> w,
                       common |-> Children(a) \cap Children(b), rest |-> Children(b) \ Children(a)]
  <2>1. /\ links' = M /\ deps' = Append(<<>>, frame) /\ phase' = "deps"
        /\ at' = [entry |-> w, into |-> w, base |-> a]
    BY <1>3 DEF ChildFolded, CheckDirs
  <2>2. IsLink(fs, w) /\ fs[w].ref = b /\ b \in Path /\ PlainDir(fs, b) /\ Managed(b)
    BY <1>1, <1>3, FreshFacts, FoldedPlain
  <2>3. w \in Path /\ OpenDirOf(fs, Parent(w)) /\ Ahead(links, w)
    BY <1>1, TopFresh
  <2>4. Disk(fs) /\ links \in Seq(Op) /\ FreshOK(fs, links)
    BY <1>1, FreshFacts DEF CallsFresh, Planning
  <2>5. \E d \in StowRoots : IsInDir(b, d)
    <3>1. stow_dirs \subseteq StowRoots /\ Config.autoStow = {}
      BY FreshFacts DEF TidyReady, TidyInv, TidyHost, Config
    <3> QED BY <2>2, <3>1 DEF Managed, match_stow_dirs, match_auto_stow_dirs
  <2>6. \A m \in Children(b) : Append(b, m) \in DOMAIN fs
    <3>1. IsInDir(b, b)
      BY <2>2, InSelf
    <3>2. Entries(fs, b) = {m \in Name : Append(b, m) \in DOMAIN fs}
      BY <2>2, <2>4, <3>1, PlainName
    <3> QED BY <3>2 DEF Children
  <2>7. MakesIn(links, w) = {}
    BY <2>2, <2>3 DEF Ahead, IsLink
  <2> HIDE DEF w, a, b
  <2>8. /\ RemoveOp(w) \in Op /\ RemoveOp(w).act = "REMOVE"
        /\ MkdirOp(w) \in Op /\ MkdirOp(w).act = "MKDIR" /\ MkdirOp(w).origin = <<>>
        /\ MkdirOp(w).target = w
    BY <2>3, NamedOpTyped DEF RemoveOp, MkdirOp, MkOp
  <2>9. /\ L \in Seq(Op) /\ FreshOK(fs, L) /\ MakesIn(L, w) = {}
        /\ \E j \in DOMAIN L : Removes(L, j) /\ L[j].origin = w
    <3>1. GoodLink(fs, w)
      BY <2>2, <2>3, <2>5 DEF PlainDir, IsDir, GoodLink
    <3>2. MakesIn(L, w) = {}
      BY <2>4, <2>7, <2>8, PushNothing
    <3> QED BY <2>2, <2>3, <2>4, <2>8, <3>1, <3>2, PushRemoveFresh, PushTyped
  <2>10. \A p \in Path : Ahead(links, p) => Ahead(L, p)
    BY <2>4, <2>8, AheadPush
  <2> HIDE DEF L
  <2>11. ASSUME NEW i \in DOMAIN L, ~Removes(L, i), L[i].target = w PROVE FALSE
    BY <2>3, <2>9, <2>11, InSelf DEF MakesIn
  <2>12. M \in Seq(Op) /\ FreshOK(fs, M)
    BY <2>3, <2>8, <2>9, <2>11, PushMakeFresh, PushTyped
  <2>13. \A p \in Path : Ahead(links, p) /\ ~IsInDir(w, p) => Ahead(M, p)
    BY <2>8, <2>9, <2>10, AheadPush
  <2>14. ASSUME NEW m \in Name PROVE MakesIn(M, Append(w, m)) = {}
    <3>1. Append(w, m) \in Path /\ Append(w, m) # w /\ IsInDir(Append(w, m), w)
      <4>1. Append(w, m) \in Path /\ IsInDir(Append(w, m), w)
        BY <2>3, AddPath, InAdd, InSelf
      <4>2. Len(Append(w, m)) = Len(w) + 1 /\ Len(w) \in Nat
        BY <2>3, AddPath, PathLen
      <4> QED BY <4>1, <4>2
    <3>2. ~IsInDir(w, Append(w, m))
      BY <2>3, <3>1, InAnti
    <3>3. MakesIn(L, Append(w, m)) = {}
      <4> SUFFICES ASSUME NEW i \in MakesIn(L, Append(w, m)) PROVE FALSE
        OBVIOUS
      <4>1. i \in DOMAIN L /\ ~Removes(L, i) /\ IsInDir(L[i].target, Append(w, m))
        BY DEF MakesIn
      <4>2. L[i].target \in Path
        <5>1. L[i] \in Op
          BY <2>9, <4>1
        <5> QED BY <5>1 DEF Op
      <4>3. i \in MakesIn(L, w)
        BY <2>3, <3>1, <4>1, <4>2, InTrans DEF MakesIn
      <4> QED BY <2>9, <4>3
    <3> QED BY <2>8, <2>9, <3>2, <3>3, PushNothing
  <2> HIDE DEF M
  <2>15. CallsFresh' /\ \A k \in DOMAIN stack' : Past(stack'[k], w)
    BY <1>1, <2>1, <2>12, <2>13, ChildFresh DEF w
  <2>16. IntoFresh'
    <3>1. at'.into = w
      BY <2>1
    <3>2. \A m \in Name : Ahead(M, Append(w, m))
      BY <2>14 DEF Ahead
    <3> QED BY <1>1, <2>1, <2>15, <3>1, <3>2 DEF IntoFresh, Past, Ahead, MakesIn, Removes, Lexists
  <2>17. DepsFresh'
    <3>1. DOMAIN deps' = {1} /\ deps'[1] = frame
      BY <2>1
    <3>2. frame.common \cap frame.rest = {} /\ DepsNames(frame) \subseteq Children(b)
      BY DEF DepsNames
    <3>3. \A m \in DepsNames(frame) : m \in Name
      BY <3>2 DEF Children, Entries
    <3>4. frame.w = w /\ frame.b = b
      OBVIOUS
    <3> HIDE DEF frame
    <3>5. \A m \in DepsNames(frame) :
              MakesIn(M, Append(frame.w, m)) = {} /\ Append(frame.b, m) \in DOMAIN fs
      BY <2>6, <2>14, <3>2, <3>3, <3>4
    <3> QED BY <1>1, <2>1, <3>1, <3>2, <3>5 DEF DepsFresh, DepsFreshFor, DepsNames, DepsPast,
       MakesIn, Removes
  <2> QED BY <1>1, <2>1, <2>15, <2>16, <2>17, FreshKept DEF Planning
<1> QED BY <1>2, <1>3

LEMMA CheckChildFresh ==
    ASSUME FreshReady, NEW n \in Name, CheckChild(n)
    PROVE  FreshInv'
<1>1. phase = "check" /\ n \in Top.kids
  BY DEF CheckChild, ChildOwn, ChildExec, ChildCopied, ChildConflict,
         ChildProtected, ChildDir, ChildTraversed, ChildAutoTraverse, ChildForeign,
         ChildFolded, ChildMissing, FoundFile, FoundDir, Found, Missing, OpenDir, LinkedDir
<1>2. TidyReady
  BY FreshFacts
<1>3. CASE ChildConflict(n) \/ ChildProtected(n) \/ ChildForeign(n)
  BY <1>1, <1>3, ObstacleFresh DEF ChildConflict, ChildProtected, ChildForeign
<1>4. ~ChildExec(n) /\ ~ChildCopied(n)
  BY <1>2, NoCopies DEF ChildExec, ChildCopied
<1>5. ~ChildTraversed(n) /\ ~ChildAutoTraverse(n)
  BY <1>2, TidyFacts DEF ChildTraversed, ChildAutoTraverse, match_auto_traverse
<1> QED BY <1>3, <1>4, <1>5, OwnFresh, DirFresh, FoldedFresh, MissingFresh DEF CheckChild
-----------------------------------------------------------------------------
\* A place checkDirs has still to come to: it is seen through the link.
LEMMA DepsPlace ==
    ASSUME FreshReady, phase = "deps", NEW n \in DepsNames(Deps)
    PROVE  /\ n \in Name /\ W(n) \in Path /\ B(n) \in Path /\ Deps.w \in Path
           /\ W(n) \notin DOMAIN fs /\ Lexists(fs, W(n))
           /\ OpenDirOf(fs, Parent(W(n))) /\ IsInDir(W(n), at.into)
           /\ MakesIn(links, W(n)) = {}
<1>1. /\ CheckOK /\ Disk(fs) /\ Ready /\ TidyReady /\ DepsFresh /\ at \in Child
      /\ deps \in Seq(DepsCall) /\ deps # <<>>
  BY FreshFacts DEF CheckOK, CheckTypeOK
<1>2. Len(deps) \in DOMAIN deps /\ Deps = deps[Len(deps)] /\ Deps \in DepsCall
  BY <1>1, EmptySeq DEF Deps
<1>3. n \in Name
  BY <1>2 DEF DepsNames, DepsCall
<1>4. MakesIn(links, W(n)) = {} /\ B(n) \in DOMAIN fs
  BY <1>1, <1>2 DEF DepsFresh, DepsFreshFor, W, B
<1>5. /\ W(n) \in Path /\ B(n) \in Path /\ Deps.w \in Path /\ at.entry \in Path
      /\ PlainDir(fs, fs[at.entry].ref)
  BY <1>1, <1>3, DepsFacts
<1>6. PICK y \in Path : W(n) = at.entry \o y /\ B(n) = fs[at.entry].ref \o y
  BY <1>1, <1>3, DepsFacts
<1>7. IsLink(fs, at.entry) /\ at.into = at.entry
      /\ Deps.w = at.entry \o After(Deps.w, at.entry)
  BY <1>1, <1>2 DEF Ready, PlannerOK, DepsOK, DepsFrameOK
<1>8. IsInDir(Deps.w, at.entry)
  <2> DEFINE z == After(Deps.w, at.entry)
  <2>1. Len(at.entry) \in Nat /\ Len(Deps.w) \in Nat
    BY <1>5, PathLen
  <2>2. z \in Path
    BY <1>5, <2>1 DEF After, Path
  <2>3. Deps.w = at.entry \o z
    BY <1>7
  <2> HIDE DEF z
  <2> QED BY <1>5, <2>2, <2>3, JoinIn
<1>9. IsInDir(W(n), Deps.w) /\ W(n) # Deps.w
  <2>1. IsInDir(W(n), Deps.w)
    BY <1>3, <1>5, InAdd, InSelf DEF W
  <2>2. Len(W(n)) = Len(Deps.w) + 1 /\ Len(Deps.w) \in Nat
    BY <1>3, <1>5, AddPath, PathLen DEF W
  <2> QED BY <2>1, <2>2
<1>10. y # <<>>
  <2> SUFFICES ASSUME y = <<>> PROVE FALSE
    OBVIOUS
  <2>1. W(n) = at.entry
    BY <1>5, <1>6, PathLen
  <2> QED BY <1>5, <1>8, <1>9, <2>1, InAnti
<1>11. W(n) \notin DOMAIN fs /\ Loc(fs, W(n)) = B(n)
  <2>1. Loc(fs, at.entry \o y) = fs[at.entry].ref \o y /\ at.entry \o y \notin DOMAIN fs
    BY <1>1, <1>5, <1>7, <1>10, LocBelowLink
  <2> QED BY <1>6, <2>1
<1>12. Lexists(fs, W(n))
  BY <1>4, <1>11 DEF Lexists
<1>13. OpenDirOf(fs, Parent(W(n)))
  <2>1. Parent(W(n)) = Deps.w
    BY <1>3, <1>5, AddPath DEF W
  <2>2. ~IsDir(fs, Deps.w)
    <3>1. ~IsDir(fs, at.entry)
      BY <1>7 DEF IsLink, IsDir
    <3> QED BY <1>1, <1>5, <1>8, <3>1, DirOver
  <2> QED BY <2>1, <2>2 DEF OpenDirOf
<1>14. IsInDir(W(n), at.into)
  BY <1>5, <1>7, <1>8, <1>9, InTrans
<1> QED BY <1>3, <1>4, <1>5, <1>11, <1>12, <1>13, <1>14

\* It plans something there.
LEMMA DepsPush ==
    ASSUME FreshReady, phase = "deps", NEW n \in DepsNames(Deps),
           NEW l \in Op, l.act \in {"MKDIR", "SET_LINK"}, l.act = "MKDIR" => l.origin = <<>>,
           l.target = W(n), UNCHANGED <<fs, host, stack, at>>, links' = Push(links, l)
    PROVE  CallsFresh' /\ IntoFresh'
<1> DEFINE M == Push(links, l)
<1>1. /\ CallsFresh /\ IntoFresh /\ Ready /\ Disk(fs) /\ links \in Seq(Op) /\ stack \in Seq(Call)
      /\ at \in Child
  BY FreshFacts DEF Planning
<1>2. /\ W(n) \in Path /\ W(n) \notin DOMAIN fs /\ Lexists(fs, W(n))
      /\ OpenDirOf(fs, Parent(W(n))) /\ IsInDir(W(n), at.into) /\ MakesIn(links, W(n)) = {}
  BY DepsPlace
<1>3. at.into \in Path /\ ~IsDir(fs, at.into)
  <2>1. at.into = at.entry /\ IsLink(fs, at.entry)
    BY <1>1 DEF Ready, PlannerOK, DepsOK
  <2> QED BY <1>1, <2>1 DEF Child, IsLink, IsDir
<1>4. FreshOK(fs, M)
  <2>1. \A i \in DOMAIN links : ~Removes(links, i) => links[i].target # l.target
    BY <1>2, InSelf DEF MakesIn
  <2> QED BY <1>1, <1>2, <2>1, PushMakeFresh DEF CallsFresh
<1>5. ASSUME NEW k \in DOMAIN stack, NEW m \in stack[k].kids PROVE Ahead(M, Append(stack[k].dir, m))
  <2>1. m \in Name /\ stack[k].dir \in Path
    BY <1>1, CallIs
  <2>2. PICK e \in Name \ stack[k].kids : IsInDir(at.into, Append(stack[k].dir, e))
    BY <1>1 DEF IntoFresh, Past
  <2>3. Append(stack[k].dir, e) \in Path
    BY <2>1, AddPath
  <2>4. IsInDir(W(n), Append(stack[k].dir, e))
    BY <1>2, <1>3, <2>2, <2>3, InTrans
  <2>5. ~IsInDir(W(n), Append(stack[k].dir, m))
    BY <1>2, <2>1, <2>2, <2>4, ApartNames
  <2>6. Ahead(links, Append(stack[k].dir, m))
    BY <1>1 DEF CallsFresh
  <2> QED BY <1>1, <2>5, <2>6, AheadPush
<1>6. ASSUME NEW m \in Name PROVE Ahead(M, Append(at.into, m))
  <2>1. Append(at.into, m) \notin DOMAIN fs
    <3>1. /\ Append(at.into, m) \in Path /\ IsInDir(Append(at.into, m), at.into)
          /\ Len(Append(at.into, m)) = Len(at.into) + 1 /\ Len(at.into) \in Nat
      BY <1>3, AddPath, InAdd, InSelf, PathLen
    <3>2. Append(at.into, m) # at.into
      BY <3>1
    <3> QED BY <1>1, <1>3, <3>1, <3>2, DirAbove
  <2>2. Ahead(links, Append(at.into, m))
    BY <1>1 DEF IntoFresh
  <2> QED BY <1>1, <1>2, <2>1, <2>2, AheadPush
<1> HIDE DEF M
<1>7. links' = M
  BY DEF M
<1>8. FreshOK(fs, links)'
  BY <1>4, <1>7, FreshSame
<1>9. CallsFresh'
  BY <1>1, <1>5, <1>7, <1>8 DEF CallsFresh, OpenDirOf, IsDir, Ahead, MakesIn, Removes, Past, Lexists
<1>10. IntoFresh'
  BY <1>1, <1>6, <1>7 DEF IntoFresh, Ahead, MakesIn, Removes, Past, Lexists
<1> QED BY <1>9, <1>10

\* The calls of checkDirs when one name is done.
LEMMA DepsFewer ==
    ASSUME FreshReady, phase = "deps", NEW n \in DepsNames(Deps),
           NEW D, \/ n \in Deps.common /\ D = [deps EXCEPT ![Len(deps)].common = @ \ {n}]
                  \/ n \in Deps.rest /\ D = [deps EXCEPT ![Len(deps)].rest = @ \ {n}],
           NEW M, \A p \in Path : ~IsInDir(W(n), p) /\ MakesIn(links, p) = {} => MakesIn(M, p) = {}
    PROVE  D \in Seq(DepsCall) /\ DepsFreshFor(D, M) /\ \A k \in DOMAIN D : DepsPast(D[k], W(n))
<1>1. /\ CheckOK /\ deps \in Seq(DepsCall) /\ deps # <<>>
      /\ DepsFreshFor(deps, links)
  BY FreshFacts DEF CheckOK, CheckTypeOK, DepsFresh
<1>2. Len(deps) \in DOMAIN deps /\ Deps = deps[Len(deps)]
  BY <1>1, EmptySeq DEF Deps
<1>3. n \in Name /\ W(n) \in Path /\ Deps.w \in Path
  BY DepsPlace
<1>4. D \in Seq(DepsCall)
  BY <1>1, <1>3, FewerTyped
<1>5. ASSUME NEW k \in DOMAIN deps
      PROVE  /\ deps[k].w \in Path /\ DepsNames(deps[k]) \subseteq Name
             /\ deps[k].common \cap deps[k].rest = {}
  <2>1. deps[k] \in DepsCall
    BY <1>1
  <2> QED BY <1>1, <2>1 DEF DepsCall, DepsNames, DepsFreshFor
<1>6. DOMAIN D = DOMAIN deps
      /\ \A k \in DOMAIN deps :
            /\ D[k].w = deps[k].w /\ D[k].b = deps[k].b
            /\ D[k].common \subseteq deps[k].common /\ D[k].rest \subseteq deps[k].rest
            /\ k = Len(deps) => n \notin DepsNames(D[k])
  <2>1. deps[Len(deps)].common \cap deps[Len(deps)].rest = {}
    BY <1>2, <1>5
  <2>2. ASSUME NEW k \in DOMAIN deps PROVE deps[k] \in DepsCall
    BY <1>1
  <2>3. CASE n \in Deps.common /\ D = [deps EXCEPT ![Len(deps)].common = @ \ {n}]
    BY <1>1, <1>2, <2>1, <2>2, <2>3 DEF DepsCall, DepsNames
  <2>4. CASE n \in Deps.rest /\ D = [deps EXCEPT ![Len(deps)].rest = @ \ {n}]
    BY <1>1, <1>2, <2>1, <2>2, <2>4 DEF DepsCall, DepsNames
  <2> QED BY <2>3, <2>4
<1>7. ASSUME NEW k \in DOMAIN deps PROVE DepsPast(D[k], W(n))
  <2>1. CASE k = Len(deps)
    <3>1. IsInDir(W(n), Append(Deps.w, n))
      BY <1>3, InSelf DEF W
    <3>2. D[k].w = Deps.w /\ n \in Name \ DepsNames(D[k])
      BY <1>2, <1>3, <1>6, <2>1
    <3> QED BY <3>1, <3>2 DEF DepsPast
  <2>2. CASE k # Len(deps)
    <3>1. k \in 1..(Len(deps) - 1)
      BY <1>1, <2>2
    <3>2. DepsPast(deps[k], Deps.w)
      BY <1>1, <1>2, <3>1 DEF DepsFreshFor
    <3>3. PICK m \in Name \ DepsNames(deps[k]) : IsInDir(Deps.w, Append(deps[k].w, m))
      BY <3>2 DEF DepsPast
    <3>4. Append(deps[k].w, m) \in Path
      BY <1>5, AddPath
    <3>5. IsInDir(W(n), Append(deps[k].w, m))
      BY <1>3, <3>3, <3>4, InAdd DEF W
    <3> QED BY <1>6, <3>3, <3>5 DEF DepsPast, DepsNames
  <2> QED BY <2>1, <2>2
<1>8. ASSUME NEW k \in DOMAIN deps, NEW m \in DepsNames(D[k])
      PROVE  MakesIn(M, Append(deps[k].w, m)) = {} /\ Append(deps[k].b, m) \in DOMAIN fs
  <2>1. m \in DepsNames(deps[k]) /\ m \in Name
    BY <1>5, <1>6 DEF DepsNames
  <2>2. MakesIn(links, Append(deps[k].w, m)) = {} /\ Append(deps[k].b, m) \in DOMAIN fs
    BY <1>1, <2>1 DEF DepsFreshFor
  <2>3. PICK e \in Name \ DepsNames(D[k]) : IsInDir(W(n), Append(deps[k].w, e))
    BY <1>6, <1>7 DEF DepsPast
  <2>4. ~IsInDir(W(n), Append(deps[k].w, m)) /\ Append(deps[k].w, m) \in Path
    BY <1>3, <1>5, <2>1, <2>3, ApartNames, AddPath
  <2> QED BY <2>2, <2>4
<1>9. ASSUME NEW k \in DOMAIN deps, NEW j \in 1..(k - 1) PROVE DepsPast(D[j], D[k].w)
  <2>1. j \in DOMAIN deps /\ DepsPast(deps[j], deps[k].w)
    BY <1>1 DEF DepsFreshFor
  <2> QED BY <1>6, <2>1 DEF DepsPast, DepsNames
<1>10. DepsFreshFor(D, M)
  BY <1>5, <1>6, <1>8, <1>9 DEF DepsFreshFor
<1> QED BY <1>4, <1>6, <1>7, <1>10

\* A call of checkDirs handles one name; it may call itself for a directory
\* that both packages have.
LEMMA CheckDepsFresh ==
    ASSUME FreshReady, NEW n \in Name, CheckDeps(n)
    PROVE  FreshInv'
<1>1. phase = "deps" /\ UNCHANGED <<setupVars, fs>> /\ UNCHANGED <<fs, host>>
  BY DEF CheckDeps, DepsDir, DepsHarmless, DepsConflict, DepsLink, Shared, Stop, setupVars
<1>2. /\ CallsFresh /\ IntoFresh /\ DepsFresh /\ Ready /\ Disk(fs) /\ links \in Seq(Op)
      /\ deps \in Seq(DepsCall) /\ ~opt.force
  BY <1>1, FreshFacts DEF Planning
<1>3. ASSUME n \in DepsNames(Deps), NEW l \in Op, l.target = W(n)
      PROVE  \A p \in Path : ~IsInDir(W(n), p) /\ MakesIn(links, p) = {}
                => MakesIn(Push(links, l), p) = {}
  BY <1>2, <1>3, PushNothing
<1>4. CASE DepsHarmless(n)
  <2>1. /\ n \in Deps.common /\ deps' = [deps EXCEPT ![Len(deps)].common = @ \ {n}]
        /\ UNCHANGED <<phase, stack, at, links>>
    BY <1>4 DEF DepsHarmless, Shared, Handled
  <2>2. DepsFreshFor(deps', links)
    BY <1>1, <2>1, DepsFewer DEF DepsNames
  <2>3. CallsFresh' /\ IntoFresh'
    BY <1>1, <1>2, <2>1, FreshSame DEF CallsFresh, IntoFresh, OpenDirOf, IsDir, Ahead, MakesIn,
       Removes, Past, Lexists
  <2>4. DepsFresh'
    BY <1>1, <2>1, <2>2 DEF DepsFresh, DepsFreshFor, DepsNames, DepsPast, MakesIn, Removes
  <2> QED BY <1>1, <2>1, <2>3, <2>4, FreshKept DEF Planning
<1>5. CASE DepsConflict(n)
  <2>1. phase' = "refused"
    BY <1>2, <1>5 DEF DepsConflict, Stop
  <2> QED BY <1>1, <2>1, FreshKept DEF Stopped, Planning
<1>6. CASE DepsLink(n)
  <2> DEFINE l == LinkOp(B(n), W(n))
  <2>1. /\ n \in Deps.rest /\ deps' = [deps EXCEPT ![Len(deps)].rest = @ \ {n}]
        /\ links' = Push(links, l) /\ UNCHANGED <<phase, stack, at>>
    BY <1>6 DEF DepsLink
  <2>2. n \in DepsNames(Deps)
    BY <2>1 DEF DepsNames
  <2>3. l \in Op /\ l.act = "SET_LINK" /\ l.target = W(n)
    BY <1>1, <2>2, DepsPlace, NamedOpTyped DEF LinkOp, MkOp
  <2> HIDE DEF l
  <2>4. CallsFresh' /\ IntoFresh'
    BY <1>1, <2>1, <2>2, <2>3, DepsPush
  <2>5. DepsFreshFor(deps', links')
    BY <1>1, <1>3, <2>1, <2>2, <2>3, DepsFewer
  <2>6. DepsFresh'
    BY <1>1, <2>5 DEF DepsFresh, DepsFreshFor, DepsNames, DepsPast, MakesIn, Removes
  <2> QED BY <1>1, <2>1, <2>4, <2>6, FreshKept DEF Planning
<1>7. CASE DepsDir(n)
  <2> DEFINE l == MkdirOp(W(n))  M == Push(links, l)  H == Handled(n)
             frame == [a |-> A(n), b |-> B(n), w |-> W(n),
                       common |-> Children(A(n)) \cap Children(B(n)),
                       rest   |-> Children(B(n)) \ Children(A(n))]
  <2>1. n \in Deps.common /\ n \in DepsNames(Deps) /\ UNCHANGED <<stack, at>>
    BY <1>7 DEF DepsDir, Shared, DepsNames
  <2>2. CASE phase' = "aborted"
    BY <1>1, <2>2, FreshKept DEF Stopped, Planning
  <2>3. CASE phase' # "aborted"
    <3>1. links' = M /\ deps' = Append(H, frame) /\ phase' = "deps"
      BY <1>7, <2>3 DEF DepsDir, CheckDirs
    <3>2. l \in Op /\ l.act = "MKDIR" /\ l.origin = <<>> /\ l.target = W(n)
      BY <1>1, <2>1, DepsPlace, NamedOpTyped DEF MkdirOp, MkOp
    <3> HIDE DEF l
    <3>3. CallsFresh' /\ IntoFresh'
      BY <1>1, <2>1, <3>1, <3>2, DepsPush
    <3>4. H \in Seq(DepsCall) /\ DepsFreshFor(H, M) /\ \A k \in DOMAIN H : DepsPast(H[k], W(n))
      <4>1. H = [deps EXCEPT ![Len(deps)].common = @ \ {n}]
        BY DEF Handled
      <4> HIDE DEF H
      <4> QED BY <1>1, <1>3, <2>1, <3>2, <4>1, DepsFewer
    <3>5. frame.common \cap frame.rest = {} /\ DepsNames(frame) \subseteq Children(B(n))
          /\ frame.w = W(n) /\ frame.b = B(n)
      BY DEF DepsNames
    <3>6. \A m \in Children(B(n)) : m \in Name /\ Append(B(n), m) \in DOMAIN fs
      <4>1. IsInDir(B(n), fs[at.entry].ref) /\ PlainDir(fs, fs[at.entry].ref)
            /\ fs[at.entry].ref \in Path /\ B(n) \in Path
        BY <1>1, <1>2, DepsFacts
      <4>2. Entries(fs, B(n)) = {m \in Name : Append(B(n), m) \in DOMAIN fs}
        BY <1>2, <4>1, PlainName
      <4> QED BY <4>2 DEF Children
    <3>7. ASSUME NEW m \in Name PROVE MakesIn(M, Append(W(n), m)) = {}
      <4>1. W(n) \in Path /\ MakesIn(links, W(n)) = {}
        BY <1>1, <2>1, DepsPlace
      <4>2. Append(W(n), m) \in Path /\ Append(W(n), m) # W(n) /\ IsInDir(Append(W(n), m), W(n))
        <5>1. Append(W(n), m) \in Path /\ IsInDir(Append(W(n), m), W(n))
          BY <4>1, AddPath, InAdd, InSelf
        <5>2. Len(Append(W(n), m)) = Len(W(n)) + 1 /\ Len(W(n)) \in Nat
          BY <4>1, AddPath, PathLen
        <5> QED BY <5>1, <5>2
      <4>3. ~IsInDir(W(n), Append(W(n), m))
        BY <4>1, <4>2, InAnti
      <4>4. MakesIn(links, Append(W(n), m)) = {}
        <5> SUFFICES ASSUME NEW i \in MakesIn(links, Append(W(n), m)) PROVE FALSE
          OBVIOUS
        <5>1. i \in DOMAIN links /\ ~Removes(links, i) /\ IsInDir(links[i].target, Append(W(n), m))
          BY DEF MakesIn
        <5>2. links[i].target \in Path
          <6>1. links[i] \in Op
            BY <1>2, <5>1
          <6> QED BY <6>1 DEF Op
        <5>3. i \in MakesIn(links, W(n))
          BY <4>1, <4>2, <5>1, <5>2, InTrans DEF MakesIn
        <5> QED BY <4>1, <5>3
      <4> QED BY <1>2, <3>2, <4>3, <4>4, PushNothing
    <3> HIDE DEF M, H, frame
    <3>8. /\ DOMAIN deps' = DOMAIN H \cup {Len(H) + 1} /\ DOMAIN H = 1..Len(H) /\ Len(H) \in Nat
          /\ \A k \in DOMAIN H : deps'[k] = H[k]
          /\ deps'[Len(H) + 1] = frame
      BY <3>1, <3>4
    <3>9. ASSUME NEW k \in DOMAIN deps'
          PROVE  /\ deps'[k].common \cap deps'[k].rest = {}
                 /\ \A m \in DepsNames(deps'[k]) :
                       MakesIn(M, Append(deps'[k].w, m)) = {} /\ Append(deps'[k].b, m) \in DOMAIN fs
                 /\ \A j \in 1..(k - 1) : DepsPast(deps'[j], deps'[k].w)
      <4>1. CASE k \in DOMAIN H
        <5>1. \A j \in 1..(k - 1) : j \in DOMAIN H
          BY <3>8, <4>1
        <5> QED BY <3>4, <3>8, <4>1, <5>1 DEF DepsFreshFor
      <4>2. CASE k = Len(H) + 1
        <5>1. \A j \in 1..(k - 1) : j \in DOMAIN H
          BY <3>8, <4>2
        <5> QED BY <3>4, <3>5, <3>6, <3>7, <3>8, <4>2, <5>1
      <4> QED BY <3>8, <4>1, <4>2
    <3>10. DepsFreshFor(deps', M)
      BY <3>9 DEF DepsFreshFor
    <3>11. DepsFresh'
      BY <1>1, <3>1, <3>10 DEF DepsFresh, DepsFreshFor, DepsNames, DepsPast, MakesIn, Removes
    <3> QED BY <1>1, <3>1, <3>3, <3>11, FreshKept DEF Planning
  <2> QED BY <2>2, <2>3
<1> QED BY <1>4, <1>5, <1>6, <1>7 DEF CheckDeps

\* An inner call returns: what it pushes a second time is in the plan.
LEMMA DepsReturnFresh ==
    ASSUME FreshReady, DepsReturn
    PROVE  FreshInv'
<1>1. /\ phase = "deps" /\ phase' \in {"deps", "dive"} /\ UNCHANGED <<stack, at, setupVars, fs>>
      /\ UNCHANGED <<setupVars, fs>> /\ UNCHANGED <<fs, host>>
      /\ deps' = SubSeq(deps, 1, Len(deps) - 1)
      /\ links' = links \/ links' = Push(links, MkdirOp(Deps.w))
  BY DEF DepsReturn, setupVars
<1>2. /\ CallsFresh /\ IntoFresh /\ DepsFresh /\ Ready /\ links \in Seq(Op)
      /\ deps \in Seq(DepsCall) /\ deps # <<>>
  BY <1>1, FreshFacts DEF Planning, CheckOK, CheckTypeOK
<1>3. Push(links, MkdirOp(Deps.w)) = links
  <2>1. Len(deps) \in DOMAIN deps /\ Deps = deps[Len(deps)]
    BY <1>2, EmptySeq DEF Deps
  <2>2. Made(links, Deps.w)
    BY <1>1, <1>2, <2>1 DEF Ready, PlannerOK, DepsOK, DepsFrameOK
  <2>3. PICK j \in 1..Len(links) : links[j].act = "MKDIR" /\ links[j].target = Deps.w
    BY <2>2 DEF Made, MadeBy
  <2>4. j \in DOMAIN links
    BY <1>2, <2>3
  <2>5. links[j].origin = <<>>
    BY <1>2, <2>3, <2>4 DEF CallsFresh, FreshOK, MakesFresh, Removes
  <2>6. SameOp(links[j], MkdirOp(Deps.w))
    BY <2>3, <2>5 DEF SameOp, MkdirOp, MkOp
  <2> QED BY <2>4, <2>6 DEF Push
<1>4. UNCHANGED links
  BY <1>1, <1>3
<1>5. CallsFresh' /\ IntoFresh'
  BY <1>1, <1>2, <1>4, FreshSame DEF CallsFresh, IntoFresh, OpenDirOf, IsDir, Ahead, MakesIn,
     Removes, Past, Lexists
<1>6. \A k \in DOMAIN deps' : k \in DOMAIN deps /\ deps'[k] = deps[k] /\ \A j \in 1..(k - 1) : j \in DOMAIN deps'
  BY <1>1, <1>2
<1>7. DepsFresh'
  BY <1>1, <1>2, <1>4, <1>6 DEF DepsFresh, DepsFreshFor, DepsNames, DepsPast, MakesIn, Removes
<1> QED BY <1>1, <1>5, <1>7, FreshKept DEF Planning
-----------------------------------------------------------------------------
\* check is called for a directory it has not come to.
LEMMA EnterFresh ==
    ASSUME FreshReady, NEW dir \in Path, NEW base \in Path, NEW frames \in Seq(Call),
           Enter(dir, base, frames), FreshOK(fs, links),
           IsDir(fs, dir) => Stat(fs, dir) = dir,
           \A n \in Name : Ahead(links, Append(dir, n)),
           \A k \in DOMAIN frames :
               /\ OpenDirOf(fs, frames[k].dir) /\ Past(frames[k], dir)
               /\ \A n \in frames[k].kids : Ahead(links, Append(frames[k].dir, n))
               /\ \A j \in 1..(k - 1) : Past(frames[j], frames[k].dir)
    PROVE  FreshInv'
<1> DEFINE frame == [dir |-> dir, base |-> base, kids |-> Children(base)]
<1>1. UNCHANGED <<setupVars, fs>> /\ UNCHANGED <<fs, host>>
      /\ (phase' \in Stopped
           \/ (phase' = "check" /\ stack' = Append(frames, frame) /\ UNCHANGED links /\ Usable(dir)))
  BY DEF Enter, Stop, Stopped, setupVars
<1>2. CASE phase' \in Stopped
  BY <1>1, <1>2, FreshKept DEF Stopped, Planning
<1>3. CASE phase' \notin Stopped
  <2>1. phase' = "check" /\ stack' = Append(frames, frame) /\ UNCHANGED links /\ Usable(dir)
    BY <1>1, <1>3
  <2>2. OpenDirOf(fs, dir)
    <3>1. Writable(fs, dir)
      BY <2>1, FreshFacts DEF Usable
    <3> QED BY <3>1 DEF OpenDirOf, Writable
  <2>3. frame.dir = dir /\ frame.kids \subseteq Name
    BY DEF Children, Entries
  <2> HIDE DEF frame
  <2>4. /\ DOMAIN stack' = DOMAIN frames \cup {Len(frames) + 1} /\ DOMAIN frames = 1..Len(frames)
        /\ Len(frames) \in Nat /\ \A k \in DOMAIN frames : stack'[k] = frames[k]
        /\ stack'[Len(frames) + 1] = frame
    BY <2>1
  <2>5. ASSUME NEW k \in DOMAIN stack'
        PROVE  /\ OpenDirOf(fs, stack'[k].dir)
               /\ \A n \in stack'[k].kids : Ahead(links, Append(stack'[k].dir, n))
               /\ \A j \in 1..(k - 1) : Past(stack'[j], stack'[k].dir)
    <3>1. CASE k \in DOMAIN frames
      <4>1. \A j \in 1..(k - 1) : j \in DOMAIN frames
        BY <2>4, <3>1
      <4> QED BY <2>4, <3>1, <4>1
    <3>2. CASE k = Len(frames) + 1
      <4>1. \A j \in 1..(k - 1) : j \in DOMAIN frames
        BY <2>4, <3>2
      <4> QED BY <2>2, <2>3, <2>4, <3>2, <4>1
    <3> QED BY <2>4, <3>1, <3>2
  <2>6. FreshOK(fs, links)'
    BY <1>1, <2>1, FreshSame
  <2>7. CallsFresh'
    BY <1>1, <2>1, <2>5, <2>6 DEF CallsFresh, OpenDirOf, IsDir, Ahead, MakesIn, Removes, Past, Lexists
  <2> QED BY <1>1, <2>1, <2>7, FreshKept DEF Planning
<1> QED BY <1>2, <1>3

LEMMA DiveFresh ==
    ASSUME FreshReady, DiveNotDir \/ DiveCopyDir \/ Dive
    PROVE  FreshInv'
<1>1. phase = "dive"
  BY DEF DiveNotDir, DiveCopyDir, Dive
<1>2. /\ CallsFresh /\ IntoFresh /\ stack \in Seq(Call) /\ Disk(fs) /\ at \in Child /\ TidyReady
  BY <1>1, FreshFacts DEF Planning
<1>3. CASE DiveNotDir
  <2>1. phase' = "check" /\ UNCHANGED <<stack, links, setupVars, fs>> /\ UNCHANGED <<fs, setupVars>>
        /\ UNCHANGED <<fs, host>>
    BY <1>3 DEF DiveNotDir, Surface, setupVars
  <2>2. CallsFresh'
    BY <1>2, <2>1, FreshSame DEF CallsFresh, OpenDirOf, IsDir, Ahead, MakesIn, Removes, Past, Lexists
  <2> QED BY <2>1, <2>2, FreshKept DEF Planning
<1>4. ~DiveCopyDir
  BY <1>2, NoCopies DEF DiveCopyDir
<1>5. CASE Dive
  <2>1. at.into \in Path /\ at.base \in Path
    BY <1>2 DEF Child
  <2>2. IsDir(fs, at.into) => Stat(fs, at.into) = at.into
    BY <1>2, <2>1, LocOfNode, StatOfDir DEF IsDir
  <2>3. Enter(at.into, at.base, stack)
    BY <1>5 DEF Dive
  <2> QED BY <1>2, <2>1, <2>2, <2>3, EnterFresh DEF CallsFresh, IntoFresh
<1> QED BY <1>3, <1>4, <1>5

LEMMA CheckReturnFresh ==
    ASSUME FreshReady, CheckReturn
    PROVE  FreshInv'
<1>1. /\ phase = "check" /\ phase' = "check" /\ stack' = SubSeq(stack, 1, Len(stack) - 1)
      /\ UNCHANGED <<links, setupVars, fs>> /\ UNCHANGED <<fs, setupVars>> /\ UNCHANGED <<fs, host>>
  BY DEF CheckReturn, setupVars
<1>2. CallsFresh /\ stack \in Seq(Call)
  BY <1>1, FreshFacts DEF Planning
<1>3. \A k \in DOMAIN stack' : /\ k \in DOMAIN stack /\ stack'[k] = stack[k]
                               /\ \A j \in 1..(k - 1) : j \in DOMAIN stack' /\ stack'[j] = stack[j]
  BY <1>1, <1>2
<1>4. CallsFresh'
  BY <1>1, <1>2, <1>3, FreshSame DEF CallsFresh, OpenDirOf, IsDir, Ahead, MakesIn, Removes, Past, Lexists
<1> QED BY <1>1, <1>4, FreshKept DEF Planning

\* The plan that check writes for installing finds its places empty.
LEMMA CheckStepFresh ==
    ASSUME FreshReady, CheckStep
    PROVE  FreshInv'
BY CheckChildFresh, CheckDepsFresh, DepsReturnFresh, DiveFresh, CheckReturnFresh DEF CheckStep

LEMMA BeginPassFresh ==
    ASSUME TypeOK, PlanInv, TidyInv, BeginPass
    PROVE  FreshInv'
<1>1. phase = "begin" /\ Enter(Target, package, <<>>) /\ links = <<>> /\ UNCHANGED <<setupVars, fs>>
      /\ package \in Path /\ Target \in Path /\ Disk(fs)
  BY SetupAssumption DEF BeginPass, PlanInv, TypeOK, SetupTypeOK, Enter, Stop
<1>2. CASE ~Undisturbed
  BY <1>1, <1>2 DEF FreshInv, Undisturbed, setupVars
<1>3. CASE Undisturbed
  <2>1. TidyReady /\ StowDir \in stow_dirs
    BY <1>1, TidyIsStraight DEF TidyReady, TypeOK, CheckOK, PlanInv
  <2>2. FreshInv
    BY <1>1 DEF FreshInv
  <2>3. DOMAIN links = {} /\ links \in Seq(Op) /\ <<>> \in Seq(Call) /\ DOMAIN <<>> = {}
    BY <1>1
  <2>4. FreshOK(fs, links)
    BY <2>3 DEF FreshOK, MakesFresh
  <2>5. \A p : Ahead(links, p)
    BY <2>3 DEF Ahead, MakesIn
  <2>6. IsDir(fs, Target) => Stat(fs, Target) = Target
    BY <1>1, LocOfNode, StatOfDir DEF IsDir
  <2>7. FreshReady
    BY <1>3, <2>1, <2>2 DEF FreshReady
  <2> QED BY <1>1, <2>3, <2>4, <2>5, <2>6, <2>7, EnterFresh
<1> QED BY <1>2, <1>3
-----------------------------------------------------------------------------
(***************************************************************************)
(* The executor.                                                           *)
(***************************************************************************)
\* The list without its first operation, on the disk that one leaves.
LEMMA RestFresh ==
    ASSUME NEW F, NEW G, NEW L \in Seq(Op), L # <<>>, RestOK(F, L),
           \A d : OpenDirOf(F, d) => OpenDirOf(G, d),
           \A q \in DOMAIN F : (\E d \in StowRoots : IsInDir(q, d)) => q \in DOMAIN G,
           \A i \in 2..Len(L) : Removes(L, i) =>
              /\ IsLink(F, L[i].origin) => IsLink(G, L[i].origin) /\ G[L[i].origin] = F[L[i].origin]
              /\ IsDir(F, L[i].origin) => IsDir(G, L[i].origin),
           \A i \in 2..Len(L) : ~Removes(L, i) /\ L[i].target \in DOMAIN G =>
              L[i].target \in DOMAIN F /\ (Removes(L, 1) => L[1].origin # L[i].target)
    PROVE  RestOK(G, SubSeq(L, 2, Len(L)))
<1> DEFINE R == SubSeq(L, 2, Len(L))
<1>1. /\ R \in Seq(Op) /\ Len(L) \in Nat \ {0} /\ DOMAIN R = 1..(Len(L) - 1)
      /\ \A i \in 1..(Len(L) - 1) : R[i] = L[i + 1] /\ i + 1 \in DOMAIN L
  BY RestIs
<1> HIDE DEF R
<1>2. ASSUME NEW i \in DOMAIN R, Removes(R, i)
      PROVE  GoodLink(G, R[i].origin) \/ (opt.unstow /\ OnlyRmdirs(G, R, i))
  <2>1. R[i] = L[i + 1] /\ i + 1 \in DOMAIN L /\ i + 1 \in 2..Len(L) /\ Removes(L, i + 1)
    BY <1>1, <1>2 DEF Removes
  <2>2. GoodLink(F, L[i + 1].origin) \/ (opt.unstow /\ OnlyRmdirs(F, L, i + 1))
    BY <2>1 DEF RestOK
  <2>3. CASE GoodLink(F, L[i + 1].origin)
    BY <2>1, <2>3 DEF GoodLink
  <2>4. CASE opt.unstow /\ OnlyRmdirs(F, L, i + 1)
    <3>1. ASSUME NEW j \in i..Len(R) PROVE Removes(R, j) /\ IsDir(G, R[j].origin)
      <4>1. j \in 1..(Len(L) - 1) /\ j + 1 \in 2..Len(L) /\ j + 1 \in (i + 1)..Len(L)
        BY <1>1
      <4>2. R[j] = L[j + 1]
        BY <1>1, <4>1
      <4>3. Removes(L, j + 1) /\ IsDir(F, L[j + 1].origin)
        BY <2>4, <4>1 DEF OnlyRmdirs
      <4> QED BY <4>1, <4>2, <4>3 DEF Removes
    <3> QED BY <2>4, <3>1 DEF OnlyRmdirs
  <2> QED BY <2>2, <2>3, <2>4
<1>3. ASSUME NEW i \in DOMAIN R, ~Removes(R, i)
      PROVE  /\ OpenDirOf(G, Parent(R[i].target))
             /\ R[i].target \in DOMAIN G =>
                   \E j \in 1..(i - 1) : Removes(R, j) /\ R[j].origin = R[i].target
             /\ R[i].act = "MKDIR" => R[i].origin = <<>>
  <2>1. R[i] = L[i + 1] /\ i + 1 \in DOMAIN L /\ i + 1 \in 2..Len(L) /\ ~Removes(L, i + 1)
    BY <1>1, <1>3 DEF Removes
  <2>2. ASSUME R[i].target \in DOMAIN G
        PROVE  \E j \in 1..(i - 1) : Removes(R, j) /\ R[j].origin = R[i].target
    <3>1. R[i].target \in DOMAIN F /\ (Removes(L, 1) => L[1].origin # R[i].target)
      BY <2>1, <2>2
    <3>2. PICK j \in 1..((i + 1) - 1) : Removes(L, j) /\ L[j].origin = R[i].target
      BY <2>1, <3>1 DEF RestOK, MakesFresh
    <3>3. j # 1 /\ j \in Nat
      BY <1>1, <3>1, <3>2
    <3>4. j - 1 \in 1..(i - 1) /\ j - 1 \in 1..(Len(L) - 1) /\ (j - 1) + 1 = j
      BY <1>1, <3>2, <3>3
    <3>5. R[j - 1] = L[j]
      BY <1>1, <3>4
    <3> QED BY <3>2, <3>4, <3>5 DEF Removes
  <2> QED BY <2>1, <2>2 DEF RestOK, MakesFresh
<1>4. ASSUME NEW i \in DOMAIN R, NEW j \in DOMAIN R, ~Removes(R, i), ~Removes(R, j),
             R[i].target = R[j].target
      PROVE  i = j
  <2>1. /\ R[i] = L[i + 1] /\ i + 1 \in DOMAIN L /\ R[j] = L[j + 1] /\ j + 1 \in DOMAIN L
        /\ ~Removes(L, i + 1) /\ ~Removes(L, j + 1)
    BY <1>1, <1>4 DEF Removes
  <2>2. i + 1 = j + 1
    BY <1>4, <2>1 DEF RestOK, MakesFresh
  <2> QED BY <1>1, <2>2
<1>5. RestOK(G, R)
  BY <1>2, <1>3, <1>4 DEF RestOK, MakesFresh
<1> QED BY <1>5 DEF R

\* unstow appends a directory.
LEMMA ParentFresh ==
    ASSUME NEW G, NEW R \in Seq(Op), RestOK(G, R), opt.unstow, NEW P \in Path, IsDir(G, P)
    PROVE  RestOK(G, Append(R, RemoveOp(P)))
<1> DEFINE l == RemoveOp(P)  M == Append(R, l)
<1>1. l \in Op /\ l.act = "REMOVE" /\ l.origin = P
  BY NamedOpTyped, EmptyPath DEF RemoveOp, MkOp
<1> HIDE DEF l
<1>2. /\ Len(R) \in Nat /\ DOMAIN R = 1..Len(R) /\ Len(M) = Len(R) + 1
      /\ DOMAIN M = 1..(Len(R) + 1) /\ M[Len(R) + 1] = l
      /\ \A i \in 1..Len(R) : M[i] = R[i]
  BY <1>1
<1> HIDE DEF M
<1>3. \A i \in DOMAIN R : i \in DOMAIN M /\ M[i] = R[i] /\ Removes(M, i) = Removes(R, i)
  BY <1>2 DEF Removes
<1>4. Removes(M, Len(R) + 1) /\ IsDir(G, M[Len(R) + 1].origin)
  BY <1>1, <1>2 DEF Removes
<1>5. ASSUME NEW i \in DOMAIN M, Removes(M, i)
      PROVE  GoodLink(G, M[i].origin) \/ (opt.unstow /\ OnlyRmdirs(G, M, i))
  <2>1. CASE i = Len(R) + 1
    <3>1. \A j \in i..Len(M) : j = Len(R) + 1
      BY <1>2, <2>1
    <3> QED BY <1>4, <3>1 DEF OnlyRmdirs
  <2>2. CASE i \in DOMAIN R
    <3>1. GoodLink(G, R[i].origin) \/ OnlyRmdirs(G, R, i)
      BY <1>3, <1>5, <2>2 DEF RestOK
    <3>2. \A j \in i..Len(M) : j = Len(R) + 1 \/ (j \in DOMAIN R /\ j \in i..Len(R))
      BY <1>2, <2>2
    <3> QED BY <1>3, <1>4, <2>2, <3>1, <3>2 DEF OnlyRmdirs
  <2> QED BY <1>2, <2>1, <2>2
<1>6. ASSUME NEW i \in DOMAIN M, ~Removes(M, i) PROVE i \in DOMAIN R /\ ~Removes(R, i) /\ M[i] = R[i]
  <2>1. i \in DOMAIN R
    BY <1>2, <1>4, <1>6
  <2> QED BY <1>3, <1>6, <2>1
<1>7. ASSUME NEW i \in DOMAIN M, ~Removes(M, i)
      PROVE  /\ OpenDirOf(G, Parent(M[i].target))
             /\ M[i].target \in DOMAIN G =>
                   \E j \in 1..(i - 1) : Removes(M, j) /\ M[j].origin = M[i].target
             /\ M[i].act = "MKDIR" => M[i].origin = <<>>
  <2>1. i \in DOMAIN R /\ ~Removes(R, i) /\ M[i] = R[i]
    BY <1>6, <1>7
  <2>2. \A j \in 1..(i - 1) : j \in DOMAIN R
    BY <1>2, <2>1
  <2> QED BY <1>3, <2>1, <2>2 DEF RestOK, MakesFresh
<1>8. ASSUME NEW i \in DOMAIN M, NEW j \in DOMAIN M, ~Removes(M, i), ~Removes(M, j),
             M[i].target = M[j].target
      PROVE  i = j
  <2>1. i \in DOMAIN R /\ ~Removes(R, i) /\ M[i] = R[i] /\ j \in DOMAIN R /\ ~Removes(R, j) /\ M[j] = R[j]
    BY <1>6, <1>8
  <2> QED BY <1>8, <2>1 DEF RestOK, MakesFresh
<1>9. RestOK(G, M)
  BY <1>5, <1>7, <1>8 DEF RestOK, MakesFresh
<1> QED BY <1>9 DEF M, l

\* What the executor works with.
Fit ==
    /\ ExecOK /\ phase = "exec" /\ ToDo /\ OpsTidy(todo) /\ RestOK(fs, todo)
    /\ StowRoots \subseteq Path /\ \A r \in StowRoots : PlainDir(fs, r)

LEMMA FitFirst ==
    ASSUME Fit, todo # <<>>
    PROVE  1 \in DOMAIN todo /\ Current = todo[1] /\ Current \in Op /\ Disk(fs) /\ todo \in Seq(Op)
           /\ Rest = SubSeq(todo, 2, Len(todo)) /\ Len(todo) \in Nat
BY EmptySeq, CurrentTyped DEF Fit, ExecOK, ExecTypeOK, CheckOK, Current, Rest

\* The node p is gone: the rest fits, and a directory that unstow adds.
LEMMA RemovedFresh ==
    ASSUME Fit, todo # <<>>, Current.act = "REMOVE", Current.origin # <<>>,
           Removed(Current.origin, Drop(fs, Current.origin))
    PROVE  phase' = phase /\ RestOK(fs', todo')
<1> DEFINE p == Current.origin  G == Drop(fs, p)  P == Parent(p)
<1>1. 1 \in DOMAIN todo /\ Current = todo[1] /\ Disk(fs) /\ todo \in Seq(Op)
      /\ Rest = SubSeq(todo, 2, Len(todo)) /\ Rest \in Seq(Op) /\ Len(todo) \in Nat
  BY FitFirst, RestIs
<1>2. /\ p \in Path /\ p \in DOMAIN fs /\ Loc(fs, p) = p
      /\ \A i \in 2..Len(todo) : Removes(todo, i) =>
            ~IsInDir(todo[i].origin, p) /\ ~IsInDir(p, todo[i].origin)
  BY RemovePlace DEF Fit, ToDo
<1>3. fs' = G /\ todo' = Rest \o ParentRemoval(G, p) /\ phase' = phase
  BY DEF Removed
<1>4. Len(p) \in Nat /\ Len(p) # 0
  BY <1>2, EmptySeq, PathLen DEF Path
<1>5. P \in Path /\ P # p /\ IsDir(fs, P)
  <2>1. Len(p) - 1 \in 0..(Len(p) - 1) /\ P = SubSeq(p, 1, Len(p) - 1)
    BY <1>4 DEF Parent
  <2>2. P \in Path /\ Len(P) = Len(p) - 1
    BY <1>2, <1>4, <2>1 DEF Path
  <2> QED BY <1>1, <1>2, <1>4, <2>1, <2>2 DEF Disk
<1>6. DOMAIN G = DOMAIN fs \ {p} /\ \A q \in DOMAIN fs \ {p} : G[q] = fs[q]
  BY <1>2 DEF Drop
<1> HIDE DEF G, P
<1>7. RestOK(G, Rest)
  <2>1. \A d : OpenDirOf(fs, d) => OpenDirOf(G, d)
    BY <1>6 DEF OpenDirOf, IsDir
  <2>2. ~\E d \in StowRoots : IsInDir(p, d)
    <3>1. Place(todo[1]) = p
      BY <1>1 DEF Place
    <3> QED BY <1>1, <3>1 DEF Fit, OpsTidy, Outside
  <2>3. \A q \in DOMAIN fs : (\E d \in StowRoots : IsInDir(q, d)) => q \in DOMAIN G
    BY <1>6, <2>2
  <2>4. ASSUME NEW i \in 2..Len(todo), Removes(todo, i)
        PROVE  /\ IsLink(fs, todo[i].origin)
                     => IsLink(G, todo[i].origin) /\ G[todo[i].origin] = fs[todo[i].origin]
               /\ IsDir(fs, todo[i].origin) => IsDir(G, todo[i].origin)
    <3>1. todo[i].origin # p
      BY <1>2, <2>4, InSelf
    <3> QED BY <1>6, <3>1 DEF IsLink, IsDir
  <2>5. \A i \in 2..Len(todo) : ~Removes(todo, i) /\ todo[i].target \in DOMAIN G =>
           todo[i].target \in DOMAIN fs /\ (Removes(todo, 1) => todo[1].origin # todo[i].target)
    BY <1>1, <1>6
  <2> QED BY <1>1, <2>1, <2>3, <2>4, <2>5, RestFresh DEF Fit
<1>8. IsDir(G, P)
  BY <1>5, <1>6 DEF IsDir
<1>9. CASE ParentRemoval(G, p) = <<>>
  <2>1. Rest \o <<>> = Rest
    BY <1>1
  <2> QED BY <1>3, <1>7, <1>9, <2>1
<1>10. CASE ParentRemoval(G, p) # <<>>
  <2>1. opt.unstow /\ ParentRemoval(G, p) = <<RemoveOp(P)>>
    BY <1>10 DEF ParentRemoval, P
  <2>2. RemoveOp(P) \in Op
    BY <1>5, NamedOpTyped, EmptyPath DEF RemoveOp, MkOp
  <2>3. Rest \o <<RemoveOp(P)>> = Append(Rest, RemoveOp(P))
    BY <1>1, <2>2
  <2>4. RestOK(G, Append(Rest, RemoveOp(P)))
    BY <1>1, <1>5, <1>7, <1>8, <2>1, ParentFresh
  <2> QED BY <1>3, <2>1, <2>3, <2>4
<1> QED BY <1>9, <1>10

\* A link to a package can be taken away; a directory goes, stays, or ends the
\* run.
LEMMA RemoveWorks ==
    ASSUME Fit, ExecRemoveDir \/ ExecUnlink
    PROVE  (phase' = "exec" /\ RestOK(fs', todo')) \/ (phase' = "failed" /\ Breaks)
<1> DEFINE p == Current.origin
<1>1. todo # <<>> /\ Current.act = "REMOVE"
  BY DEF ExecRemoveDir, ExecUnlink, Doing
<1>2. 1 \in DOMAIN todo /\ Current = todo[1] /\ Disk(fs) /\ todo \in Seq(Op)
      /\ Rest = SubSeq(todo, 2, Len(todo)) /\ Rest \in Seq(Op) /\ Len(todo) \in Nat
  BY <1>1, FitFirst, RestIs
<1>3. GoodLink(fs, p) \/ (opt.unstow /\ OnlyRmdirs(fs, todo, 1))
  BY <1>1, <1>2 DEF Fit, RestOK, Removes
<1>4. p \in Path /\ p \in DOMAIN fs /\ Loc(fs, p) = p
  BY <1>1, RemovePlace DEF Fit, ToDo
<1>5. CASE ~GoodLink(fs, p)
  <2>1. opt.unstow /\ OnlyRmdirs(fs, todo, 1) /\ IsDir(fs, p)
    <3>1. 1 \in 1..Len(todo)
      BY <1>2
    <3> QED BY <1>2, <1>3, <1>5, <3>1 DEF OnlyRmdirs
  <2>2. ExecRemoveDir
    BY <1>4, <2>1 DEF ExecUnlink
  <2>3. CASE keep_dir(fs, p)
    <3>1. Removed(p, fs)
      BY <2>2, <2>3 DEF ExecRemoveDir
    <3>2. fs' = fs /\ todo' = Rest /\ phase' = phase
      <4>1. ParentRemoval(fs, p) = <<>>
        BY <2>3 DEF ParentRemoval
      <4>2. Rest \o <<>> = Rest
        BY <1>2
      <4> QED BY <3>1, <4>1, <4>2 DEF Removed
    <3>3. RestOK(fs, SubSeq(todo, 2, Len(todo)))
      <4>1. OnlyRmdirs(fs, todo, 1)
        BY <2>1
      <4>2. \A i \in 2..Len(todo) : Removes(todo, i)
        BY <1>2, <4>1 DEF OnlyRmdirs
      <4> QED BY <1>1, <1>2, <4>2, RestFresh DEF Fit
    <3> QED BY <1>2, <3>2, <3>3 DEF Fit
  <2>4. CASE ~keep_dir(fs, p) /\ CanRmdir(fs, p)
    <3>1. Removed(p, Drop(fs, p)) /\ p # <<>>
      BY <1>4, <2>2, <2>4 DEF ExecRemoveDir, CanRmdir, Changeable
    <3> QED BY <1>1, <3>1, RemovedFresh DEF Fit
  <2>5. CASE ~keep_dir(fs, p) /\ ~CanRmdir(fs, p)
    BY <1>1, <2>1, <2>2, <2>5 DEF ExecRemoveDir, Failed, Breaks
  <2> QED BY <2>3, <2>4, <2>5
<1>6. CASE GoodLink(fs, p)
  <2>1. /\ IsLink(fs, p) /\ OpenDirOf(fs, Parent(p)) /\ fs[p].ref \in DOMAIN fs
        /\ \E d \in StowRoots : IsInDir(fs[p].ref, d)
    BY <1>6 DEF GoodLink
  <2>2. Valid(fs, p)
    <3> DEFINE r == fs[p].ref
    <3>1. r \in Path /\ ~IsLink(fs, r)
      <4>1. r \in Path
        BY <1>2, <1>4 DEF Disk, Node
      <4> QED BY <2>1, <4>1 DEF Fit, PlainDir
    <3>2. Loc(fs, r) = r /\ ~LinkAt(fs, r)
      BY <1>2, <2>1, <3>1, PlainName DEF Fit
    <3>3. Lead(fs, p) = r
      BY <1>4, <2>1 DEF Lead, Follow
    <3>4. Lead(fs, r) = r
      BY <3>1, <3>2 DEF Lead, Follow, LinkAt
    <3>5. Stat(fs, p) = r
      BY <3>2, <3>3, <3>4 DEF Stat
    <3>6. fs[r].kind \in {"dir", "file", "link"}
      BY <1>2, <2>1 DEF Disk, Node
    <3> QED BY <2>1, <3>1, <3>5, <3>6 DEF Valid, DirAt, IsDir, IsFile, IsLink
  <2>3. p # <<>> /\ ~IsDir(fs, p)
    BY <1>2, <2>1 DEF Disk, IsDir, IsLink
  <2>4. CanUnlink(fs, p)
    <3>1. IsDir(fs, Parent(p))
      <4>1. Len(p) \in Nat /\ Len(p) # 0
        BY <1>4, <2>3, EmptySeq, PathLen DEF Path
      <4>2. Len(p) - 1 \in 0..(Len(p) - 1)
        BY <4>1
      <4> QED BY <1>2, <1>4, <4>2 DEF Disk, Parent
    <3> QED BY <1>4, <2>1, <2>3, <3>1 DEF CanUnlink, Changeable, Lexists, OpenDirOf
  <2>5. Removed(p, Drop(fs, p))
    BY <1>4, <2>2, <2>3, <2>4 DEF ExecRemoveDir, ExecUnlink
  <2> QED BY <1>1, <2>3, <2>5, RemovedFresh DEF Fit
<1> QED BY <1>5, <1>6

\* A directory or a link can be made.
LEMMA MakeWorks ==
    ASSUME Fit, ExecMkdir \/ ExecSetLink
    PROVE  phase' = "exec" /\ RestOK(fs', todo')
<1> DEFINE t == Current.target
<1>1. todo # <<>> /\ Current.act # "REMOVE"
  BY DEF ExecMkdir, ExecSetLink, Doing
<1>2. 1 \in DOMAIN todo /\ Current = todo[1] /\ Current \in Op /\ Disk(fs) /\ todo \in Seq(Op)
      /\ Rest = SubSeq(todo, 2, Len(todo)) /\ Len(todo) \in Nat
  BY <1>1, FitFirst
<1>3. t \in Path /\ OpenDirOf(fs, Parent(t)) /\ t \notin DOMAIN fs /\ ~Removes(todo, 1)
  <2>1. ~Removes(todo, 1)
    BY <1>1, <1>2 DEF Removes
  <2>2. ~\E j \in 1..(1 - 1) : TRUE
    OBVIOUS
  <2> QED BY <1>2, <2>1, <2>2 DEF Fit, RestOK, MakesFresh, Op
<1>4. Loc(fs, t) = t /\ \A k \in 0..(Len(t) - 1) : IsDir(fs, SubSeq(t, 1, k))
  BY <1>1, MakePlace DEF Fit, ToDo
<1>5. CanMake(fs, t)
  <2>1. t # <<>>
    BY <1>2, <1>3 DEF Disk, IsDir
  <2>2. IsDir(fs, Parent(t))
    <3>1. Len(t) \in Nat /\ Len(t) # 0
      BY <1>3, <2>1, EmptySeq, PathLen DEF Path
    <3>2. Len(t) - 1 \in 0..(Len(t) - 1)
      BY <3>1
    <3> QED BY <1>4, <3>2 DEF Parent
  <2> QED BY <1>3, <1>4, <2>1, <2>2 DEF CanMake, Changeable, Lexists, OpenDirOf
<1>6. todo' = Rest /\ phase' = phase /\ \E n \in {Dir, Link(Current.origin)} : fs' = Put(fs, t, n)
  BY <1>4, <1>5 DEF ExecMkdir, ExecSetLink, Try
<1>7. PICK n \in {Dir, Link(Current.origin)} : fs' = Put(fs, t, n)
  BY <1>6
<1>8. RestOK(Put(fs, t, n), SubSeq(todo, 2, Len(todo)))
  <2> DEFINE G == Put(fs, t, n)
  <2>1. DOMAIN G = DOMAIN fs \cup {t} /\ G[t] = n /\ \A q \in DOMAIN fs : G[q] = fs[q]
    BY <1>3 DEF Put
  <2> HIDE DEF G
  <2>2. n.write
    BY DEF Dir, Link
  <2>3. \A d : OpenDirOf(fs, d) => OpenDirOf(G, d)
    BY <2>1, <2>2 DEF OpenDirOf, IsDir
  <2>4. \A i \in 2..Len(todo) : Removes(todo, i) =>
           /\ IsLink(fs, todo[i].origin)
                 => IsLink(G, todo[i].origin) /\ G[todo[i].origin] = fs[todo[i].origin]
           /\ IsDir(fs, todo[i].origin) => IsDir(G, todo[i].origin)
    BY <2>1 DEF IsLink, IsDir
  <2>5. ASSUME NEW i \in 2..Len(todo), ~Removes(todo, i), todo[i].target \in DOMAIN G
        PROVE  todo[i].target \in DOMAIN fs
    <3>1. i \in DOMAIN todo /\ i # 1
      BY <1>2
    <3>2. todo[i].target # t
      BY <1>2, <1>3, <2>5, <3>1 DEF Fit, RestOK, MakesFresh
    <3> QED BY <2>1, <2>5, <3>2
  <2>6. \A q \in DOMAIN fs : q \in DOMAIN G
    BY <2>1
  <2>7. RestOK(G, SubSeq(todo, 2, Len(todo)))
    BY <1>1, <1>2, <1>3, <2>3, <2>4, <2>5, <2>6, RestFresh DEF Fit
  <2> QED BY <2>7 DEF G
<1> QED BY <1>2, <1>6, <1>7, <1>8 DEF Fit

\* No operation fails but the removal of a directory, and the rest fits the
\* disk.
LEMMA ExecWorks ==
    ASSUME Fit, ExecStep
    PROVE  /\ phase' = "failed" => Breaks
           /\ phase' = "exec" => RestOK(fs', todo')
<1>1. CASE ExecEnd
  BY <1>1 DEF ExecEnd
<1>2. ~ExecBegin
  BY DEF Fit, ExecBegin, Planned
<1>3. ~(file_copy \/ dir_copy \/ ExecCommand)
  <2> SUFFICES ASSUME todo # <<>>, Current.act \in {"COPY", "COPY_DIR", "EXEC"} PROVE FALSE
    BY DEF file_copy, dir_copy, ExecCommand, Doing
  <2>1. 1 \in DOMAIN todo /\ Current = todo[1]
    BY FitFirst
  <2> QED BY <2>1 DEF Fit, OpsTidy
<1> QED BY <1>1, <1>2, <1>3, RemoveWorks, MakeWorks DEF ExecStep, Fit
-----------------------------------------------------------------------------
\* All that the argument needs: a plan is not carried out in a dry run.
FreshAll == TidyAll /\ PassInv /\ FreshInv

\* A command that fails does so in a step of the executor.
LateFailure == phase = "exec" /\ UNCHANGED <<host, opt>> /\ (Undisturbed => Breaks)

LEMMA PlanIsRest ==
    ASSUME NEW F, NEW L, FreshOK(F, L)
    PROVE  RestOK(F, L)
BY DEF FreshOK, RestOK

LEMMA ExecFresh ==
    ASSUME FreshAll, Exec
    PROVE  FreshInv' /\ (phase' = "failed" => LateFailure)
<1>1. ExecOK /\ ExecStep /\ ExecPhases /\ UNCHANGED <<host, opt>> /\ StowRoots' = StowRoots
  <2>1. ExecOK /\ ExecStep
    BY DEF FreshAll, TidyAll, Exec, TypeOK, CheckOK, ExecOK
  <2>2. UNCHANGED setupVars
    BY <2>1 DEF ExecStep, ExecBegin, ExecRemoveDir, ExecUnlink, ExecMkdir, ExecSetLink, file_copy,
                dir_copy, ExecCommand, ExecEnd, Frame
  <2> QED BY <2>1, <2>2, ExecStepTyped DEF setupVars, StowRoots, Config
<1>2. RestOK(fs', todo') <=> RestOK(fs, todo)'
  BY <1>1 DEF RestOK, MakesFresh, GoodLink
<1>3. ASSUME phase' = "exec" /\ Undisturbed => RestOK(fs', todo') PROVE FreshInv'
  BY <1>1, <1>2, <1>3 DEF FreshInv, Undisturbed, ExecPhases
<1>4. CASE phase = "check"
  <2>1. ExecBegin
    BY <1>1, <1>4 DEF ExecStep, ExecRemoveDir, ExecUnlink, ExecMkdir, ExecSetLink, file_copy,
                dir_copy, ExecCommand, ExecEnd, Doing
  <2>2. phase' # "failed" /\ (phase' = "exec" => todo' = links) /\ fs' = fs
    BY <2>1 DEF ExecBegin
  <2>3. Undisturbed => FreshOK(fs, links)
    BY <1>4 DEF FreshAll, FreshInv, CallsFresh
  <2> QED BY <1>3, <2>2, <2>3, PlanIsRest
<1>5. CASE phase = "exec" /\ ~Undisturbed
  BY <1>1, <1>3, <1>5 DEF LateFailure
<1>6. CASE phase = "exec" /\ Undisturbed
  <2>1. Fit
    <3>1. StowRoots \subseteq Path /\ TidyDisk(fs, StowRoots)
      BY RootsTyped DEF FreshAll, TidyAll, TidyInv, TypeOK, SetupTypeOK
    <3>2. ToDo /\ OpsTidy(todo) /\ RestOK(fs, todo)
      BY <1>6 DEF FreshAll, TidyAll, PlanInv, ToDo, TidyInv, FreshInv
    <3> QED BY <1>1, <1>6, <3>1, <3>2 DEF Fit, TidyDisk
  <2>2. (phase' = "failed" => Breaks) /\ (phase' = "exec" => RestOK(fs', todo'))
    BY <1>1, <2>1, ExecWorks
  <2> QED BY <1>1, <1>3, <1>6, <2>2 DEF LateFailure
<1> QED BY <1>1, <1>4, <1>5, <1>6 DEF ExecPhases

LEMMA FreshNext == FreshAll /\ [Next]_vars => FreshInv' /\ (phase' = "failed" /\ phase # "failed" => LateFailure)
<1> SUFFICES ASSUME FreshAll, [Next]_vars
             PROVE  FreshInv' /\ (phase' = "failed" /\ phase # "failed" => LateFailure)
  OBVIOUS
<1>1. ASSUME phase' \notin Planning \cup {"exec"} PROVE FreshInv'
  BY <1>1 DEF FreshInv, Planning
<1>2. CASE User \/ Again \/ NextPackage \/ Return \/ Die
  <2>1. phase' \in {"begin", "idle"}
    BY <1>2 DEF User, Start, StartUnknown, Select, Again, NextPackage, Return, Die, Quit
  <2> QED BY <1>1, <2>1 DEF Planning
<1>3. CASE BeginPass
  <2>1. phase' \in {"check", "refused", "aborted"}
    BY <1>3 DEF BeginPass, Enter, Stop
  <2>2. FreshInv'
    BY <1>3, BeginPassFresh DEF FreshAll, TidyAll
  <2> QED BY <2>1, <2>2
<1>4. CASE Check
  <2>1. CheckOK /\ CheckStep /\ phase \in Planning /\ phase' \in Planning \cup Stopped
    BY <1>4, CheckStepTyped DEF Check, FreshAll, TidyAll, TypeOK, CheckOK, PlanStep
  <2>2. UNCHANGED <<host, opt>>
    BY <1>4 DEF Check, CheckStep, CheckChild, ChildOwn, ChildExec, ChildCopied, ChildConflict,
       ChildProtected, ChildDir, ChildTraversed, ChildAutoTraverse, ChildForeign, ChildFolded,
       ChildMissing, Skip, Plan, Obstacle, Stop, CheckDeps, DepsDir, DepsHarmless, DepsConflict,
       DepsLink, DepsReturn, DiveNotDir, DiveCopyDir, Dive, Surface, Enter, CheckReturn, setupVars
  <2>3. CASE Undisturbed
    <3>1. TidyReady /\ StowDir \in stow_dirs
      BY <2>1, TidyIsStraight DEF TidyReady, FreshAll, TidyAll, PlanInv, Planning
    <3>2. FreshReady
      BY <2>3, <3>1 DEF FreshReady, FreshAll
    <3> QED BY <2>1, <3>2, CheckStepFresh DEF Planning, Stopped
  <2>4. CASE ~Undisturbed
    BY <2>1, <2>2, <2>4 DEF FreshInv, Undisturbed, Planning, Stopped
  <2> QED BY <2>3, <2>4
<1>5. CASE Exec
  BY <1>5, ExecFresh
<1>6. CASE UserEdit
  <2>1. phase' = "exec" /\ Hosts[host].edits # {} /\ host' = host
    BY <1>6 DEF UserEdit, setupVars
  <2> QED BY <2>1 DEF FreshInv, Undisturbed
<1>7. CASE UNCHANGED vars
  <2>1. /\ UNCHANGED <<fs, host, opt, phase, todo, links, stack, deps, at, trav, keep, stow_dirs>>
    BY <1>7 DEF vars, setupVars, listVars, checkVars, execVars
  <2>2. StowRoots' = StowRoots
    BY <2>1 DEF StowRoots, Config
  <2> QED BY <2>1, <2>2 DEF FreshAll, FreshInv, Undisturbed,
     CallsFresh, IntoFresh, DepsFresh, DepsFreshFor, DepsNames, DepsPast, FreshOK, RestOK, MakesFresh,
     GoodLink, OpenDirOf, IsDir, Ahead, MakesIn, Removes, Past, Lexists
<1> QED BY <1>2, <1>3, <1>4, <1>5, <1>6, <1>7 DEF Next, Process

LEMMA FailedStays ==
    ASSUME phase = "failed", phase' = "failed", [Next]_vars
    PROVE  UNCHANGED <<host, opt>>
<1>1. CASE UNCHANGED vars
  BY <1>1 DEF vars, setupVars
<1>2. CASE Next
  <2>1. ~User /\ ~UserEdit /\ ~BeginPass /\ ~Again /\ ~NextPackage /\ ~Return /\ ~Die
    BY DEF User, Start, StartUnknown, UserEdit, BeginPass, Again, NextPackage, Return, Die, Quit
  <2>2. ~Check
    BY DEF Check, CheckStep, CheckChild, CheckDeps, ChildOwn, ChildExec, ChildCopied, ChildConflict,
       ChildProtected, ChildDir, ChildTraversed, ChildAutoTraverse, ChildForeign, ChildFolded,
       ChildMissing, FoundFile, FoundDir, Found, OpenDir, LinkedDir, Missing, DepsDir, DepsHarmless,
       DepsConflict, DepsLink, Shared, DepsReturn, DiveNotDir, DiveCopyDir, Dive, CheckReturn
  <2>3. ~Exec
    BY DEF Exec, ExecStep, ExecBegin, Planned, ExecRemoveDir, ExecUnlink, ExecMkdir, ExecSetLink,
       file_copy, dir_copy, ExecCommand, ExecEnd, Doing
  <2> QED BY <1>2, <2>1, <2>2, <2>3 DEF Next, Process
<1> QED BY <1>1, <1>2

LEMMA FreshStays == Spec /\ TidyHost(host) => []FreshAll
<1>1. TidyHost(host) /\ Init => FreshAll
  BY TypeInit, PlanInit, TidyInit, PassInit DEF FreshAll, TidyAll, FreshInv, Init
<1>2. FreshAll /\ [Next]_vars => FreshAll'
  BY TypeNext, TidyIsStraight, PlanNext, TidyNext, PassNext, FreshNext DEF FreshAll, TidyAll
<1> QED BY <1>1, <1>2, PTL DEF Spec

\* On a tidy host a plan that check accepted for installing is carried out to
\* its end, when the user leaves the target alone meanwhile: whatever packages
\* are folded over each other, every mkdir and every symlink of exec_list finds
\* its place empty and its directory writable, so -c has told all there was to
\* tell (xstow.pod, exit codes 3 and 4).
THEOREM PlansWork == Spec /\ TidyHost(host) => []PlanWorks
<1>1. TidyHost(host) /\ Init => PlanWorks
  BY DEF PlanWorks, Init
<1>2. FreshAll /\ PlanWorks /\ [Next]_vars => PlanWorks'
  <2> SUFFICES ASSUME FreshAll, PlanWorks, [Next]_vars, phase' = "failed" PROVE PlanWorks'
    BY DEF PlanWorks
  <2>1. CASE phase = "failed"
    <3>1. UNCHANGED <<host, opt>>
      BY <2>1, FailedStays
    <3> QED BY <2>1, <3>1 DEF PlanWorks
  <2>2. CASE phase # "failed"
    <3>1. phase = "exec" /\ UNCHANGED <<host, opt>> /\ (Undisturbed => Breaks)
      BY <2>2, FreshNext DEF LateFailure
    <3>2. ~opt.simulate
      BY <3>1 DEF FreshAll, PassInv, Dry
    <3> QED BY <3>1, <3>2 DEF PlanWorks, Undisturbed, Breaks
  <2> QED BY <2>1, <2>2
<1> QED BY <1>1, <1>2, FreshStays, PTL DEF Spec

\* On a tidy host a command that nobody disturbs can break off at one place
\* only: an unstow that has made all its links and directories and taken all
\* the links away that it planned to fails to remove a directory (exec_list,
\* "remove empty directories").
THEOREM FailsLate ==
    Spec /\ TidyHost(host)
        => [][phase' = "failed" /\ phase # "failed"
                 => Breaks \/ opt.force \/ Hosts[host].edits # {}]_vars
<1>1. FreshAll /\ [Next]_vars =>
         [phase' = "failed" /\ phase # "failed" => Breaks \/ opt.force \/ Hosts[host].edits # {}]_vars
  <2> SUFFICES ASSUME FreshAll, [Next]_vars, phase' = "failed", phase # "failed"
               PROVE  Breaks \/ opt.force \/ Hosts[host].edits # {}
    OBVIOUS
  <2>1. phase = "exec" /\ (Undisturbed => Breaks)
    BY FreshNext DEF LateFailure
  <2> QED BY <2>1 DEF Undisturbed, FreshAll, PassInv, Dry
<1> QED BY <1>1, FreshStays, PTL DEF Spec
=============================================================================
