---------------------------- MODULE OutcomeProofs ---------------------------
(***************************************************************************)
(* XStow implements XStowAbs: the proof that OutcomeInv is inductive on    *)
(* the hosts RefineHost describes, that a pass has the outcome Outcome     *)
(* says, and that every step of XStow is one of XStowAbs or none.  The     *)
(* last part is about -R: RestowInv is inductive on the hosts RestowHost   *)
(* describes.                                                              *)
(***************************************************************************)
EXTENDS Outcome, Restow, OthersProofs

\* No pattern of such a host leaves anything of a package out.
LEMMA NoPatterns ==
    ASSUME TypeOK, RefineHost(host)
    PROVE  /\ \A n : ~match_ignore(n) /\ ~match_copy(n) /\ ~match_exec(n)
           /\ \A f : ~Ignored(f) /\ ~ToCopy(f)
           /\ \A dir, f : ~Unlinked(dir, f)
<1>1. /\ Config.ignore = {} /\ Config.ignoreInDir = {} /\ Config.copy = {} /\ Config.copyInDir = {}
      /\ Config.exec = <<>> /\ Config.nignores = <<>>
  BY DEF RefineHost, WholeHost, TidyHost, Config
<1>2. \A n : ~match_ignore(n) /\ ~match_copy(n) /\ ~match_exec(n)
  BY <1>1 DEF match_ignore, match_copy, match_exec, RulesFor
<1>3. \A dir : Passes(dir)
  BY <1>1 DEF Passes
<1>4. \A dir, f : ~Skipped(dir, f)
  BY <1>3 DEF Skipped
<1>5. \A f : ~Ignored(f) /\ ~ToCopy(f)
  BY <1>1, <1>2, <1>3, <1>4 DEF Ignored, ToCopy
<1>6. \A dir, f : ~Unlinked(dir, f)
  BY <1>2, <1>4 DEF Unlinked
<1> QED BY <1>2, <1>5, <1>6

\* The host is what it was.
LEMMA RefineStays ==
    ASSUME UNCHANGED host, RefineHost(host)
    PROVE  RefineHost(host)'
BY Zenon
-----------------------------------------------------------------------------
(***************************************************************************)
(* Nothing new is planned.                                                 *)
(***************************************************************************)
LEMMA PushExpected ==
    ASSUME NEW L \in Seq(Op), LinksExpected(L), NEW l \in Op,
           l.act = "SET_LINK" => Expected(l.target, l.origin)
    PROVE  Push(L, l) \in Seq(Op) /\ LinksExpected(Push(L, l))
<1> DEFINE M == Push(L, l)
<1>1. /\ M \in Seq(Op)
      /\ \A i \in DOMAIN L : M[i] = L[i]
      /\ \A i \in DOMAIN M \ DOMAIN L : M[i] = l
  BY PushCases
<1> HIDE DEF M
<1>2. LinksExpected(M)
  BY <1>1 DEF LinksExpected
<1> QED BY <1>1, <1>2 DEF M

\* What checkDirs links again was seen through the link that is unfolded.
LEMMA DepsExpected ==
    ASSUME ProperReady, fs = before, phase = "deps", NEW n \in Name
    PROVE  Expected(W(n), B(n))
<1>1. Ready /\ IsLink(fs, at.entry)
  BY ProperFacts, DepsNamed
<1>2. /\ at.entry \in Path
      /\ \E y \in Path : W(n) = at.entry \o y /\ y = After(W(n), at.entry) /\ B(n) = fs[at.entry].ref \o y
  BY <1>1, DepsFacts
<1>3. PICK e \in Path : e = at.entry
  BY <1>2
<1>4. PICK w : w = W(n)
  OBVIOUS
<1>5. PICK y \in Path : w = e \o y /\ y = After(w, e) /\ B(n) = fs[e].ref \o y
  BY <1>2, <1>3, <1>4
<1>6. IsInDir(w, e)
  BY <1>5, JoinIn
<1>7. e \in DOMAIN before /\ IsLink(before, e) /\ B(n) = before[e].ref \o After(w, e)
  BY <1>1, <1>3, <1>5 DEF IsLink
<1>8. SeenBefore(w, B(n))
  BY <1>6, <1>7 DEF SeenBefore
<1> QED BY <1>4, <1>8 DEF Expected

NewReady == ProperReady /\ phase \in Planning /\ fs = before /\ LinksExpected(links)

LEMMA CalmExpected ==
    ASSUME NewReady,
           UNCHANGED links \/ \E l \in Op : links' = Push(links, l) /\ l.act # "SET_LINK"
    PROVE  LinksExpected(links')
<1>1. links \in Seq(Op)
  BY ProperFacts DEF NewReady, Planning
<1>2. CASE UNCHANGED links
  BY <1>2 DEF NewReady
<1>3. ASSUME NEW l \in Op, links' = Push(links, l), l.act # "SET_LINK" PROVE LinksExpected(links')
  BY <1>1, <1>3, PushExpected DEF NewReady
<1> QED BY <1>2, <1>3

LEMMA CheckChildExpected ==
    ASSUME NewReady, NEW n \in Name, CheckChild(n)
    PROVE  LinksExpected(links')
<1>1. phase = "check" /\ n \in Top.kids /\ phase # "idle"
  BY DEF CheckChild, ChildOwn, ChildExec, ChildCopied, ChildConflict, ChildProtected, ChildDir,
     ChildTraversed, ChildAutoTraverse, ChildForeign, ChildFolded, ChildMissing, LinkedDir, OpenDir,
     FoundDir, FoundFile, Found, Missing
<1>2. TidyReady /\ links \in Seq(Op)
  BY <1>1, ProperFacts DEF NewReady
<1>3. /\ ~ChildExec(n) /\ ~ChildCopied(n)
      /\ Install(n) = LinkOp(Base(n), There(n))
  BY <1>2, NoCopies DEF ChildExec, ChildCopied, Install
<1>4. /\ There(n) \in Path /\ Base(n) \in Path /\ IsInDir(Base(n), package)
  BY <1>1, <1>2, ChildPlace
<1>5. /\ RemoveOp(There(n)) \in Op /\ RemoveOp(There(n)).act # "SET_LINK"
      /\ MkdirOp(There(n)) \in Op /\ MkdirOp(There(n)).act # "SET_LINK"
      /\ LinkOp(Base(n), There(n)) \in Op /\ LinkOp(Base(n), There(n)).origin = Base(n)
  BY <1>4, NamedOpTyped DEF RemoveOp, MkdirOp, LinkOp, MkOp
<1>6. CASE UNCHANGED links \/ Plan(n, RemoveOp(There(n)))
  BY <1>5, <1>6, CalmExpected DEF Plan
<1>7. CASE Plan(n, LinkOp(Base(n), There(n)))
  <2>1. PICK l \in Op : l = LinkOp(Base(n), There(n))
    BY <1>5
  <2>2. l.act = "SET_LINK" => Expected(l.target, l.origin)
    BY <1>4, <1>5, <2>1 DEF Expected
  <2>3. links' = Push(links, l)
    BY <1>7, <2>1 DEF Plan
  <2> QED BY <1>2, <2>2, <2>3, PushExpected DEF NewReady
<1>8. CASE ChildFolded(n)
  <2>1. CASE UNCHANGED links
    BY <2>1, CalmExpected
  <2>2. CASE links' = Push(Push(links, RemoveOp(There(n))), MkdirOp(There(n)))
    <3>1. PICK L : L = Push(links, RemoveOp(There(n)))
      OBVIOUS
    <3>2. L \in Seq(Op) /\ LinksExpected(L)
      BY <1>2, <1>5, <3>1, PushExpected DEF NewReady
    <3>3. LinksExpected(Push(L, MkdirOp(There(n))))
      BY <1>5, <3>2, PushExpected
    <3> QED BY <2>2, <3>1, <3>3
  <2> QED BY <1>8, <2>1, <2>2 DEF ChildFolded, CheckDirs
<1>9. CASE Skip(n) \/ Obstacle(n) \/ ChildDir(n) \/ ChildTraversed(n) \/ ChildAutoTraverse(n)
  BY <1>6, <1>9 DEF Skip, Obstacle, Stop, ChildDir, ChildTraversed, ChildAutoTraverse, DiveTo, checkVars
<1> QED BY <1>3, <1>6, <1>7, <1>8, <1>9
        DEF CheckChild, ChildOwn, ChildConflict, ChildProtected, ChildForeign, ChildMissing, Stop, checkVars

LEMMA CheckStepExpected ==
    ASSUME NewReady, CheckStep
    PROVE  LinksExpected(links')
<1>1. TidyReady /\ links \in Seq(Op)
  BY ProperFacts DEF NewReady, Planning
<1>2. ASSUME NEW n \in Name, CheckDeps(n) PROVE LinksExpected(links')
  <2>1. phase = "deps"
    BY <1>2 DEF CheckDeps, DepsDir, DepsHarmless, DepsConflict, DepsLink, Shared
  <2>2. B(n) \in Path /\ W(n) \in Path /\ Expected(W(n), B(n))
    BY <2>1, DepsNamed, DepsExpected DEF NewReady
  <2>3. /\ MkdirOp(W(n)) \in Op /\ MkdirOp(W(n)).act # "SET_LINK"
        /\ LinkOp(B(n), W(n)) \in Op
        /\ LinkOp(B(n), W(n)).origin = B(n) /\ LinkOp(B(n), W(n)).target = W(n)
    BY <2>2, NamedOpTyped DEF MkdirOp, LinkOp, MkOp
  <2>4. CASE UNCHANGED links \/ links' = Push(links, MkdirOp(W(n)))
    BY <2>3, <2>4, CalmExpected
  <2>5. CASE DepsLink(n)
    <3>1. PICK l \in Op : l = LinkOp(B(n), W(n))
      BY <2>3
    <3>2. links' = Push(links, l)
      BY <2>5, <3>1 DEF DepsLink
    <3>3. Expected(l.target, l.origin)
      BY <2>2, <2>3, <3>1
    <3> QED BY <1>1, <3>2, <3>3, PushExpected DEF NewReady
  <2>6. CASE DepsDir(n) \/ DepsHarmless(n) \/ DepsConflict(n)
    BY <2>4, <2>6 DEF DepsDir, DepsHarmless, DepsConflict, CheckDirs, Stop, checkVars
  <2> QED BY <1>2, <2>5, <2>6 DEF CheckDeps
<1>3. CASE DepsReturn
  <2>1. phase = "deps"
    BY <1>3 DEF DepsReturn
  <2>2. Deps.w \in Path
    BY <1>1, <2>1, WTidy
  <2>3. MkdirOp(Deps.w) \in Op /\ MkdirOp(Deps.w).act # "SET_LINK"
    BY <2>2, NamedOpTyped DEF MkdirOp, MkOp
  <2> QED BY <1>3, <2>3, CalmExpected DEF DepsReturn
<1>4. CASE DiveNotDir \/ Dive \/ CheckReturn
  <2>1. UNCHANGED links
    BY <1>4 DEF DiveNotDir, Dive, CheckReturn, Surface, Enter, Stop, checkVars
  <2> QED BY <2>1, CalmExpected
<1>5. ~DiveCopyDir
  BY <1>1, NoCopies DEF DiveCopyDir
<1> QED BY <1>2, <1>3, <1>4, <1>5, CheckChildExpected DEF CheckStep
-----------------------------------------------------------------------------
(***************************************************************************)
(* The steps of the program, as far as the proofs below tell them apart.   *)
(***************************************************************************)
Unmoved == UNCHANGED <<fs, phase, before, opt, package, links, todo>>

\* A process begins a pass or ends.
Turns ==
    /\ fs' = fs /\ phase' \in {"idle", "begin"} /\ before' \in {before, fs}
    /\ \/ phase \in {"idle", "done"}
       \/ phase \in {"refused", "aborted", "failed"} /\ phase' = "idle"
       \/ MayDie /\ phase = "exec"

Opens ==
    /\ phase = "begin" /\ phase' \in {"check"} \cup Stopped
    /\ fs' = fs /\ before' = fs /\ opt' = opt /\ package' = package /\ links' = <<>>

Checks ==
    /\ CheckStep /\ phase \in Planning /\ phase' \in Planning \cup Stopped
    /\ fs' = fs /\ before' = before /\ opt' = opt /\ package' = package

Executes ==
    /\ ExecStep /\ phase \in {"check", "exec"} /\ phase' \in {"exec", "done", "failed"}
    /\ before' = before /\ opt' = opt /\ package' = package
    /\ phase = "check" => /\ fs' = fs
                          /\ \/ phase' = "exec" /\ todo' = links
                             \/ phase' = "done" /\ Dry

LEMMA StepKinds ==
    ASSUME TidyAll, RefineHost(host), [Next]_vars
    PROVE  Unmoved \/ Turns \/ Opens \/ Checks \/ Executes
<1>1. CASE \E c \in Hosts[host].commands : Start(c)
  BY <1>1 DEF Start, Select, Turns
<1>2. CASE (\E c \in Hosts[host].commands : StartUnknown(c)) \/ UNCHANGED vars
  BY <1>2 DEF StartUnknown, Unmoved, vars, setupVars, checkVars, execVars, mainVars
<1>3. CASE BeginPass
  <2>1. links = <<>>
    BY <1>3 DEF BeginPass, TidyAll, PlanInv
  <2> QED BY <1>3, <2>1 DEF Opens, BeginPass, Enter, Stop, checkVars, setupVars, Stopped
<1>4. CASE Check
  <2>1. CheckStep /\ PlanStep /\ before' = before
    BY <1>4, CheckStepTyped DEF Check, TidyAll, TypeOK, CheckOK, mainVars
  <2> QED BY <2>1, CheckFrame DEF Checks, PlanStep
<1>5. CASE Exec
  <2>1. ExecStep /\ ExecPhases /\ before' = before
    BY <1>5, ExecStepTyped DEF Exec, TidyAll, TypeOK, CheckOK, ExecOK, mainVars
  <2>2. opt' = opt /\ package' = package
    BY <2>1 DEF ExecStep, ExecBegin, ExecRemoveDir, ExecUnlink, ExecMkdir, ExecSetLink,
                file_copy, dir_copy, ExecCommand, ExecEnd, Frame, setupVars
  <2>3. phase = "check" => ExecBegin
    BY <2>1 DEF ExecStep, ExecRemoveDir, ExecUnlink, ExecMkdir, ExecSetLink,
                file_copy, dir_copy, ExecCommand, ExecEnd, Doing
  <2> QED BY <2>1, <2>2, <2>3 DEF Executes, ExecPhases, ExecBegin, Dry
<1>6. CASE Again \/ NextPackage
  BY <1>6 DEF Again, NextPackage, Select, Turns
<1>7. CASE Return \/ Die
  BY <1>7 DEF Return, Die, Quit, Turns
<1>8. ~UserEdit
  BY DEF RefineHost, UserEdit
<1> QED BY <1>1, <1>2, <1>3, <1>4, <1>5, <1>6, <1>7, <1>8 DEF Next, Process, User
-----------------------------------------------------------------------------
\* What check meets is what was there before.
LEMMA BeforeExpected ==
    ASSUME Disk(fs), fs = before
    PROVE  DiskExpected(fs)
<1> SUFFICES ASSUME NEW l \in DOMAIN fs, IsLink(fs, l) PROVE Expected(l, fs[l].ref)
  BY DEF DiskExpected
<1>1. l \in Path /\ fs[l].ref \in Path
  BY DEF Disk, Node
<1>2. IsInDir(l, l) /\ After(l, l) = <<>>
  BY <1>1, InSelf
<1>3. fs[l].ref = fs[l].ref \o After(l, l)
  BY <1>1, <1>2, PathLen
<1> QED BY <1>2, <1>3 DEF Expected, SeenBefore

LEMMA NewNext ==
    ASSUME TidyAll, PassInv, ProperInv, RefineHost(host), NothingNew, [Next]_vars
    PROVE  NothingNew'
<1>1. ASSUME UNCHANGED <<before, package>>
      PROVE  \A l, ref : Expected(l, ref)' <=> Expected(l, ref)
  BY <1>1 DEF Expected, SeenBefore, IsLink
<1>2. Disk(fs)
  BY DEF TidyAll, TypeOK
<1>3. CASE Unmoved
  <2>1. UNCHANGED <<fs, phase, links, todo, before, package>>
    BY <1>3 DEF Unmoved
  <2>2. \A l, ref : Expected(l, ref)' <=> Expected(l, ref)
    BY <1>1, <2>1
  <2> QED BY <2>1, <2>2 DEF NothingNew, LinksExpected, DiskExpected, IsLink
<1>4. CASE Turns
  BY <1>4 DEF Turns, NothingNew
<1>5. CASE Opens
  BY <1>5 DEF Opens, Stopped, NothingNew, LinksExpected
<1>6. CASE Checks
  <2>1. fs = before
    BY <1>6 DEF Checks, PassInv, Untouched
  <2>2. TidyReady /\ StowDir \in stow_dirs
    BY <1>6, TidyIsStraight DEF Checks, TidyReady, TidyAll, TypeOK, CheckOK, PlanInv, Planning
  <2>3. NewReady
    BY <1>6, <2>1, <2>2 DEF Checks, NewReady, ProperReady, NothingNew, Planning
  <2>4. LinksExpected(links')
    BY <1>6, <2>3, CheckStepExpected DEF Checks
  <2>5. \A l, ref : Expected(l, ref)' <=> Expected(l, ref)
    BY <1>1, <1>6 DEF Checks
  <2>6. LinksExpected(links)'
    BY <2>4, <2>5 DEF LinksExpected
  <2> QED BY <1>6, <2>6 DEF Checks, Stopped, Planning, NothingNew
<1>7. CASE Executes
  <2>1. \A l, ref : Expected(l, ref)' <=> Expected(l, ref)
    BY <1>1, <1>7 DEF Executes
  <2>2. CASE phase = "check"
    <3>1. fs = before /\ fs' = fs /\ (phase' = "exec" => todo' = links)
      BY <1>7, <2>2 DEF Executes, PassInv, Untouched, Planning
    <3>2. DiskExpected(fs)
      BY <1>2, <3>1, BeforeExpected
    <3>3. DiskExpected(fs)'
      BY <2>1, <3>1, <3>2 DEF DiskExpected, IsLink
    <3>4. LinksExpected(links)
      BY <2>2 DEF NothingNew
    <3>5. phase' = "exec" => LinksExpected(todo)'
      BY <2>1, <3>1, <3>4 DEF LinksExpected
    <3> QED BY <1>7, <3>3, <3>5 DEF Executes, NothingNew
  <2>3. CASE phase = "exec"
    <3>1. ExecOK /\ ExecStep /\ ToDo /\ OpsTidy(todo)
      BY <1>7, <2>3 DEF Executes, ExecOK, CheckOK, TidyAll, TypeOK, PlanInv, ToDo, TidyInv
    <3>2. LinksExpected(todo) /\ DiskExpected(fs)
      BY <2>3 DEF NothingNew
    <3>3. CASE phase' # "exec"
      <4>1. fs' = fs
        BY <2>3, <3>1, <3>3, ExecDoes
      <4>2. DiskExpected(fs)'
        BY <2>1, <3>2, <4>1 DEF DiskExpected, IsLink
      <4> QED BY <1>7, <3>3, <4>2 DEF Executes, NothingNew
    <3>4. CASE phase' = "exec"
      <4>1. PICK G : G = fs'
        OBVIOUS
      <4>2. PICK M : M = todo'
        OBVIOUS
      <4>3. /\ Current = todo[1] /\ 1 \in DOMAIN todo
            /\ \A q \in DOMAIN G : IsLink(G, q) =>
                  \/ q \in DOMAIN fs /\ G[q] = fs[q]
                  \/ Current.act = "SET_LINK" /\ q = Current.target /\ G[q].ref = Current.origin
            /\ \A j \in DOMAIN M :
                  \/ Removes(M, j)
                  \/ \E i \in DOMAIN todo : M[j] = todo[i]
        BY <2>3, <3>1, <3>4, <4>1, <4>2, TurnKeeps
      <4>4. LinksExpected(M)
        BY <3>2, <4>3 DEF LinksExpected, Removes
      <4>5. DiskExpected(G)
        <5> SUFFICES ASSUME NEW q \in DOMAIN G, IsLink(G, q) PROVE Expected(q, G[q].ref)
          BY DEF DiskExpected
        <5>1. CASE q \in DOMAIN fs /\ G[q] = fs[q]
          BY <3>2, <5>1 DEF DiskExpected, IsLink
        <5>2. CASE Current.act = "SET_LINK" /\ q = Current.target /\ G[q].ref = Current.origin
          BY <3>2, <4>3, <5>2 DEF LinksExpected
        <5> QED BY <4>3, <5>1, <5>2
      <4>6. LinksExpected(todo)'
        BY <2>1, <4>2, <4>4 DEF LinksExpected
      <4>7. DiskExpected(fs)'
        BY <2>1, <4>1, <4>5 DEF DiskExpected, IsLink
      <4> QED BY <3>4, <4>6, <4>7 DEF NothingNew
    <3> QED BY <3>3, <3>4
  <2> QED BY <1>7, <2>2, <2>3 DEF Executes
<1> QED BY <1>3, <1>4, <1>5, <1>6, <1>7, StepKinds
-----------------------------------------------------------------------------
\* What BrokenOff says does not depend on more than this.
LEMMA BrokenSame ==
    ASSUME UNCHANGED <<fs, before, host, package, opt>>, Config.nignores = <<>>,
           opt.unstow, Placed = {},
           \A dir \in OtherPackages : \A f \in InSight(dir) :
              dir \o f \in DOMAIN fs /\ Stands(fs, <<>>, dir, f)
    PROVE  BrokenOff'
<1>1. Placed' = {}
  <2>1. UNCHANGED <<fs, host, package>>
    OBVIOUS
  <2> QED BY <2>1, PlacedSame
<1>2. OtherPackages' = OtherPackages /\ \A dir : InSight(dir)' = InSight(dir)
  <2>1. UNCHANGED <<before, host, package>>
    OBVIOUS
  <2> QED BY <2>1, SightSame
<1>3. \A dir, f : Stands(fs, <<>>, dir, f)' <=> Stands(fs, <<>>, dir, f)
  BY DEF Stands, ShownBy, IsLink
<1> QED BY <1>1, <1>2, <1>3 DEF BrokenOff

LEMMA BrokenNext ==
    ASSUME FreshAll, CleanInv, OthersInv, RefineHost(host), ~opt.force, BrokenOff, [Next]_vars
    PROVE  BrokenOff'
<1> SUFFICES ASSUME phase' = "failed" PROVE BrokenOff'
  BY DEF BrokenOff
<1>1. TidyAll /\ PassInv /\ FreshInv /\ host' = host
  BY HostKept DEF FreshAll
<1>2. Config.nignores = <<>>
  BY DEF RefineHost, WholeHost, TidyHost, Config
<1>3. CASE phase = "failed"
  <2>1. Unmoved
    BY <1>1, <1>3, StepKinds DEF Turns, Opens, Checks, Executes, Planning, Stopped
  <2>2. UNCHANGED <<fs, before, host, package, opt>>
    BY <1>1, <2>1 DEF Unmoved
  <2> QED BY <1>2, <1>3, <2>2, BrokenSame DEF BrokenOff
<1>4. CASE phase # "failed"
  <2>1. LateFailure
    BY <1>4, FreshNext
  <2>2. phase = "exec"
    BY <2>1 DEF LateFailure
  <2>3. ~opt.simulate /\ Hosts[host].edits = {}
    BY <1>1, <2>2 DEF PassInv, Dry, RefineHost
  <2>4. opt.unstow /\ OnlyRmdirs(fs, todo, 1)
    BY <2>1, <2>3 DEF LateFailure, Undisturbed, Breaks
  <2>5. todo \in Seq(Op)
    BY <1>1 DEF TidyAll, TypeOK, ExecTypeOK
  <2>6. \A j \in DOMAIN todo : Removes(todo, j) /\ IsDir(fs, todo[j].origin)
    <3>1. DOMAIN todo = 1..Len(todo)
      BY <2>5
    <3> QED BY <2>4, <3>1 DEF OnlyRmdirs
  <2>7. Executes
    BY <1>1, <1>4, <2>2, StepKinds DEF Turns, Opens, Checks, Unmoved, Planning, Stopped
  <2>8. fs' = fs
    <3>1. ExecOK /\ ExecStep /\ ToDo /\ OpsTidy(todo)
      BY <1>1, <2>2, <2>7 DEF Executes, ExecOK, CheckOK, TidyAll, TypeOK, PlanInv, ToDo, TidyInv
    <3> QED BY <2>2, <3>1, ExecDoes
  <2>9. UNCHANGED <<fs, before, host, package, opt>>
    BY <1>1, <2>7, <2>8 DEF Executes
  <2>10. Placed = {}
    <3>1. ASSUME NEW q \in Placed PROVE FALSE
      <4>1. PICK j \in DOMAIN todo : todo[j].origin = Dest(q)
        BY <2>2, <2>4 DEF CleanInv, UnstowInv, ToUnlink
      <4> QED BY <2>6, <4>1 DEF Placed, Own, IsLink, IsDir
    <3> QED BY <3>1
  <2>11. ASSUME NEW dir \in OtherPackages, NEW f \in InSight(dir)
         PROVE  dir \o f \in DOMAIN fs /\ Stands(fs, <<>>, dir, f)
    <3>1. dir \o f \in DOMAIN fs /\ (Stands(fs, todo, dir, f) \/ Relinked(todo, dir, f))
      BY <2>2 DEF OthersInv, SightInv
    <3>2. ~Relinked(todo, dir, f)
      BY <2>6 DEF Relinked, Removes
    <3>3. Stands(fs, <<>>, dir, f)
      BY <3>1, <3>2 DEF Stands
    <3> QED BY <3>1, <3>3
  <2> QED BY <1>2, <2>4, <2>9, <2>10, <2>11, BrokenSame
<1> QED BY <1>3, <1>4
-----------------------------------------------------------------------------
\* A package has the files it had.
LEMMA FilesElse ==
    ASSUME NEW F, NEW G, DOMAIN F \subseteq Path, DOMAIN G \subseteq Path,
           StowDir \in Path, NEW dir \in Path, IsInDir(dir, StowDir),
           NEW l, ~IsInDir(l, StowDir),
           \A q : q # l => (q \in DOMAIN F <=> q \in DOMAIN G) /\ (q \in DOMAIN F => G[q] = F[q])
    PROVE  FilesOf(G, dir) = FilesOf(F, dir)
<1>1. ASSUME NEW r \in Path, IsStrictPrefix(dir, r) PROVE r # l
  <2>1. IsInDir(r, dir)
    BY <1>1 DEF IsInDir, IsStrictPrefix
  <2> QED BY <2>1, InTrans
<1>2. {r \in DOMAIN G : IsStrictPrefix(dir, r) /\ G[r].kind # "dir"}
         = {r \in DOMAIN F : IsStrictPrefix(dir, r) /\ F[r].kind # "dir"}
  BY <1>1
<1> QED BY <1>2 DEF FilesOf

LEMMA FilesNext ==
    ASSUME TidyAll, RefineHost(host), SameFiles(fs), [Next]_vars
    PROVE  SameFiles(fs')
<1>1. CASE fs' = fs
  BY <1>1 DEF SameFiles
<1>2. CASE Executes /\ phase = "exec"
  <2>1. ExecOK /\ ExecStep /\ ToDo /\ OpsTidy(todo)
    BY <1>2 DEF Executes, ExecOK, CheckOK, TidyAll, TypeOK, PlanInv, ToDo, TidyInv
  <2>2. CASE phase' # "exec"
    BY <1>1, <1>2, <2>1, <2>2, ExecDoes
  <2>3. CASE phase' = "exec"
    <3>1. PICK G : G = fs'
      OBVIOUS
    <3>2. PICK F : F = fs
      OBVIOUS
    <3>3. PICK l : l = Place(Current)
      OBVIOUS
    <3>4. Elsewhere(l, G)
      <4>1. PICK M : M = todo'
        OBVIOUS
      <4> QED BY <1>2, <2>1, <2>3, <3>1, <3>3, <4>1, TurnKeeps
    <3>5. /\ StowDir \in Path /\ StowDir \in StowRoots
          /\ \A p \in Pkg : PkgDir(p) \in Path /\ IsInDir(PkgDir(p), StowDir)
      BY RootsTyped DEF TidyAll, TypeOK, SetupTypeOK
    <3>6. DOMAIN F \subseteq Path /\ DOMAIN G \subseteq Path
      BY <3>1, <3>2, TypeNext DEF TidyAll, TypeOK, Disk
    <3>7. /\ ~IsInDir(l, StowDir)
          /\ \A q : q # l => (q \in DOMAIN F <=> q \in DOMAIN G) /\ (q \in DOMAIN F => G[q] = F[q])
      BY <3>2, <3>4, <3>5 DEF Elsewhere, Outside
    <3>8. ASSUME NEW p \in Pkg PROVE FilesOf(G, PkgDir(p)) = FilesOf(F, PkgDir(p))
      <4>1. PICK dir \in Path : dir = PkgDir(p) /\ IsInDir(dir, StowDir)
        BY <3>5
      <4>2. FilesOf(G, dir) = FilesOf(F, dir)
        BY <3>5, <3>6, <3>7, <4>1, FilesElse
      <4> QED BY <4>1, <4>2
    <3> QED BY <3>1, <3>2, <3>8 DEF SameFiles
  <2> QED BY <2>2, <2>3
<1>3. Unmoved \/ Turns \/ Opens \/ Checks \/ Executes
  BY StepKinds
<1> QED BY <1>1, <1>2, <1>3 DEF Unmoved, Turns, Opens, Checks, Executes
-----------------------------------------------------------------------------
(***************************************************************************)
(* The inductive invariant.                                                *)
(***************************************************************************)
OutAll ==
    /\ FreshAll /\ CleanInv /\ OthersInv
    /\ Config.ignoreInDir = {} /\ WholeInv /\ Unblocked
    /\ OutcomeInv

LEMMA OutInit == Init /\ RefineHost(host) => OutAll
<1> SUFFICES ASSUME Init, RefineHost(host) PROVE OutAll
  OBVIOUS
<1>1. /\ phase = "idle" /\ fs \in Hosts[host].disks /\ before = fs /\ host \in DOMAIN Hosts
      /\ ~opt.force
  BY DEF Init, NoOptions
<1>2. WholeHost(host) /\ OpenHost(host) /\ CleanHost(host) /\ OthersHost(host)
  BY DEF RefineHost
<1>3. TidyAll /\ PassInv
  BY <1>2, TypeInit, PlanInit, TidyInit, PassInit DEF OthersHost, TidyAll
<1>4. FreshAll
  BY <1>1, <1>3 DEF FreshAll, FreshInv
<1>5. StowRoots = RootsOf(host)
  BY <1>1, RootsTyped
<1>6. LinksProper(fs, StowRoots) /\ LinksFit(fs, StowRoots)
  BY <1>1, <1>2, <1>5 DEF OthersHost, CleanHost
<1>7. CleanInv
  <2>1. opt.force = FALSE
    BY DEF Init, NoOptions
  <2> QED BY <1>1, <1>2, <1>6, <2>1 DEF CleanInv, FitInv, UnstowInv
<1>8. OthersInv
  BY <1>1, <1>2, <1>6 DEF OthersInv, ProperInv, SightInv
<1>9. Config.ignoreInDir = {} /\ WholeInv /\ Unblocked
  BY <1>1, <1>2 DEF WholeHost, OpenHost, Config, WholeInv, Unblocked
<1>10. OutcomeInv
  <2>1. SameFiles(fs)
    BY <1>1 DEF RefineHost, SameFiles
  <2>2. \A r \in StowRoots : PlainDir(fs, r)
    BY <1>3 DEF TidyAll, TidyInv, TidyDisk
  <2>3. NothingNew /\ BrokenOff
    BY <1>1 DEF NothingNew, BrokenOff
  <2> QED BY <1>1, <1>6, <2>1, <2>2, <2>3 DEF OutcomeInv
<1> QED BY <1>4, <1>7, <1>8, <1>9, <1>10 DEF OutAll

LEMMA OutNext == OutAll /\ [Next]_vars => OutAll'
<1> SUFFICES ASSUME OutAll, [Next]_vars PROVE OutAll'
  OBVIOUS
<1>1. FreshAll /\ TidyAll /\ PassInv /\ FreshInv
  BY DEF OutAll, FreshAll
<1>2. RefineHost(host) /\ ~opt.force /\ OpenHost(host)
  BY DEF OutAll, OutcomeInv, RefineHost
<1>3. host' = host
  BY HostKept
<1>4. FreshAll'
  <2>1. TidyAll'
    BY <1>1, TypeNext, TidyIsStraight, PlanNext, TidyNext DEF TidyAll
  <2>2. PassInv'
    BY <1>1, PassNext DEF TidyAll
  <2> QED BY <1>1, <2>1, <2>2, FreshNext DEF FreshAll
<1>5. CleanInv'
  <2>1. CleanAll
    BY <1>1 DEF OutAll, CleanAll
  <2> QED BY <1>1, <2>1, FitNext, UnstowNext DEF CleanAll, CleanInv
<1>6. OthersInv'
  BY <1>1, ProperNext, SightNext DEF OutAll, OthersInv
<1>7. (Config.ignoreInDir = {} /\ WholeInv)'
  <2>1. WholeAll /\ Unblocked
    BY <1>1 DEF OutAll, WholeAll
  <2> QED BY <2>1, WholeNext
<1>8. Unblocked'
  BY <1>1, <1>2, UnblockedNext DEF OutAll
<1>9. OutcomeInv'
  <2>1. (RefineHost(host) /\ ~opt.force)'
    <3>1. \A c \in Hosts[host].commands : ~c.opt.force
      BY <1>2 DEF RefineHost
    <3> QED BY <1>1, <1>2, <1>3, <3>1, RefineStays, ForceNext DEF TidyAll
  <2>2. SameFiles(fs')
    BY <1>1, <1>2, FilesNext DEF OutAll, OutcomeInv
  <2>3. before' \in {before, fs}
    BY <1>1, <1>2, StepKinds DEF Unmoved, Turns, Opens, Checks, Executes
  <2>4. SameFiles(before')
    BY <2>3 DEF OutAll, OutcomeInv
  <2>5. StowRoots' = StowRoots
    BY <1>3 DEF StowRoots, Config
  <2>6. LinksProper(before', StowRoots) /\ \A r \in StowRoots : PlainDir(before', r)
    <3>1. LinksProper(fs, StowRoots) /\ \A r \in StowRoots : PlainDir(fs, r)
      BY <1>1 DEF OutAll, OthersInv, ProperInv, TidyAll, TidyInv, TidyDisk
    <3> QED BY <2>3, <3>1 DEF OutAll, OutcomeInv
  <2>7. NothingNew'
    BY <1>1, <1>2, NewNext DEF OutAll, OutcomeInv, OthersInv
  <2>8. BrokenOff'
    BY <1>1, <1>2, BrokenNext DEF OutAll, OutcomeInv
  <2>9. (SameFiles(fs) /\ SameFiles(before))'
    BY <2>2, <2>4 DEF SameFiles
  <2>10. (LinksProper(before, StowRoots) /\ \A r \in StowRoots : PlainDir(before, r))'
    BY <2>5, <2>6 DEF LinksProper, Proper, PlainDir, IsLink, IsDir
  <2> QED BY <2>1, <2>7, <2>8, <2>9, <2>10 DEF OutcomeInv
<1> QED BY <1>4, <1>5, <1>6, <1>7, <1>8, <1>9 DEF OutAll
-----------------------------------------------------------------------------
(***************************************************************************)
(* The outcome.                                                            *)
(***************************************************************************)
Ended == OutAll /\ phase \in {"done", "failed"} /\ (phase = "done" => ~Dry)

LEMMA EndFacts ==
    ASSUME Ended, NEW R, R = StowRoots
    PROVE  /\ Disk(fs) /\ Disk(before) /\ Target \in Path /\ StowDir \in Path /\ StowDir \in R /\ Apart(R)
           /\ LinksProper(fs, R) /\ LinksProper(before, R)
           /\ \A r \in R : r \in Path /\ PlainDir(fs, r) /\ PlainDir(before, r) /\ ~IsInDir(Target, r)
           /\ package \in Path /\ \E p \in Pkg : package = PkgDir(p)
           /\ \A q \in Pkg : /\ PkgDir(q) \in Path /\ q \in Name
                             /\ FilesOf(fs, PkgDir(q)) = PackageFiles[q]
                             /\ FilesOf(before, PkgDir(q)) = PackageFiles[q]
           /\ \A n : ~match_exec(n)
           /\ \A f : ~Ignored(f) /\ ~ToCopy(f)
           /\ \A dir, f : ~Unlinked(dir, f)
           /\ DiskExpected(fs)
<1>1. TidyAll /\ ProperInv /\ OutcomeInv /\ phase # "idle"
  BY DEF Ended, OutAll, FreshAll, OthersInv
<1>2. ProperReady
  BY <1>1, TidyIsStraight DEF ProperReady, TidyReady, TidyAll, PlanInv, TypeOK, CheckOK
<1>3. /\ Disk(fs) /\ Target \in Path /\ StowDir \in Path /\ StowDir \in R /\ Apart(R)
      /\ LinksProper(fs, R) /\ \A r \in R : PlainDir(fs, r) /\ ~IsInDir(Target, r)
      /\ package \in Path /\ \E p \in Pkg : package = PkgDir(p)
  BY <1>1, <1>2, ProperFacts
<1>4. Disk(before)
  BY <1>1 DEF TidyAll, TypeOK, MainTypeOK
<1>5. LinksProper(before, R) /\ \A r \in R : r \in Path /\ PlainDir(before, r)
  BY <1>1, <1>3 DEF OutcomeInv, Apart
<1>6. \A q \in Pkg : /\ PkgDir(q) \in Path /\ q \in Name
                     /\ FilesOf(fs, PkgDir(q)) = PackageFiles[q]
                     /\ FilesOf(before, PkgDir(q)) = PackageFiles[q]
  BY <1>1, PkgDirPath, SetupAssumption DEF OutcomeInv, SameFiles
<1>7. (\A n : ~match_exec(n)) /\ (\A f : ~Ignored(f) /\ ~ToCopy(f)) /\ \A dir, f : ~Unlinked(dir, f)
  BY <1>1, NoPatterns DEF TidyAll, OutcomeInv
<1>8. DiskExpected(fs)
  BY <1>1 DEF OutcomeInv, NothingNew, Ended
<1> QED BY <1>3, <1>4, <1>5, <1>6, <1>7, <1>8

\* A file of a package, by its name there.
LEMMA FileThere ==
    ASSUME NEW F, Disk(F), NEW dir \in Path, NEW f \in FilesOf(F, dir)
    PROVE  f \in Path /\ dir \o f \in Path /\ dir \o f \in DOMAIN F
<1>1. PICK r \in DOMAIN F : IsStrictPrefix(dir, r) /\ f = After(r, dir)
  BY DEF FilesOf
<1>2. r \in Path /\ IsInDir(r, dir)
  BY <1>1 DEF Disk, IsInDir, IsStrictPrefix
<1>3. r = dir \o After(r, dir) /\ After(r, dir) \in Path
  BY <1>2, InDir
<1> QED BY <1>1, <1>2, <1>3

Joined(p, a, b) == p = a \o b

LEMMA JoinedIn ==
    ASSUME NEW a \in Path, NEW y \in Path, NEW t, Joined(t, a, y)
    PROVE  IsInDir(t, a) /\ After(t, a) = y
BY JoinIn DEF Joined

LEMMA JoinedAfter ==
    ASSUME NEW a \in Path, NEW t \in Path, IsInDir(t, a)
    PROVE  After(t, a) \in Path /\ Joined(t, a, After(t, a))
BY InDir DEF Joined

LEMMA JoinedCancel ==
    ASSUME NEW a \in Path, NEW x \in Path, NEW y \in Path, NEW t, Joined(t, a, x), Joined(t, a, y)
    PROVE  x = y
<1>1. a \o x = a \o y
  BY DEF Joined
<1> QED BY <1>1, JoinCancel

LEMMA JoinedIs ==
    ASSUME NEW a \in Path, NEW y \in Path
    PROVE  \E t \in Path : Joined(t, a, y)
BY JoinPath DEF Joined

\* Joining paths is associative.
LEMMA JoinedLeft ==
    ASSUME NEW a \in Path, NEW y \in Path, NEW z \in Path, NEW l, NEW v, NEW t,
           Joined(l, a, y), Joined(v, y, z), Joined(t, l, z)
    PROVE  Joined(t, a, v)
<1>1. (a \o y) \o z = a \o (y \o z)
  BY JoinAssoc
<1> QED BY <1>1 DEF Joined

LEMMA JoinedRight ==
    ASSUME NEW a \in Path, NEW y \in Path, NEW z \in Path, NEW l, NEW v, NEW t,
           Joined(l, a, y), Joined(v, y, z), Joined(t, a, v)
    PROVE  Joined(t, l, z)
<1>1. (a \o y) \o z = a \o (y \o z)
  BY JoinAssoc
<1> QED BY <1>1 DEF Joined

\* A link through which one comes to another link shows what that one shows:
\* t, the place of f, is below the link l, the place of x, and the other link
\* m leads to b.
LEMMA JumpOver ==
    ASSUME NEW s \in Path, NEW x \in Path, NEW f \in Path,
           NEW l \in Path, Joined(l, s, x), NEW t \in Path, Joined(t, s, f), IsInDir(t, l),
           NEW d \in Path, NEW o \in Path, Joined(o, d, x), NEW e \in Path, Joined(e, d, f),
           NEW m \in Path, IsInDir(l, m), NEW b \in Path, Joined(o, b, After(l, m))
    PROVE  IsInDir(t, m) /\ Joined(e, b, After(t, m))
<1>1. PICK y \in Path : Joined(l, m, y) /\ Joined(o, b, y)
  BY JoinedAfter
<1>2. PICK z \in Path : Joined(t, l, z)
  BY JoinedAfter
<1>3. Joined(f, x, z)
  <2>1. PICK v \in Path : Joined(v, x, z)
    BY JoinedIs
  <2>2. Joined(t, s, v)
    BY <1>2, <2>1, JoinedLeft
  <2>3. v = f
    BY <2>2, JoinedCancel
  <2> QED BY <2>1, <2>3
<1>4. PICK w \in Path : Joined(w, y, z)
  BY JoinedIs
<1>5. Joined(t, m, w)
  BY <1>1, <1>2, <1>4, JoinedLeft
<1>6. Joined(e, b, w)
  <2>1. Joined(e, o, z)
    BY <1>3, JoinedRight
  <2> QED BY <1>1, <1>4, <2>1, JoinedLeft
<1>7. IsInDir(t, m) /\ After(t, m) = w
  BY <1>5, JoinedIn
<1> QED BY <1>6, <1>7

\* A link that shows a file of another package stood there before.
LEMMA ShownBefore ==
    ASSUME Ended, NEW R, R = StowRoots, NEW q \in Pkg, NEW dir, dir = PkgDir(q), dir # package,
           NEW f \in Shown(fs, dir)
    PROVE  f \in Shown(before, dir)
<1>1. /\ Disk(fs) /\ Disk(before) /\ Target \in Path /\ StowDir \in Path /\ StowDir \in R /\ Apart(R)
      /\ LinksProper(fs, R) /\ LinksProper(before, R)
      /\ \A r \in R : r \in Path /\ PlainDir(fs, r) /\ PlainDir(before, r) /\ ~IsInDir(Target, r)
      /\ package \in Path /\ \E p \in Pkg : package = PkgDir(p)
      /\ dir \in Path /\ q \in Name /\ FilesOf(fs, dir) = FilesOf(before, dir) /\ DiskExpected(fs)
  BY EndFacts
<1>2. f \in FilesOf(fs, dir) /\ Shows(fs, dir, f)
  BY DEF Shown
<1>3. f \in Path /\ dir \o f \in DOMAIN fs /\ dir \o f \in DOMAIN before
  BY <1>1, <1>2, FileThere
<1>4. dir = Append(StowDir, q)
  BY DEF PkgDir
<1>5. PICK l \in DOMAIN fs : ShownBy(fs, l, dir, f)
  BY <1>1, <1>2, <1>3, <1>4, ShownByLink
<1>6. PICK x \in Path : fs[l].ref = dir \o x /\ l = Target \o x
  <2>1. l \in Path /\ IsInDir(l, Target)
    BY <1>1, <1>3, <1>4, <1>5, ShownPlace
  <2>2. After(l, Target) \in Path /\ l = Target \o After(l, Target)
    BY <1>1, <2>1, InDir
  <2> QED BY <1>5, <2>2 DEF ShownBy
<1>7. IsLink(fs, l) /\ IsInDir(Target \o f, l) /\ l \in Path
  BY <1>1, <1>5 DEF ShownBy, Disk
<1>8. ~IsInDir(dir \o x, package)
  <2>1. PICK p \in Pkg : package = PkgDir(p)
    BY <1>1
  <2>2. dir \o x \in Path /\ IsInDir(dir \o x, dir)
    BY <1>1, <1>6, JoinPath, JoinIn
  <2>3. SUFFICES ASSUME IsInDir(dir \o x, package) PROVE FALSE
    OBVIOUS
  <2>4. PkgDir(q) = PkgDir(p)
    BY <1>1, <2>1, <2>2, <2>3, OnePackage
  <2> QED BY <2>1, <2>4
<1>9. PICK m \in DOMAIN before : IsLink(before, m) /\ IsInDir(l, m) /\ dir \o x = before[m].ref \o After(l, m)
  <2>1. Expected(l, dir \o x)
    BY <1>1, <1>6, <1>7 DEF DiskExpected
  <2> QED BY <1>8, <2>1 DEF Expected, SeenBefore
<1>10. m \in Path /\ before[m].ref \in Path
  BY <1>1, <1>9 DEF Disk, Node
<1>11. IsInDir(Target \o f, m) /\ before[m].ref \o After(Target \o f, m) = dir \o f
  <2>1. PICK t \in Path : t = Target
    BY <1>1
  <2>2. PICK b \in Path : b = before[m].ref
    BY <1>10
  <2>3. PICK u \in Path : u = t \o f
    BY <1>3, JoinPath
  <2>4. PICK o \in Path : o = dir \o x
    BY <1>1, JoinPath
  <2>5. PICK e \in Path : e = dir \o f
    BY <1>1, <1>3, JoinPath
  <2>6. /\ Joined(l, t, x) /\ Joined(u, t, f) /\ Joined(o, dir, x) /\ Joined(e, dir, f)
        /\ IsInDir(u, l) /\ IsInDir(l, m) /\ Joined(o, b, After(l, m))
    BY <1>6, <1>7, <1>9, <2>1, <2>2, <2>3, <2>4, <2>5 DEF Joined
  <2>7. IsInDir(u, m) /\ Joined(e, b, After(u, m))
    BY <1>1, <1>3, <1>7, <1>10, <2>6, JumpOver
  <2> QED BY <2>1, <2>2, <2>3, <2>5, <2>7 DEF Joined
<1>12. ShownBy(before, m, dir, f)
  <2>1. PICK F : F = before
    OBVIOUS
  <2>2. PICK q1 \in Path : q1 = Target \o f
    BY <1>1, <1>3, JoinPath
  <2>3. /\ Disk(F) /\ LinksProper(F, R) /\ IsLink(F, m) /\ IsInDir(q1, m)
        /\ F[m].ref \o After(q1, m) = dir \o f
    BY <1>1, <1>9, <1>11, <2>1, <2>2
  <2>4. ShownBy(F, m, dir, f)
    BY <1>1, <1>3, <1>4, <2>3, JumpShows
  <2> QED BY <2>1, <2>4
<1>13. Shows(before, dir, f)
  BY <1>1, <1>3, <1>4, <1>9, <1>12, ShownByShows
<1> QED BY <1>1, <1>2, <1>13 DEF Shown

\* And a link that showed it is still there, or another one that shows it.
LEMMA ShownStill ==
    ASSUME Ended, NEW R, R = StowRoots, NEW q \in Pkg, NEW dir, dir = PkgDir(q), dir # package,
           NEW f \in Shown(before, dir)
    PROVE  f \in Shown(fs, dir)
<1>1. /\ Disk(fs) /\ Target \in Path /\ StowDir \in R /\ Apart(R) /\ LinksProper(fs, R)
      /\ \A r \in R : PlainDir(fs, r)
      /\ dir \in Path /\ q \in Name /\ FilesOf(fs, dir) = FilesOf(before, dir) /\ Disk(before)
      /\ \A d, g : ~Unlinked(d, g)
  BY EndFacts
<1>2. dir = Append(StowDir, q)
  BY DEF PkgDir
<1>3. dir \in OtherPackages
  BY <1>1, <1>2 DEF OtherPackages
<1>4. f \in InSight(dir)
  BY <1>1 DEF InSight
<1>5. f \in FilesOf(before, dir)
  BY DEF Shown
<1>6. f \in Path
  BY <1>1, <1>5, FileThere
<1>7. dir \o f \in DOMAIN fs /\ Stands(fs, <<>>, dir, f)
  <2>1. CASE phase = "failed"
    BY <1>3, <1>4, <2>1 DEF Ended, OutAll, OutcomeInv, BrokenOff
  <2>2. CASE phase = "done"
    BY <1>3, <1>4, <2>2 DEF Ended, OutAll, OutcomeInv, OthersInv, SightInv
  <2> QED BY <2>1, <2>2 DEF Ended
<1>8. PICK l \in DOMAIN fs : ShownBy(fs, l, dir, f)
  BY <1>7 DEF Stands
<1>9. Shows(fs, dir, f)
  BY <1>1, <1>2, <1>6, <1>7, <1>8, ShownByShows
<1> QED BY <1>1, <1>5, <1>9 DEF Shown

\* An unstow leaves no file of the package in sight.
LEMMA NothingShown ==
    ASSUME Ended, opt.unstow
    PROVE  Shown(fs, package) = {}
<1>1. PICK R : R = StowRoots
  OBVIOUS
<1>2. /\ Disk(fs) /\ Target \in Path /\ StowDir \in R /\ Apart(R) /\ LinksProper(fs, R)
      /\ \A r \in R : ~IsInDir(Target, r)
      /\ package \in Path /\ \E p \in Pkg : package = PkgDir(p)
      /\ \A f : ~Ignored(f)
  BY <1>1, EndFacts
<1>3. PICK p \in Pkg : package = PkgDir(p)
  BY <1>2
<1>4. p \in Name /\ package = Append(StowDir, p)
  BY <1>1, <1>3, EndFacts DEF PkgDir
<1>5. Placed = {} /\ LinksFit(fs, StowRoots)
  BY DEF Ended, OutAll, CleanInv, FitInv, UnstowInv, OutcomeInv, BrokenOff
<1>6. SUFFICES ASSUME NEW f \in FilesOf(fs, package), Shows(fs, package, f) PROVE FALSE
  BY DEF Shown
<1>7. f \in Path
  BY <1>2, FileThere
<1>8. PICK l \in DOMAIN fs : ShownBy(fs, l, package, f)
  BY <1>2, <1>4, <1>6, <1>7, ShownByLink
<1>9. PICK x \in Path : x = After(l, Target) /\ l = Target \o x
  <2>1. PICK dir : dir = package
    OBVIOUS
  <2>2. dir = Append(StowDir, p) /\ ShownBy(fs, l, dir, f)
    BY <1>4, <1>8, <2>1
  <2>3. After(l, Target) \in Path /\ l = Target \o After(l, Target)
    BY <1>2, <1>4, <1>7, <2>2, ShownPlace
  <2> QED BY <2>3
<1>10. PICK a \in Path : a = package \o x
  BY <1>2, JoinPath
<1>11. IsLink(fs, l) /\ fs[l].ref = a
  BY <1>8, <1>9, <1>10 DEF ShownBy
<1>12. IsInDir(a, package) /\ After(a, package) = x
  BY <1>2, <1>10, JoinIn
<1>13. Own(fs, a)
  BY <1>9, <1>11, <1>12 DEF Own, Dest
<1>14. a \in DOMAIN fs
  BY <1>3, <1>5, <1>11, <1>12 DEF LinksFit, Fits
<1> QED BY <1>2, <1>5, <1>13, <1>14 DEF Placed, Exempt

\* A stow that ends with success leaves all of the package in sight.
LEMMA AllShown ==
    ASSUME Ended, ~opt.unstow
    PROVE  phase = "done" /\ Shown(fs, package) = FilesOf(fs, package)
<1>1. phase = "done" /\ ~opt.force
  BY DEF Ended, OutAll, OutcomeInv, BrokenOff
<1>2. /\ \A n : ~match_exec(n)
      /\ \A f : ~Ignored(f) /\ ~ToCopy(f)
  BY EndFacts
<1>3. Complete
  BY WholeIsComplete DEF Ended, OutAll, WholeAll, FreshAll
<1>4. Wanted = FilesOf(fs, package) /\ \A f \in Wanted : Installed(f)
  BY <1>1, <1>2, <1>3 DEF Complete, Finished, Ended, Wanted
<1> QED BY <1>1, <1>2, <1>4 DEF Installed, Shown

LEMMA EndIsOutcome == OutAll => Outcome
<1> SUFFICES ASSUME Ended PROVE Outcome
  BY DEF Outcome, Ended, Dry
<1>1. phase = "failed" => opt.unstow
  BY DEF Ended, OutAll, OutcomeInv, BrokenOff
<1>2. SUFFICES ASSUME NEW q \in Pkg
               PROVE  Shown(fs, PkgDir(q)) =
                         IF PkgDir(q) # package THEN Shown(before, PkgDir(q))
                         ELSE IF opt.unstow THEN {} ELSE PackageFiles[q]
  BY <1>1 DEF Outcome
<1>3. CASE PkgDir(q) # package
  BY <1>3, ShownBefore, ShownStill
<1>4. CASE PkgDir(q) = package
  <2>1. FilesOf(fs, PkgDir(q)) = PackageFiles[q]
    BY EndFacts
  <2> QED BY <1>4, <2>1, NothingShown, AllShown
<1> QED BY <1>3, <1>4

\* On such a host every pass that executes its plan ends in one of two ways,
\* whatever it found of packages in the target: all of the package is in sight
\* after a stow, nothing of it after an unstow, a broken off one too, and the
\* target shows of every other package exactly what it showed before (Tree::check
\* and Tree::exec_list, with what checkDirs unfolds and links again).
THEOREM PassOutcome == Spec /\ RefineHost(host) => []Outcome
BY OutInit, OutNext, EndIsOutcome, PTL DEF Spec
-----------------------------------------------------------------------------
(***************************************************************************)
(* The program implements the safety part of XStowAbs.                     *)
(***************************************************************************)
\* The disk that tells what the abstract target shows.
Seen == IF Working THEN before ELSE fs

LEMMA AbstractInit == Init /\ RefineHost(host) => Abs!AbsInit
<1> SUFFICES ASSUME Init, RefineHost(host) PROVE Abs!AbsInit
  OBVIOUS
<1>1. ~Working /\ fs \in Hosts[host].disks
  BY DEF Init, Working
<1>2. ShownNow = [p \in Pkg |-> {}]
  BY <1>1 DEF ShownNow, RefineHost
<1>3. ShownNow \in [Pkg -> {{}}]
  BY <1>2
<1>4. PassNow = [pkgs |-> {}, unstow |-> FALSE]
  BY <1>1 DEF PassNow
<1> QED BY <1>3, <1>4 DEF Abs!AbsInit, Abs!NoPass

\* A pass goes on, or nothing is at work.
LEMMA AbstractSame ==
    ASSUME Working' = Working, Seen' = Seen, Working => UNCHANGED <<opt, package>>
    PROVE  UNCHANGED <<ShownNow, PassNow>>
<1>1. ShownNow = [p \in Pkg |-> Shown(Seen, PkgDir(p))] /\ ShownNow' = [p \in Pkg |-> Shown(Seen', PkgDir(p))]
  BY DEF ShownNow, Seen
<1>2. PassNow' = PassNow
  BY DEF PassNow
<1> QED BY <1>1, <1>2

\* The name of a package is that of its directory.
LEMMA OneName ==
    ASSUME NEW p \in Pkg
    PROVE  {q \in Pkg : PkgDir(q) = PkgDir(p)} = {p}
<1>1. ASSUME NEW q \in Pkg, PkgDir(q) = PkgDir(p) PROVE q = p
  <2>1. PICK s \in Path : s = StowDir
    BY SetupAssumption
  <2>2. Append(s, q) = Append(s, p)
    BY <1>1, <2>1 DEF PkgDir
  <2>3. Append(s, q)[Len(s) + 1] = q /\ Append(s, p)[Len(s) + 1] = p
    BY <2>1 DEF Path
  <2> QED BY <2>2, <2>3
<1> QED BY <1>1

LEMMA AbstractBegin ==
    ASSUME ~Working, Working', Seen' = Seen, NEW p \in Pkg, package' = PkgDir(p), opt' \in Options
    PROVE  Abs!AbsNext
<1>1. ShownNow' = ShownNow
  <2>1. ShownNow = [q \in Pkg |-> Shown(Seen, PkgDir(q))] /\ ShownNow' = [q \in Pkg |-> Shown(Seen', PkgDir(q))]
    BY DEF ShownNow, Seen
  <2> QED BY <2>1
<1>2. PassNow = [pkgs |-> {}, unstow |-> FALSE]
  BY DEF PassNow
<1>3. PassNow' = [pkgs |-> {p}, unstow |-> opt'.unstow]
  <2>1. {q \in Pkg : PkgDir(q) = PkgDir(p)} = {p}
    BY OneName
  <2>2. {q \in Pkg : Working' /\ PkgDir(q) = package'} = {q \in Pkg : PkgDir(q) = PkgDir(p)}
    OBVIOUS
  <2>3. opt'.unstow \in BOOLEAN
    BY DEF Options
  <2> QED BY <2>1, <2>2, <2>3 DEF PassNow
<1>4. opt'.unstow \in BOOLEAN
  BY DEF Options
<1>5. Abs!Begin(p, opt'.unstow)
  BY <1>1, <1>2, <1>3 DEF Abs!Begin, Abs!NoPass
<1> QED BY <1>4, <1>5 DEF Abs!AbsNext

\* What a pass that ends may do with what is shown: nothing, or what follows
\* from whether it is an unstow.
LEMMA AbstractEnd ==
    ASSUME Working, ~Working', NEW p \in Pkg, package = PkgDir(p), NEW u \in BOOLEAN, opt.unstow = u,
           \/ \A q \in Pkg : Shown(fs', PkgDir(q)) = Shown(before, PkgDir(q))
           \/ \A q \in Pkg : Shown(fs', PkgDir(q)) =
                 IF q # p THEN Shown(before, PkgDir(q)) ELSE IF u THEN {} ELSE PackageFiles[q]
    PROVE  Abs!AbsNext
<1>1. PICK s : s = ShownNow
  OBVIOUS
<1>2. PICK t : t = ShownNow'
  OBVIOUS
<1>3. s = [q \in Pkg |-> Shown(before, PkgDir(q))] /\ t = [q \in Pkg |-> Shown(fs', PkgDir(q))]
  BY <1>1, <1>2 DEF ShownNow
<1>4. PassNow' = [pkgs |-> {}, unstow |-> FALSE]
  BY DEF PassNow
<1>5. PassNow.pkgs = {p} /\ PassNow.unstow = u
  <2>1. {q \in Pkg : PkgDir(q) = PkgDir(p)} = {p}
    BY OneName
  <2>2. {q \in Pkg : Working /\ PkgDir(q) = package} = {q \in Pkg : PkgDir(q) = PkgDir(p)}
    OBVIOUS
  <2> QED BY <2>1, <2>2 DEF PassNow
<1>6. Abs!Ending(p)
  BY <1>4, <1>5 DEF Abs!Ending, Abs!NoPass
<1>7. CASE t = s
  <2>1. Abs!Refuse(p)
    BY <1>1, <1>2, <1>6, <1>7 DEF Abs!Refuse
  <2> QED BY <2>1 DEF Abs!AbsNext
<1>8. CASE t # s
  <2>1. \A q \in Pkg : t[q] = IF q # p THEN s[q] ELSE IF u THEN {} ELSE PackageFiles[q]
    BY <1>3, <1>8
  <2>2. t = [s EXCEPT ![p] = IF u THEN {} ELSE PackageFiles[p]]
    BY <1>3, <2>1
  <2>3. CASE u
    <3>1. Abs!Uninstall(p)
      BY <1>1, <1>2, <1>5, <1>6, <2>2, <2>3 DEF Abs!Uninstall
    <3> QED BY <3>1 DEF Abs!AbsNext
  <2>4. CASE ~u
    <3>1. Abs!Install(p)
      BY <1>1, <1>2, <1>5, <1>6, <2>2, <2>4 DEF Abs!Install
    <3> QED BY <3>1 DEF Abs!AbsNext
  <2> QED BY <2>3, <2>4
<1> QED BY <1>7, <1>8

LEMMA PackageNamed ==
    ASSUME OutAll, phase # "idle"
    PROVE  \E p \in Pkg : package = PkgDir(p)
BY DEF OutAll, FreshAll, TidyAll, TidyInv

\* How a pass that executed its plan ends.
LEMMA OutcomeEnds ==
    ASSUME Working, ~Working', NEW p \in Pkg, package = PkgDir(p), NEW u \in BOOLEAN, opt.unstow = u,
           NEW F, F = fs', NEW G, G = before,
           \A q \in Pkg : Shown(F, PkgDir(q)) =
              IF PkgDir(q) # package THEN Shown(G, PkgDir(q))
              ELSE IF u THEN {} ELSE PackageFiles[q]
    PROVE  Abs!AbsNext
<1>1. ASSUME NEW q \in Pkg
      PROVE  Shown(fs', PkgDir(q)) =
                IF q # p THEN Shown(before, PkgDir(q)) ELSE IF u THEN {} ELSE PackageFiles[q]
  <2>1. q = p <=> PkgDir(q) = package
    BY OneName
  <2> QED BY <2>1
<1> QED BY <1>1, AbstractEnd

LEMMA AbstractStep ==
    ASSUME OutAll, OutAll', Outcome, Outcome', ~MayDie, [Next]_vars
    PROVE  [Abs!AbsNext]_<<ShownNow, PassNow>>
<1>1. TidyAll /\ RefineHost(host) /\ PassInv /\ opt \in Options
  BY DEF OutAll, FreshAll, OutcomeInv, TidyAll, TypeOK, SetupTypeOK
<1>2. opt' \in Options
  BY DEF OutAll, FreshAll, TidyAll, TypeOK, SetupTypeOK
<1>3. PICK u \in BOOLEAN : opt.unstow = u
  BY <1>1 DEF Options
<1>4. CASE Unmoved
  BY <1>4, AbstractSame DEF Unmoved, Working, Seen
<1>5. CASE Turns
  <2>1. CASE phase \in {"idle", "done"}
    BY <1>5, <2>1, AbstractSame DEF Turns, Working, Seen
  <2>2. CASE phase \in {"refused", "aborted", "failed"} /\ phase' = "idle"
    <3>1. Working /\ ~Working' /\ fs' = fs
      BY <1>5, <2>2 DEF Turns, Working
    <3>2. PICK p \in Pkg : package = PkgDir(p)
      BY <2>2, PackageNamed
    <3>3. CASE phase = "failed"
      <4>1. \A q \in Pkg : Shown(fs, PkgDir(q)) =
               IF PkgDir(q) # package THEN Shown(before, PkgDir(q))
               ELSE IF u THEN {} ELSE PackageFiles[q]
        BY <1>3, <3>3 DEF Outcome
      <4> QED BY <1>3, <3>1, <3>2, <4>1, OutcomeEnds
    <3>4. CASE phase # "failed"
      <4>1. fs' = before
        BY <1>1, <2>2, <3>1, <3>4 DEF PassInv, Untouched, Stopped
      <4> QED BY <1>3, <3>1, <3>2, <4>1, AbstractEnd
    <3> QED BY <3>3, <3>4
  <2>3. QED BY <1>5, <2>1, <2>2 DEF Turns
<1>6. CASE Opens
  <2>1. ~Working /\ Working' /\ Seen' = Seen
    BY <1>6 DEF Opens, Working, Seen, Stopped
  <2>2. PICK p \in Pkg : package' = PkgDir(p)
    BY <1>6, PackageNamed DEF Opens
  <2> QED BY <1>2, <2>1, <2>2, AbstractBegin
<1>7. CASE Checks
  BY <1>7, AbstractSame DEF Checks, Working, Seen, Planning, Stopped
<1>8. CASE Executes
  <2>1. CASE phase' # "done"
    BY <1>8, <2>1, AbstractSame DEF Executes, Working, Seen
  <2>2. CASE phase' = "done"
    <3>1. Working /\ ~Working'
      BY <1>8, <2>2 DEF Executes, Working
    <3>2. PICK p \in Pkg : package = PkgDir(p)
      BY <1>8, PackageNamed DEF Executes
    <3>3. CASE phase = "check"
      <4>1. fs' = before
        BY <1>1, <1>8, <3>3 DEF Executes, PassInv, Untouched, Planning
      <4> QED BY <1>3, <3>1, <3>2, <4>1, AbstractEnd
    <3>4. CASE phase = "exec"
      <4>1. ~Dry'
        BY <1>1, <1>8, <3>4 DEF Executes, PassInv, Dry
      <4>2. before' = before /\ opt' = opt /\ package' = package
        BY <1>8 DEF Executes
      <4>3. \A q \in Pkg : Shown(fs', PkgDir(q)) =
               IF PkgDir(q) # package THEN Shown(before, PkgDir(q))
               ELSE IF u THEN {} ELSE PackageFiles[q]
        BY <1>3, <2>2, <4>1, <4>2 DEF Outcome
      <4> QED BY <1>3, <3>1, <3>2, <4>3, OutcomeEnds
    <3> QED BY <1>8, <3>3, <3>4 DEF Executes
  <2> QED BY <2>1, <2>2
<1> QED BY <1>1, <1>4, <1>5, <1>6, <1>7, <1>8, StepKinds

\* On such a host, where no process is killed, the program implements the
\* safety part of XStowAbs: what the target shows changes in the one step that
\* ends a pass, although checkDirs plans and exec_list removes, makes and links
\* one path after the other, and then all of the package comes in sight or goes
\* out of sight and nothing else does.
THEOREM RefinesSafely == Spec /\ RefineHost(host) /\ ~MayDie => Abs!AbsSafety
<1>1. OutAll => Outcome
  BY EndIsOutcome
<1>2. OutAll /\ OutAll' /\ Outcome /\ Outcome' /\ ~MayDie /\ [Next]_vars
         => [Abs!AbsNext]_<<ShownNow, PassNow>>
  BY AbstractStep
<1>3. CASE ~MayDie
  BY <1>1, <1>2, <1>3, OutInit, OutNext, AbstractInit, PTL DEF Spec, Abs!AbsSafety
<1> QED BY <1>3
-----------------------------------------------------------------------------
(***************************************************************************)
(* Installing again: what both halves of -R need.                          *)
(***************************************************************************)
RestowReady == FreshReady /\ RestowInv /\ opt.restow

LEMMA RestowFacts ==
    ASSUME RestowReady
    PROVE  /\ TidyReady /\ CheckOK /\ Disk(fs) /\ Ready
           /\ stack \in Seq(Call) /\ links \in Seq(Op) /\ at \in Child /\ deps \in Seq(DepsCall)
           /\ Config.nignores = <<>>
           /\ package \in Path /\ Target \in Path /\ StowDir \in Path
           /\ IsInDir(package, StowDir) /\ PlainDir(fs, StowDir)
           /\ ~opt.force /\ ~opt.simulate /\ ptargets = {}
           /\ opt.unstow => Clearing
           /\ ~opt.unstow => Reinstalling
<1>1. TidyReady /\ CheckOK /\ Disk(fs) /\ Ready /\ ~opt.force /\ ~opt.simulate
      /\ stack \in Seq(Call) /\ links \in Seq(Op) /\ at \in Child /\ deps \in Seq(DepsCall)
  BY FreshFacts DEF RestowReady
<1>2. Config.nignores = <<>>
  BY <1>1 DEF TidyReady, TidyInv, TidyHost, Config
<1>3. package \in Path /\ Target \in Path /\ StowDir \in Path
      /\ IsInDir(package, StowDir) /\ PlainDir(fs, StowDir)
  BY <1>1, TidyFacts, SetupAssumption DEF TidyReady
<1> QED BY <1>1, <1>2, <1>3 DEF RestowReady, RestowInv

\* A step of check leaves all of it as it is.
LEMMA RestowSame ==
    ASSUME UNCHANGED <<fs, setupVars>>
    PROVE  /\ Nodes' = Nodes /\ (Rooted' <=> Rooted)
           /\ \A q : Free(q)' <=> Free(q)
           /\ \A d : match_protect_dirs(d)' <=> match_protect_dirs(d)
<1>1. fs' = fs /\ package' = package /\ Config' = Config /\ protect_dirs' = protect_dirs
  BY DEF setupVars, listVars, Config
<1>2. Nodes' = Nodes
  BY <1>1 DEF Nodes, match_ignore, match_ignore_file_in_dir
<1>3. Rooted' <=> Rooted
  BY <1>1 DEF Rooted, Usual
<1>4. \A d : match_protect_dirs(d)' <=> match_protect_dirs(d)
  BY <1>1 DEF match_protect_dirs
<1>5. \A q : Dest(q)' = Dest(q)
  BY <1>1 DEF Dest
<1>6. \A q : Free(q)' <=> Free(q)
  BY <1>1, <1>4, <1>5 DEF Free, Usual, match_ignore_file_in_dir
<1> QED BY <1>2, <1>3, <1>4, <1>6

LEMMA NodeFacts ==
    ASSUME Disk(fs), package \in Path, NEW q \in Nodes
    PROVE  q \in DOMAIN fs /\ q \in Path /\ IsInDir(q, package) /\ q # package
BY DEF Nodes, Disk, IsStrictPrefix, IsInDir

\* The children check has are the names it looks at.
LEMMA NodeKid ==
    ASSUME Disk(fs), package \in Path, StowDir \in Path, IsInDir(package, StowDir),
           PlainDir(fs, StowDir), Config.nignores = <<>>,
           NEW a \in Path, IsInDir(a, package), NEW n \in Name
    PROVE  n \in Children(a) <=> Append(a, n) \in Nodes
<1> DEFINE c == Append(a, n)
<1>1. c \in Path /\ Len(c) = Len(a) + 1 /\ c[Len(c)] = n
  <2>1. a \in Seq(Name)
    BY DEF Path
  <2>2. Append(a, n)[Len(a) + 1] = n
    BY <2>1
  <2>3. Append(a, n) \in Path /\ Len(Append(a, n)) = Len(a) + 1
    BY AddPath
  <2> QED BY <2>2, <2>3
<1>2. IsInDir(c, package) /\ c # package
  <2>1. IsInDir(c, a)
    BY <1>1, InAdd, InSelf
  <2>2. a # c
    BY <1>1, PathLen
  <2> QED BY <1>1, <2>1, <2>2, InTrans, InAnti
<1>3. IsInDir(a, StowDir) /\ IsInDir(c, StowDir)
  BY <1>1, <1>2, InTrans
<1>4. Passes(a) /\ (n \in Entries(fs, a) <=> c \in DOMAIN fs) /\ (IsDirNode(c) <=> IsDir(fs, c))
  BY <1>1, <1>3, PlainName DEF Passes, IsDirNode
<1>5. IsStrictPrefix(package, c)
  BY <1>2 DEF IsStrictPrefix, IsInDir
<1> QED BY <1>1, <1>4, <1>5 DEF Children, IgnoredFile, Nodes

\* So has it one for what is further below.
LEMMA NodeBelow ==
    ASSUME Disk(fs), package \in Path, StowDir \in Path, IsInDir(package, StowDir),
           PlainDir(fs, StowDir), Config.nignores = <<>>,
           NEW a \in Path, IsInDir(a, package), NEW q \in Nodes, IsInDir(q, a), q # a
    PROVE  \E n \in Children(a) : IsInDir(q, Append(a, n))
<1>1. q \in DOMAIN fs /\ q \in Path /\ IsInDir(q, package)
  BY NodeFacts
<1>2. PICK n \in Name : Append(a, n) \in DOMAIN fs /\ IsInDir(q, Append(a, n))
  BY <1>1, NextName
<1>3. Append(a, n) \in Nodes
  <2>1. CASE q = Append(a, n)
    BY <2>1
  <2>2. CASE q # Append(a, n)
    <3>1. Append(a, n) \in Path /\ IsInDir(Append(a, n), a) /\ Len(Append(a, n)) = Len(a) + 1
      BY AddPath, InAdd, InSelf
    <3>2. IsDir(fs, Append(a, n))
      BY <1>1, <1>2, <2>2, <3>1, DirAbove
    <3>3. Append(a, n) # package
      <4> SUFFICES ASSUME Append(a, n) = package PROVE FALSE
        OBVIOUS
      <4>1. a = package
        BY <3>1, InAnti
      <4> QED BY <3>1, <4>1, PathLen
    <3>4. IsStrictPrefix(package, Append(a, n))
      BY <3>1, <3>3, InTrans DEF IsStrictPrefix, IsInDir
    <3> QED BY <1>2, <3>2, <3>4 DEF Nodes
  <2> QED BY <2>1, <2>2
<1> QED BY <1>2, <1>3, NodeKid

\* Below what is no directory there is nothing.
LEMMA NothingBelow ==
    ASSUME Disk(fs), package \in Path, Target \in Path, NEW a \in Path, IsInDir(a, package),
           NEW q \in Path, IsInDir(q, a), q # a, ~IsDir(fs, Dest(a))
    PROVE  Dest(q) \notin DOMAIN fs /\ Dest(a) \in Path /\ Dest(q) \in Path
           /\ IsInDir(Dest(q), Dest(a)) /\ Dest(q) # Dest(a)
<1> DEFINE z == After(q, a)
<1>1. z \in Path /\ q = a \o z
  BY InDir
<1> HIDE DEF z
<1>2. Dest(q) = Dest(a) \o z /\ Dest(a) \in Path /\ IsInDir(q, package)
  BY <1>1, DestBelow
<1>3. IsInDir(Dest(q), Dest(a)) /\ Dest(q) \in Path
  BY <1>1, <1>2, JoinIn, JoinPath
<1>4. Dest(q) # Dest(a)
  BY <1>2, DestApart
<1> QED BY <1>2, <1>3, <1>4, DirAbove

\* What is said of the list stays true when an operation is pushed to it.
LEMMA PushMade ==
    ASSUME NEW L \in Seq(Op), NEW l \in Op, NEW p, Made(Push(L, l), p)
    PROVE  Made(L, p) \/ (l.act = "MKDIR" /\ l.target = p)
<1> DEFINE M == Push(L, l)
<1>1. M \in Seq(Op) /\ (\A i \in DOMAIN L : M[i] = L[i]) /\ \A i \in DOMAIN M \ DOMAIN L : M[i] = l
  BY PushCases
<1>2. PICK j \in 1..Len(M) : M[j].act = "MKDIR" /\ M[j].target = p
  BY DEF Made, MadeBy
<1> HIDE DEF M
<1>3. j \in DOMAIN M /\ DOMAIN L = 1..Len(L)
  BY <1>1, <1>2
<1> QED BY <1>1, <1>2, <1>3 DEF Made, MadeBy

LEMMA PushUnlink ==
    ASSUME NEW L \in Seq(Op), NEW l \in Op, NEW q
    PROVE  /\ ToUnlink(L, q) => ToUnlink(Push(L, l), q)
           /\ l.act = "REMOVE" /\ l.origin = Dest(q) => ToUnlink(Push(L, l), q)
<1> DEFINE M == Push(L, l)
<1>1. /\ DOMAIN L \subseteq DOMAIN M /\ \A i \in DOMAIN L : M[i] = L[i]
      /\ \E j \in DOMAIN M : SameOp(M[j], l)
  BY PushCases
<1> HIDE DEF M
<1>2. ToUnlink(L, q) => ToUnlink(M, q)
  BY <1>1 DEF ToUnlink, Removes
<1>3. l.act = "REMOVE" /\ l.origin = Dest(q) => ToUnlink(M, q)
  BY <1>1 DEF ToUnlink, Removes, SameOp
<1> QED BY <1>2, <1>3 DEF M

LEMMA PushSettled ==
    ASSUME NEW L \in Seq(Op), NEW l \in Op, NEW q, Settled(L, q),
           l.act = "MKDIR" /\ l.target = Dest(q) => ~match_protect_dirs(Dest(q))
    PROVE  Settled(Push(L, l), q)
BY PushMade, PushUnlink DEF Settled

LEMMA PushDirs ==
    ASSUME NEW L \in Seq(Op), NEW l \in Op, DirForDir(L), InView(L),
           \A q \in Nodes : l.act # "REMOVE" /\ l.target = Dest(q) => l.act = "MKDIR" /\ IsDir(fs, q),
           l.act = "MKDIR" => DirAt(fs, l.target)
    PROVE  DirForDir(Push(L, l)) /\ InView(Push(L, l))
<1> DEFINE M == Push(L, l)
<1>1. /\ \A i \in DOMAIN L : M[i] = L[i]
      /\ \A i \in DOMAIN M \ DOMAIN L : M[i] = l
  BY PushCases
<1> HIDE DEF M
<1>2. ASSUME NEW j \in DOMAIN M PROVE (j \in DOMAIN L /\ M[j] = L[j]) \/ M[j] = l
  BY <1>1
<1>3. DirForDir(M)
  BY <1>2 DEF DirForDir, Removes
<1>4. InView(M)
  BY <1>2 DEF InView
<1> QED BY <1>3, <1>4 DEF M
-----------------------------------------------------------------------------
(***************************************************************************)
(* Installing again: the planner of the unstow half.                       *)
(***************************************************************************)
ClearReady == RestowReady /\ opt.unstow

\* A step of check keeps Clearing when it takes care of what was to come.
LEMMA ClearKept ==
    ASSUME ClearReady, phase \in Planning, phase' \in Planning \cup Stopped,
           UNCHANGED <<fs, setupVars>>,
           NEW M, links' = M, NEW c, at' = c, NEW D, deps' = D,
           phase' \in Planning =>
              DirForDir(M) /\ InView(M) /\ \A q \in Nodes : Settled(M, q) \/ Coming(q)' \/ Entering(q)',
           phase' \in {"deps", "dive"} =>
              ~match_protect_dirs(c.entry) /\ (IsLink(fs, c.entry) => ToUnlink(M, c.base)),
           phase' = "deps" => \A k \in DOMAIN D : \A n \in D[k].rest : Append(D[k].a, n) \notin Nodes,
           phase' = "dive" =>
              IsDir(fs, c.base) /\ c.into = c.entry /\ (LinkAt(fs, c.entry) => DirAt(fs, c.entry))
    PROVE  Clearing'
<1>1. Rooted /\ fs' = fs /\ package' = package
  BY RestowFacts DEF ClearReady, Clearing, Planning, setupVars
<1>2. /\ Nodes' = Nodes /\ (Rooted' <=> Rooted)
      /\ \A q : Free(q)' <=> Free(q)
      /\ \A d : match_protect_dirs(d)' <=> match_protect_dirs(d)
  BY RestowSame
<1>3. /\ DirForDir(M) <=> DirForDir(links)'
      /\ InView(M) <=> InView(links)'
      /\ \A q : ToUnlink(M, q) <=> ToUnlink(links, q)'
      /\ \A q : Settled(M, q) <=> Settled(links, q)'
  <2>1. \A q : Dest(q)' = Dest(q)
    BY <1>1 DEF Dest
  <2>2. \A q : ToUnlink(M, q) <=> ToUnlink(links, q)'
    BY <2>1 DEF ToUnlink, Removes
  <2>3. InView(M) <=> InView(links)'
    BY <1>1 DEF InView
  <2>4. DirForDir(M) <=> DirForDir(links)'
    BY <1>1, <1>2, <2>1 DEF DirForDir, Removes
  <2>5. \A q : Made(M, Dest(q)) <=> Made(links, Dest(q))'
    BY <2>1 DEF Made, MadeBy
  <2>6. \A q : Settled(M, q) <=> Settled(links, q)'
    BY <1>1, <1>2, <2>1, <2>2, <2>5 DEF Settled
  <2> QED BY <2>2, <2>3, <2>4, <2>6
<1>4. CASE phase' \in Stopped
  BY <1>4 DEF Clearing, Stopped
<1>5. CASE phase' \in Planning
  <2>1. Rooted' /\ DirForDir(links)' /\ InView(links)'
    BY <1>1, <1>2, <1>3, <1>5
  <2>2. \A q \in Nodes' : (Settled(links, q) \/ Coming(q) \/ Entering(q))'
    BY <1>2, <1>3, <1>5
  <2>3. phase' \in {"deps", "dive"} =>
           ~match_protect_dirs(at.entry)' /\ (IsLink(fs, at.entry) => ToUnlink(links, at.base))'
    BY <1>1, <1>2, <1>3
  <2>4. phase' = "deps" => (\A k \in DOMAIN deps : \A n \in deps[k].rest : Append(deps[k].a, n) \notin Nodes)'
    BY <1>2
  <2>5. phase' = "dive" =>
           (IsDir(fs, at.base) /\ at.into = at.entry /\ (LinkAt(fs, at.entry) => DirAt(fs, at.entry)))'
    BY <1>1
  <2> QED BY <1>5, <2>1, <2>2, <2>3, <2>4, <2>5 DEF Clearing, Planning
<1> QED BY <1>4, <1>5

\* A child that is done was the only way to what is below it.
LEMMA ComingLeft ==
    ASSUME CheckOK, phase = "check", NEW n \in Name, Done(n), NEW q, Coming(q)
    PROVE  Coming(q)' \/ IsInDir(q, Base(n))
<1>1. stack \in Seq(Call) /\ stack # <<>>
  BY DEF CheckOK, CheckTypeOK
<1>2. Len(stack) \in DOMAIN stack
  BY <1>1, EmptySeq
<1>3. DOMAIN stack' = DOMAIN stack
      /\ \A k \in DOMAIN stack :
            /\ stack'[k].base = stack[k].base
            /\ \A m \in stack[k].kids : m \in stack'[k].kids \/ (k = Len(stack) /\ m = n)
  BY <1>1, <1>2 DEF Done, Call
<1>4. PICK k \in DOMAIN stack : \E m \in stack[k].kids : IsInDir(q, Append(stack[k].base, m))
  BY DEF Coming
<1>5. PICK m \in stack[k].kids : IsInDir(q, Append(stack[k].base, m))
  BY <1>4
<1>6. CASE k = Len(stack) /\ m = n
  BY <1>5, <1>6 DEF Base, Top
<1>7. CASE m \in stack'[k].kids
  BY <1>3, <1>5, <1>7 DEF Coming
<1> QED BY <1>3, <1>5, <1>6, <1>7

LEMMA ChildClear ==
    ASSUME ClearReady, phase = "check", phase' \in Planning, NEW n \in Name,
           Done(n), UNCHANGED <<fs, setupVars>>,
           NEW M, links' = M, NEW c, at' = c, NEW D, deps' = D, DirForDir(M) /\ InView(M),
           \A q \in Nodes : Settled(links, q) => Settled(M, q),
           \A q \in Nodes : IsInDir(q, Base(n)) => Settled(M, q) \/ Entering(q)',
           phase' \in {"deps", "dive"} =>
              ~match_protect_dirs(c.entry) /\ (IsLink(fs, c.entry) => ToUnlink(M, c.base)),
           phase' = "deps" => \A k \in DOMAIN D : \A m \in D[k].rest : Append(D[k].a, m) \notin Nodes,
           phase' = "dive" =>
              IsDir(fs, c.base) /\ c.into = c.entry /\ (LinkAt(fs, c.entry) => DirAt(fs, c.entry))
    PROVE  Clearing'
<1>1. CheckOK /\ \A q \in Nodes : Settled(links, q) \/ Coming(q)
  BY RestowFacts DEF ClearReady, Clearing, Entering
<1>2. \A q \in Nodes : Settled(M, q) \/ Coming(q)' \/ Entering(q)'
  BY <1>1, ComingLeft
<1> QED BY <1>2, ClearKept DEF Planning

\* Where the target has nothing, there is nothing of the package below it, and
\* nothing is made there.
LEMMA NothingMade ==
    ASSUME ClearReady, phase = "check", NEW n \in Name, n \in Top.kids,
           NEW q \in Nodes, IsInDir(q, Base(n)), ~Lexists(fs, There(n)) \/ There(n) \in DOMAIN fs
    PROVE  /\ ~Made(links, Dest(q))
           /\ q # Base(n) /\ ~IsDir(fs, There(n)) => Dest(q) \notin DOMAIN fs
           /\ There(n) = Dest(Base(n)) /\ There(n) \in Path
<1>1. /\ FreshReady /\ TidyReady /\ Disk(fs) /\ package \in Path /\ Target \in Path
      /\ links \in Seq(Op) /\ PlannerOK
  BY RestowFacts DEF ClearReady, RestowReady, Ready
<1>2. Base(n) \in Path /\ There(n) \in Path /\ IsInDir(Base(n), package) /\ There(n) = Dest(Base(n))
  BY <1>1, ChildPlace
<1>3. PICK a \in Path : a = Base(n)
  BY <1>2
<1>4. PICK w \in Path : w = There(n)
  BY <1>2
<1>5. q \in Path /\ IsInDir(q, a)
  BY <1>1, <1>3, NodeFacts
<1>6. Ahead(links, w)
  BY <1>1, <1>4, TopFresh
<1> DEFINE z == After(q, a)  p == Dest(q)
<1>7. z \in Path /\ q = a \o z
  BY <1>5, InDir
<1> HIDE DEF z
<1>8. p = w \o z
  BY <1>1, <1>2, <1>3, <1>4, <1>7, DestBelow
<1>9. p \in Path /\ IsInDir(p, w)
  BY <1>7, <1>8, JoinPath, JoinIn
<1> HIDE DEF p
<1>10. ASSUME NEW j \in 1..Len(links), links[j].act = "MKDIR", IsInDir(links[j].target, w)
       PROVE  w \notin DOMAIN fs /\ Lexists(fs, links[j].target)
  <2>1. j \in MakesIn(links, w)
    BY <1>1, <1>10 DEF MakesIn, Removes
  <2> QED BY <1>6, <2>1 DEF Ahead
<1>11. ~Made(links, p)
  <2> SUFFICES ASSUME Made(links, p) PROVE FALSE
    OBVIOUS
  <2>1. PICK j \in 1..Len(links) : links[j].act = "MKDIR" /\ links[j].target = p
    BY DEF Made, MadeBy
  <2>2. w \notin DOMAIN fs /\ Lexists(fs, p) /\ ~Lexists(fs, w)
    BY <1>4, <1>9, <1>10, <2>1
  <2>3. p # w
    BY <2>2
  <2>4. Way(fs, links, j - 1, p)
    <3>1. WaysReady(fs, links)
      BY <1>1 DEF PlannerOK, CallsOK, PlanOK
    <3> QED BY <1>1, <2>1, <3>1 DEF WaysReady, Removes
  <2>5. Len(w) \in 0..(Len(p) - 1) /\ SubSeq(p, 1, Len(w)) = w
    <3>1. Len(w) \in 0..Len(p) /\ SubSeq(p, 1, Len(w)) = w
      BY <1>9, InDir
    <3>2. Len(w) # Len(p)
      BY <1>9, <2>3, <3>1, PathLen
    <3> QED BY <1>9, <3>1, <3>2, PathLen
  <2>6. IsDir(fs, w) \/ MadeBy(links, j - 1, w)
    BY <2>4, <2>5 DEF Way
  <2>7. PICK i \in 1..(j - 1) : links[i].act = "MKDIR" /\ links[i].target = w
    BY <2>2, <2>6 DEF MadeBy, IsDir
  <2>8. i \in 1..Len(links) /\ IsInDir(w, w)
    BY <1>1, InSelf
  <2> QED BY <1>10, <2>2, <2>7, <2>8
<1>12. q # a /\ ~IsDir(fs, w) => p \notin DOMAIN fs
  BY <1>1, <1>2, <1>3, <1>4, <1>5, NothingBelow DEF p
<1> QED BY <1>2, <1>3, <1>4, <1>11, <1>12 DEF p

\* A child that may be passed over.
LEMMA SkipClear ==
    ASSUME ClearReady, phase = "check", NEW n \in Name, Skip(n),
           \A q \in Nodes : IsInDir(q, Base(n)) => Settled(links, q)
    PROVE  Clearing'
<1>1. Done(n) /\ phase' = "check" /\ UNCHANGED <<deps, at, links>> /\ UNCHANGED <<fs, setupVars>>
  BY DEF Skip
<1>2. DirForDir(links) /\ InView(links)
  BY RestowFacts DEF ClearReady, Clearing
<1> QED BY <1>1, <1>2, ChildClear DEF Planning

LEMMA StopClear ==
    ASSUME phase' \in Stopped PROVE Clearing'
BY DEF Clearing, Stopped

\* Nothing has the name.
LEMMA MissingClear ==
    ASSUME ClearReady, NEW n \in Name, ChildMissing(n)
    PROVE  Clearing'
<1>1. phase = "check" /\ n \in Top.kids /\ ~Lexists(fs, There(n)) /\ Skip(n)
  BY DEF ChildMissing, Missing, ClearReady
<1>2. Disk(fs)
  BY RestowFacts DEF ClearReady
<1>3. There(n) \notin DOMAIN fs
  BY <1>1, <1>2, LocOfNode DEF Lexists
<1>4. ASSUME NEW q \in Nodes, IsInDir(q, Base(n)) PROVE Settled(links, q)
  <2>1. ~Made(links, Dest(q)) /\ (q # Base(n) /\ ~IsDir(fs, There(n)) => Dest(q) \notin DOMAIN fs)
        /\ There(n) = Dest(Base(n))
    BY <1>1, <1>4, NothingMade
  <2>2. Dest(q) \notin DOMAIN fs
    BY <1>3, <2>1 DEF IsDir
  <2> QED BY <2>1, <2>2 DEF Settled, Free
<1> QED BY <1>1, <1>4, SkipClear

\* The link of the package itself: its removal is planned.
LEMMA OwnClear ==
    ASSUME ClearReady, NEW n \in Name, ChildOwn(n)
    PROVE  Clearing'
<1>1. /\ phase = "check" /\ n \in Top.kids /\ LinkAt(fs, There(n)) /\ phase' = "check" /\ Done(n)
      /\ links' = Push(links, RemoveOp(There(n))) /\ UNCHANGED <<fs, setupVars>> /\ UNCHANGED <<deps, at>>
  BY DEF ChildOwn, Found, Plan, ClearReady, OwnLink
<1>2. links \in Seq(Op) /\ DirForDir(links) /\ InView(links) /\ TidyReady
  BY <1>1, RestowFacts DEF ClearReady, Clearing
<1>3. /\ There(n) \in Path /\ There(n) = Dest(Base(n)) /\ IsLink(fs, There(n))
  BY <1>1, <1>2, ChildPlace
<1>4. PICK w \in Path : w = There(n)
  BY <1>3
<1>5. PICK l \in Op : l = RemoveOp(w) /\ l.act = "REMOVE" /\ l.origin = w
  <2>1. RemoveOp(w) \in Op
    BY NamedOpTyped
  <2> QED BY <2>1 DEF RemoveOp, MkOp
<1>6. PICK M : M = Push(links, l)
  OBVIOUS
<1>7. DirForDir(M) /\ InView(M)
  BY <1>2, <1>5, <1>6, PushDirs
<1>8. \A q \in Nodes : Settled(links, q) => Settled(M, q)
  BY <1>2, <1>5, <1>6, PushSettled
<1>9. ASSUME NEW q \in Nodes, IsInDir(q, Base(n)) PROVE Settled(M, q)
  <2>1. w \in DOMAIN fs /\ ~IsDir(fs, w)
    BY <1>3, <1>4 DEF IsLink, IsDir
  <2>2. ~Made(links, Dest(q)) /\ (q # Base(n) => Dest(q) \notin DOMAIN fs)
    BY <1>1, <1>4, <1>9, <2>1, NothingMade
  <2>3. ~Made(M, Dest(q))
    BY <1>2, <1>5, <1>6, <2>2, PushMade
  <2>4. CASE q = Base(n)
    <3>1. IsLink(fs, Dest(q)) /\ l.origin = Dest(q)
      BY <1>3, <1>4, <1>5, <2>4
    <3>2. ToUnlink(M, q)
      BY <1>2, <1>5, <1>6, <3>1, PushUnlink
    <3> QED BY <2>3, <3>1, <3>2 DEF Settled
  <2>5. CASE q # Base(n)
    BY <2>2, <2>3, <2>5 DEF Settled, Free
  <2> QED BY <2>4, <2>5
<1> QED BY <1>1, <1>4, <1>5, <1>6, <1>7, <1>8, <1>9, ChildClear DEF Planning

\* Something else than a directory, in the way of a file: check is over, or
\* will pass over it again.
LEMMA ConflictClear ==
    ASSUME ClearReady, NEW n \in Name, ChildConflict(n) \/ ChildProtected(n) \/ ChildForeign(n)
    PROVE  Clearing'
<1>1. phase = "check" /\ n \in Top.kids /\ ~opt.force
  BY RestowFacts DEF ChildConflict, ChildProtected, ChildForeign, LinkedDir, OpenDir, FoundDir,
         FoundFile, Found, ClearReady
<1>2. CASE Stop("refused")
  BY <1>2, StopClear DEF Stop, Stopped
<1>3. CASE ~Stop("refused")
  <2> DEFINE a == Base(n)
  <2>1. /\ ~IsDirNode(a) /\ Skip(n)
        /\ match_ignore(n) \/ match_ignore_file_in_dir(Top.base, a)
    BY <1>1, <1>3 DEF ChildConflict, ChildProtected, ChildForeign, Obstacle, FoundFile
  <2>2. /\ TidyReady /\ Disk(fs) /\ package \in Path /\ StowDir \in Path /\ PlainDir(fs, StowDir)
        /\ IsInDir(package, StowDir) /\ DirForDir(links)
    BY <1>1, RestowFacts DEF ClearReady, Clearing
  <2>3. a \in Path /\ IsInDir(a, package) /\ Top.base \in Path
    BY <1>1, <2>2, ChildPlace
  <2>4. ~IsDir(fs, a)
    <3>1. IsInDir(a, StowDir)
      BY <2>2, <2>3, InTrans
    <3> QED BY <2>1, <2>2, <2>3, <3>1, PlainName DEF IsDirNode
  <2>5. Parent(a) = Top.base /\ a[Len(a)] = n
    <3>1. Parent(Append(Top.base, n)) = Top.base /\ Len(Append(Top.base, n)) = Len(Top.base) + 1
      BY <2>3, AddPath
    <3>2. Append(Top.base, n)[Len(Top.base) + 1] = n
      BY <2>3 DEF Path
    <3> QED BY <3>1, <3>2 DEF Base
  <2>6. ASSUME NEW q \in Nodes, IsInDir(q, a) PROVE Settled(links, q)
    <3>1. q \in Path /\ q \in DOMAIN fs
      BY <2>2, NodeFacts
    <3>2. q = a
      BY <2>2, <2>3, <2>4, <2>6, <3>1, DirAbove
    <3>3. ~match_ignore(n)
      BY <2>4, <2>5, <2>6, <3>2 DEF Nodes
    <3>4. Free(q)
      BY <2>1, <2>4, <2>5, <3>2, <3>3 DEF Free
    <3>5. ~Made(links, Dest(q))
      <4> SUFFICES ASSUME Made(links, Dest(q)) PROVE FALSE
        OBVIOUS
      <4>1. PICK j \in 1..Len(links) : links[j].act = "MKDIR" /\ links[j].target = Dest(q)
        BY DEF Made, MadeBy
      <4>2. j \in DOMAIN links
        BY <2>2, <4>1, TidyFacts
      <4> QED BY <2>2, <2>4, <2>6, <3>2, <4>1, <4>2 DEF DirForDir, Removes
    <3> QED BY <3>4, <3>5 DEF Settled
  <2> QED BY <1>1, <2>1, <2>6, SkipClear
<1> QED BY <1>2, <1>3

\* A directory: check goes on with it.
LEMMA DirClear ==
    ASSUME ClearReady, NEW n \in Name, ChildDir(n)
    PROVE  Clearing'
<1>1. /\ phase = "check" /\ n \in Top.kids /\ Done(n) /\ UNCHANGED <<deps, links>> /\ UNCHANGED <<fs, setupVars>>
      /\ phase' = "dive" /\ at' = [entry |-> There(n), into |-> There(n), base |-> Base(n)]
      /\ ~match_protect_dirs(There(n)) /\ ~LinkAt(fs, There(n)) /\ IsDirNode(Base(n))
  BY DEF ChildDir, OpenDir, FoundDir, Found, DiveTo
<1>2. /\ TidyReady /\ Disk(fs) /\ package \in Path /\ StowDir \in Path /\ PlainDir(fs, StowDir)
      /\ IsInDir(package, StowDir) /\ DirForDir(links) /\ InView(links)
  BY <1>1, RestowFacts DEF ClearReady, Clearing
<1>3. Base(n) \in Path /\ IsInDir(Base(n), package) /\ There(n) \in Path
  BY <1>1, <1>2, ChildPlace
<1>4. IsDir(fs, Base(n))
  <2>1. IsInDir(Base(n), StowDir)
    BY <1>2, <1>3, InTrans
  <2> QED BY <1>1, <1>2, <1>3, <2>1, PlainName DEF IsDirNode
<1>5. PICK c : c = [entry |-> There(n), into |-> There(n), base |-> Base(n)]
  OBVIOUS
<1>6. c.entry = There(n) /\ c.into = There(n) /\ c.base = Base(n) /\ at' = c
  BY <1>1, <1>5
<1>7. ~IsLink(fs, There(n))
  BY <1>1, <1>2, LocOfNode DEF LinkAt, IsLink
<1>8. \A q : IsInDir(q, Base(n)) => Entering(q)'
  BY <1>1, <1>6 DEF Entering
<1> QED BY <1>1, <1>2, <1>4, <1>6, <1>7, <1>8, ChildClear DEF Planning

\* The folded directory of another package: checkDirs is called.
LEMMA FoldedClear ==
    ASSUME ClearReady, NEW n \in Name, ChildFolded(n)
    PROVE  Clearing'
<1>1. CASE phase' = "aborted"
  BY <1>1, StopClear DEF Stopped
<1>2. CASE phase' # "aborted"
  <2> DEFINE a == Base(n)  w == There(n)  b == Buf(n)
             L == Push(links, RemoveOp(w))  M == Push(L, MkdirOp(w))
             c == [entry |-> w, into |-> w, base |-> a]
             f == [a |-> a, b |-> b, w |-> w,
                   common |-> Children(a) \cap Children(b), rest |-> Children(b) \ Children(a)]
  <2>1. /\ phase = "check" /\ n \in Top.kids /\ Done(n) /\ UNCHANGED <<fs, setupVars>> /\ at' = c
        /\ LinkedDir(n) /\ OtherPackage(n) /\ Readable(fs, b) /\ ~match_protect_dirs(w)
        /\ phase' = "deps" /\ links' = M /\ deps' = Append(<<>>, f)
    BY <1>2 DEF ChildFolded, LinkedDir, OpenDir, FoundDir, Found, CheckDirs
  <2>2. /\ TidyReady /\ Ready /\ Disk(fs) /\ package \in Path /\ StowDir \in Path /\ PlainDir(fs, StowDir)
        /\ IsInDir(package, StowDir) /\ DirForDir(links) /\ InView(links) /\ links \in Seq(Op)
        /\ Config.nignores = <<>> /\ Target \in Path
    BY <2>1, RestowFacts DEF ClearReady, Clearing
  <2>3. /\ a \in Path /\ w \in Path /\ IsInDir(a, package) /\ w = Dest(a)
    BY <2>1, <2>2, ChildPlace
  <2>4. IsLink(fs, w) /\ PlainDir(fs, fs[w].ref) /\ IsDir(fs, a)
    BY <2>1, <2>2, FoldedPlain
  <2>5. DirAt(fs, w)
    BY <2>2, <2>4, DirOfLink
  <2>6. PICK k \in Op : k = RemoveOp(w) /\ k.act = "REMOVE" /\ k.origin = w
    <3>1. RemoveOp(w) \in Op
      BY <2>3, NamedOpTyped
    <3> QED BY <3>1 DEF RemoveOp, MkOp
  <2>7. PICK l \in Op : l = MkdirOp(w) /\ l.act = "MKDIR" /\ l.target = w
    <3>1. MkdirOp(w) \in Op
      BY <2>3, NamedOpTyped
    <3> QED BY <3>1 DEF MkdirOp, MkOp
  <2>8. c.entry = w /\ c.base = a /\ c.into = w
    OBVIOUS
  <2>9. f.a = a /\ f.rest = Children(b) \ Children(a)
    OBVIOUS
  <2>10. DOMAIN Append(<<>>, f) = {1} /\ Append(<<>>, f)[1] = f
    OBVIOUS
  <2>11. \A m \in f.rest : Append(a, m) \notin Nodes
    <3>1. \A m \in f.rest : m \in Name /\ m \notin Children(a)
      BY <2>9, ChildrenTyped
    <3> QED BY <2>2, <2>3, <3>1, NodeKid
  <2>12. \A q : IsInDir(q, a) => Entering(q)'
    BY <2>1, <2>8 DEF Entering
  <2> HIDE DEF c, f
  <2>13. /\ L \in Seq(Op) /\ DirForDir(L) /\ InView(L) /\ ToUnlink(L, a)
         /\ \A q : Settled(links, q) => Settled(L, q)
    <3>1. PICK N : N = Push(links, k)
      OBVIOUS
    <3>2. N \in Seq(Op) /\ DirForDir(N) /\ InView(N) /\ ToUnlink(N, a)
      BY <2>2, <2>3, <2>6, <3>1, PushTyped, PushDirs, PushUnlink
    <3>3. \A q : Settled(links, q) => Settled(N, q)
      BY <2>2, <2>6, <3>1, PushSettled
    <3> QED BY <2>6, <3>1, <3>2, <3>3
  <2> HIDE DEF L
  <2>14. \A q \in Nodes : w = Dest(q) => IsDir(fs, q)
    <3> SUFFICES ASSUME NEW q \in Nodes, w = Dest(q) PROVE IsDir(fs, q)
      OBVIOUS
    <3>1. q \in Path /\ IsInDir(q, package)
      BY <2>2, NodeFacts
    <3>2. q = a
      BY <2>2, <2>3, <3>1, DestApart
    <3> QED BY <2>4, <3>2
  <2>15. /\ DirForDir(M) /\ InView(M) /\ ToUnlink(M, a)
         /\ \A q : Settled(links, q) => Settled(M, q)
    <3>1. PICK N : N = Push(L, l)
      OBVIOUS
    <3>2. DirForDir(N) /\ InView(N) /\ ToUnlink(N, a)
      BY <2>5, <2>7, <2>13, <2>14, <3>1, PushDirs, PushUnlink
    <3>3. \A q : Settled(L, q) => Settled(N, q)
      BY <2>1, <2>7, <2>13, <3>1, PushSettled
    <3> QED BY <2>7, <2>13, <3>1, <3>2, <3>3
  <2> HIDE DEF M, w, b
  <2>16. \A j \in DOMAIN Append(<<>>, f) : \A m \in Append(<<>>, f)[j].rest :
            Append(Append(<<>>, f)[j].a, m) \notin Nodes
    BY <2>9, <2>10, <2>11
  <2>17. \A q \in Nodes : IsInDir(q, Base(n)) => Settled(M, q) \/ Entering(q)'
    BY <2>12
  <2>18. PICK D : D = Append(<<>>, f)
    OBVIOUS
  <2>19. \A j \in DOMAIN D : \A m \in D[j].rest : Append(D[j].a, m) \notin Nodes
    BY <2>16, <2>18
  <2>20. ~match_protect_dirs(c.entry) /\ (IsLink(fs, c.entry) => ToUnlink(M, c.base))
    BY <2>1, <2>8, <2>15
  <2> HIDE DEF a
  <2> QED BY <2>1, <2>15, <2>17, <2>18, <2>19, <2>20, ChildClear DEF Planning
<1> QED BY <1>1, <1>2

LEMMA CheckChildClear ==
    ASSUME ClearReady, NEW n \in Name, CheckChild(n)
    PROVE  Clearing'
<1>1. TidyReady
  BY RestowFacts DEF ClearReady
<1>2. ~ChildExec(n) /\ ~ChildCopied(n)
  BY <1>1, NoCopies DEF ChildExec, ChildCopied
<1>3. ~ChildTraversed(n) /\ ~ChildAutoTraverse(n)
  BY <1>1, TidyFacts DEF ChildTraversed, ChildAutoTraverse, match_auto_traverse
<1> QED BY <1>2, <1>3, OwnClear, ConflictClear, DirClear, FoldedClear, MissingClear DEF CheckChild

\* checkDirs works at the places of what it compares.
LEMMA DepsDest ==
    ASSUME ClearReady, phase = "deps", NEW n \in Name
    PROVE  /\ A(n) \in Path /\ W(n) \in Path /\ IsInDir(A(n), package) /\ IsInDir(A(n), at.base)
           /\ W(n) = Dest(A(n))
           /\ Deps.a \in Path /\ Deps.w \in Path /\ IsInDir(Deps.a, package) /\ IsInDir(Deps.a, at.base)
           /\ Deps.w = Dest(Deps.a) /\ IsDir(fs, Deps.a)
           /\ DirAt(fs, Deps.w) /\ (IsDirNode(B(n)) => DirAt(fs, W(n)))
<1>1. Ready /\ TidyReady /\ Disk(fs) /\ package \in Path /\ Target \in Path /\ deps \in Seq(DepsCall)
  BY RestowFacts DEF ClearReady
<1>2. /\ at.entry \in Path /\ at.base \in Path /\ fs[at.entry].ref \in Path
      /\ PlainDir(fs, fs[at.entry].ref) /\ B(n) \in Path
      /\ A(n) \in Path /\ W(n) \in Path /\ IsInDir(B(n), fs[at.entry].ref) /\ Len(deps) \in DOMAIN deps
      /\ \E y \in Path : W(n) = at.entry \o y /\ A(n) = at.base \o y /\ B(n) = fs[at.entry].ref \o y
  BY <1>1, DepsFacts
<1>3. DepsOK(fs, links, deps, at)
  BY <1>1 DEF Ready, PlannerOK
<1>4. IsInDir(at.base, package) /\ at.entry = Dest(at.base)
  <2>1. Aligned(at.base, at.into) /\ at.into = at.entry
    BY <1>1, <1>3 DEF TidyReady, TidyInv, DepsOK
  <2> QED BY <2>1 DEF Aligned, Dest
<1>5. IsLink(fs, at.entry)
  BY <1>3 DEF DepsOK
<1>6. ASSUME NEW x \in Path, NEW y \in Path, x = at.base \o y
      PROVE  IsInDir(x, at.base) /\ IsInDir(x, package) /\ Dest(x) = at.entry \o y
  <2>1. IsInDir(x, at.base)
    BY <1>2, <1>6, JoinIn
  <2>2. IsInDir(x, package) /\ Dest(x) = Dest(at.base) \o y
    BY <1>1, <1>2, <1>4, <1>6, DestBelow
  <2> QED BY <1>4, <2>1, <2>2
<1>7. ASSUME NEW y \in Path, IsDir(fs, fs[at.entry].ref \o y) PROVE DirAt(fs, at.entry \o y)
  <2>1. CASE y = <<>>
    <3>1. at.entry \o y = at.entry
      BY <1>2, <2>1, PathLen
    <3> QED BY <1>1, <1>2, <1>5, <3>1, DirOfLink
  <2>2. CASE y # <<>>
    <3>1. PICK p \in Path : p = at.entry \o y
      BY <1>2, JoinPath
    <3>2. Loc(fs, p) = fs[at.entry].ref \o y
      BY <1>1, <1>2, <1>5, <2>2, <3>1, LocBelowLink
    <3>3. Stat(fs, p) = Loc(fs, p)
      BY <1>1, <1>7, <3>1, <3>2, StatOfDir
    <3> QED BY <1>7, <3>1, <3>2, <3>3 DEF DirAt
  <2> QED BY <2>1, <2>2
<1>8. /\ IsInDir(A(n), package) /\ IsInDir(A(n), at.base) /\ W(n) = Dest(A(n))
      /\ IsDirNode(B(n)) => DirAt(fs, W(n))
  <2>1. PICK y \in Path : W(n) = at.entry \o y /\ A(n) = at.base \o y /\ B(n) = fs[at.entry].ref \o y
    BY <1>2
  <2>2. IsInDir(A(n), package) /\ IsInDir(A(n), at.base) /\ W(n) = Dest(A(n))
    BY <1>2, <1>6, <2>1
  <2>3. IsDirNode(B(n)) => IsDir(fs, B(n))
    BY <1>1, <1>2, PlainName DEF IsDirNode
  <2>4. IsDirNode(B(n)) => DirAt(fs, W(n))
    BY <1>7, <2>1, <2>3
  <2> QED BY <2>2, <2>4
<1>9. /\ Deps.a \in Path /\ Deps.w \in Path /\ IsInDir(Deps.a, package) /\ IsInDir(Deps.a, at.base)
      /\ Deps.w = Dest(Deps.a) /\ IsDir(fs, Deps.a) /\ DirAt(fs, Deps.w)
  <2>1. DepsFrameOK(fs, links, at, fs[at.entry].ref, Deps)
    BY <1>2, <1>3 DEF DepsOK, Deps
  <2>2. Deps.a \in Path /\ Deps.w \in Path
    BY <1>1, DepsTyped DEF Ready, DepsCall
  <2>3. Way(fs, links, Len(links), Deps.w) /\ IsDir(fs, Deps.a)
    BY <2>1 DEF DepsFrameOK
  <2>4. PICK y : /\ Deps.w = at.entry \o y /\ Deps.a = at.base \o y
                 /\ IsDir(fs, fs[at.entry].ref \o y) /\ y = After(Deps.w, at.entry)
    BY <2>1 DEF DepsFrameOK
  <2>5. y \in Path
    <3>1. Len(at.entry) \in Nat /\ Len(Deps.w) \in Nat
      BY <1>2, <2>2, PathLen
    <3>2. After(Deps.w, at.entry) \in Path
      BY <2>2, <3>1 DEF After, Path
    <3> QED BY <2>4, <3>2
  <2> QED BY <1>6, <1>7, <2>2, <2>3, <2>4, <2>5
<1> QED BY <1>2, <1>8, <1>9

\* A step of checkDirs.
LEMMA DepsClear ==
    ASSUME ClearReady, phase = "deps", phase' \in {"deps", "dive"}, UNCHANGED <<fs, setupVars>>,
           UNCHANGED <<stack, at>>,
           NEW M, \/ M = links
                  \/ \E l \in Op : \E q \in Path :
                        /\ M = Push(links, l) /\ l.target = Dest(q) /\ IsInDir(q, package)
                        /\ \/ l.act = "MKDIR" /\ DirAt(fs, Dest(q)) /\ IsDir(fs, q) /\ IsInDir(q, at.base)
                           \/ l.act = "SET_LINK" /\ q \notin Nodes,
           links' = M, NEW D, deps' = D,
           phase' = "deps" => \A k \in DOMAIN D : \A m \in D[k].rest : Append(D[k].a, m) \notin Nodes
    PROVE  Clearing'
<1>1. /\ links \in Seq(Op) /\ DirForDir(links) /\ InView(links) /\ Disk(fs) /\ package \in Path /\ Target \in Path
      /\ \A q \in Nodes : Settled(links, q) \/ Coming(q) \/ Entering(q)
      /\ ~match_protect_dirs(at.entry) /\ (IsLink(fs, at.entry) => ToUnlink(links, at.base)) /\ Ready
  BY RestowFacts DEF ClearReady, Clearing
<1>2. \A q : (Coming(q) <=> Coming(q)') /\ (Entering(q) <=> Entering(q)')
  BY DEF Coming, Entering
<1>3. IsDir(fs, at.base) /\ at.into = at.entry /\ DirAt(fs, at.entry)
  <2>1. DepsOK(fs, links, deps, at) /\ IsDir(fs, at.base)
    BY <1>1 DEF Ready, PlannerOK
  <2>2. IsLink(fs, at.entry) /\ PlainDir(fs, fs[at.entry].ref) /\ at.into = at.entry
    BY <2>1 DEF DepsOK
  <2> QED BY <1>1, <2>1, <2>2, DirOfLink
<1>4. CASE M = links
  BY <1>1, <1>2, <1>3, <1>4, ClearKept DEF Planning
<1>5. CASE M # links
  <2>1. PICK l \in Op, a \in Path :
           /\ M = Push(links, l) /\ l.target = Dest(a) /\ IsInDir(a, package)
           /\ \/ l.act = "MKDIR" /\ DirAt(fs, Dest(a)) /\ IsDir(fs, a) /\ IsInDir(a, at.base)
              \/ l.act = "SET_LINK" /\ a \notin Nodes
    BY <1>5
  <2>2. \A q \in Nodes : l.target = Dest(q) => q = a
    BY <1>1, <2>1, NodeFacts, DestApart
  <2>3. DirForDir(M) /\ InView(M)
    BY <1>1, <2>1, <2>2, PushDirs
  <2>4. \A q : ToUnlink(links, q) => ToUnlink(M, q)
    BY <1>1, <2>1, PushUnlink
  <2>5. ASSUME NEW q \in Nodes PROVE Settled(M, q) \/ Coming(q)' \/ Entering(q)'
    <3>1. CASE q = a /\ l.act = "MKDIR"
      BY <1>2, <2>1, <3>1 DEF Entering
    <3>2. CASE ~(q = a /\ l.act = "MKDIR")
      <4>1. Settled(links, q) => Settled(M, q)
        BY <1>1, <2>1, <2>2, <3>2, PushSettled
      <4> QED BY <1>1, <1>2, <4>1
    <3> QED BY <3>1, <3>2
  <2> QED BY <1>1, <1>3, <2>3, <2>4, <2>5, ClearKept DEF Planning
<1> QED BY <1>4, <1>5

LEMMA CheckDepsClear ==
    ASSUME ClearReady, NEW n \in Name, CheckDeps(n)
    PROVE  Clearing'
<1>1. phase = "deps" /\ UNCHANGED <<fs, setupVars>>
  BY DEF CheckDeps, DepsDir, DepsHarmless, DepsConflict, DepsLink, Shared, CheckDirs, Stop
<1>2. /\ deps \in Seq(DepsCall) /\ deps # <<>> /\ ~opt.force
      /\ \A k \in DOMAIN deps : \A m \in deps[k].rest : Append(deps[k].a, m) \notin Nodes
      /\ Disk(fs) /\ package \in Path /\ StowDir \in Path /\ PlainDir(fs, StowDir)
      /\ IsInDir(package, StowDir) /\ Config.nignores = <<>>
  BY <1>1, RestowFacts DEF ClearReady, Clearing, CheckOK, CheckTypeOK
<1>3. /\ A(n) \in Path /\ W(n) \in Path /\ IsInDir(A(n), package) /\ IsInDir(A(n), at.base)
      /\ W(n) = Dest(A(n)) /\ (IsDirNode(B(n)) => DirAt(fs, W(n)))
  BY <1>1, DepsDest
<1>4. Len(deps) \in DOMAIN deps
  BY <1>2, EmptySeq
<1>5. CASE DepsHarmless(n)
  <2>1. UNCHANGED <<phase, stack, at, links>> /\ deps' = Handled(n)
    BY <1>5 DEF DepsHarmless
  <2>2. PICK D : D = Handled(n)
    OBVIOUS
  <2>3. \A k \in DOMAIN D : k \in DOMAIN deps /\ D[k].a = deps[k].a /\ D[k].rest = deps[k].rest
    BY <1>2, <2>2 DEF Handled, DepsCall
  <2> QED BY <1>1, <1>2, <2>1, <2>2, <2>3, DepsClear
<1>6. CASE DepsConflict(n)
  BY <1>2, <1>6, StopClear DEF DepsConflict, Stop, Stopped
<1>7. CASE DepsDir(n)
  <2>1. CASE phase' = "aborted"
    BY <2>1, StopClear DEF Stopped
  <2>2. CASE phase' # "aborted"
    <3> DEFINE f == [a |-> A(n), b |-> B(n), w |-> W(n), common |-> Children(A(n)) \cap Children(B(n)),
                     rest |-> Children(B(n)) \ Children(A(n))]
    <3>1. /\ UNCHANGED <<stack, at>> /\ links' = Push(links, MkdirOp(W(n)))
          /\ phase' = "deps" /\ deps' = Append(Handled(n), f) /\ IsDirNode(A(n)) /\ IsDirNode(B(n))
      BY <1>7, <2>2 DEF DepsDir, CheckDirs
    <3>2. f.a = A(n) /\ f.rest = Children(B(n)) \ Children(A(n))
      OBVIOUS
    <3> HIDE DEF f
    <3>3. PICK H : H = Handled(n)
      OBVIOUS
    <3>4. H \in Seq(DepsCall)
          /\ \A k \in DOMAIN H : k \in DOMAIN deps /\ H[k].a = deps[k].a /\ H[k].rest = deps[k].rest
      <4>1. \A k \in DOMAIN H : k \in DOMAIN deps /\ H[k].a = deps[k].a /\ H[k].rest = deps[k].rest
        BY <1>2, <3>3 DEF Handled, DepsCall
      <4> QED BY <1>2, <3>3, <4>1, HandledSame
    <3>5. PICK D : D = Append(H, f)
      OBVIOUS
    <3>6. \A k \in DOMAIN D : (k \in DOMAIN H /\ D[k] = H[k]) \/ D[k] = f
      BY <3>4, <3>5
    <3>7. \A m \in f.rest : Append(f.a, m) \notin Nodes
      <4>1. \A m \in f.rest : m \in Name /\ m \notin Children(A(n))
        BY <3>2, ChildrenTyped
      <4> QED BY <1>2, <1>3, <3>2, <4>1, NodeKid
    <3>8. \A k \in DOMAIN D : \A m \in D[k].rest : Append(D[k].a, m) \notin Nodes
      BY <1>2, <3>4, <3>6, <3>7
    <3>9. IsDir(fs, A(n))
      <4>1. IsInDir(A(n), StowDir)
        BY <1>2, <1>3, InTrans
      <4> QED BY <1>2, <1>3, <3>1, <4>1, PlainName DEF IsDirNode
    <3>10. PICK l \in Op : l = MkdirOp(W(n)) /\ l.act = "MKDIR" /\ l.target = W(n)
      <4>1. MkdirOp(W(n)) \in Op
        BY <1>3, NamedOpTyped
      <4> QED BY <4>1 DEF MkdirOp, MkOp
    <3>11. PICK M : M = Push(links, l)
      OBVIOUS
    <3> QED BY <1>1, <1>3, <3>1, <3>3, <3>5, <3>8, <3>9, <3>10, <3>11, DepsClear
  <2> QED BY <2>1, <2>2
<1>8. CASE DepsLink(n)
  <2>1. /\ n \in Deps.rest /\ links' = Push(links, LinkOp(B(n), W(n))) /\ UNCHANGED <<phase, stack, at>>
        /\ deps' = [deps EXCEPT ![Len(deps)].rest = @ \ {n}]
    BY <1>8 DEF DepsLink
  <2>2. A(n) \notin Nodes
    BY <1>2, <1>4, <2>1 DEF A, Deps
  <2>3. PICK D : D = [deps EXCEPT ![Len(deps)].rest = @ \ {n}]
    OBVIOUS
  <2>4. \A k \in DOMAIN D : k \in DOMAIN deps /\ D[k].a = deps[k].a /\ D[k].rest \subseteq deps[k].rest
    BY <1>2, <1>4, <2>3 DEF DepsCall
  <2>5. PICK l \in Op : l = LinkOp(B(n), W(n)) /\ l.act = "SET_LINK" /\ l.target = W(n)
    <3>1. LinkOp(B(n), W(n)) \in Op
      BY <1>1, <1>3, DepsFacts, RestowFacts, NamedOpTyped DEF ClearReady
    <3> QED BY <3>1 DEF LinkOp, MkOp
  <2>6. PICK M : M = Push(links, l)
    OBVIOUS
  <2>7. \A k \in DOMAIN D : \A m \in D[k].rest : Append(D[k].a, m) \notin Nodes
    BY <1>2, <2>4
  <2> QED BY <1>1, <1>3, <2>1, <2>2, <2>3, <2>5, <2>6, <2>7, DepsClear
<1> QED BY <1>5, <1>6, <1>7, <1>8 DEF CheckDeps

LEMMA SomeName ==
    ASSUME RestowReady, phase # "idle"
    PROVE  \E n \in Name : TRUE
<1>1. TidyReady
  BY RestowFacts
<1>2. PICK p \in Pkg : package = PkgDir(p)
  BY <1>1 DEF TidyReady, TidyInv
<1> QED BY <1>2, SetupAssumption

LEMMA DepsReturnClear ==
    ASSUME ClearReady, DepsReturn
    PROVE  Clearing'
<1>1. /\ phase = "deps" /\ UNCHANGED <<fs, setupVars>> /\ UNCHANGED <<stack, at>>
      /\ phase' \in {"deps", "dive"}
      /\ deps' = SubSeq(deps, 1, Len(deps) - 1)
      /\ links' = links \/ links' = Push(links, MkdirOp(Deps.w))
  BY DEF DepsReturn
<1>2. /\ deps \in Seq(DepsCall) /\ deps # <<>>
      /\ \A k \in DOMAIN deps : \A m \in deps[k].rest : Append(deps[k].a, m) \notin Nodes
  BY <1>1, RestowFacts DEF ClearReady, Clearing, CheckOK, CheckTypeOK
<1>3. PICK D : D = SubSeq(deps, 1, Len(deps) - 1)
  OBVIOUS
<1>4. \A k \in DOMAIN D : k \in DOMAIN deps /\ D[k] = deps[k]
  BY <1>2, <1>3
<1>5. PICK M : M = links'
  OBVIOUS
<1>6. CASE M = links
  BY <1>1, <1>2, <1>3, <1>4, <1>5, <1>6, DepsClear
<1>7. CASE M # links
  <2>1. /\ Deps.a \in Path /\ Deps.w \in Path /\ IsInDir(Deps.a, package) /\ IsInDir(Deps.a, at.base)
        /\ Deps.w = Dest(Deps.a) /\ IsDir(fs, Deps.a) /\ DirAt(fs, Deps.w)
    <3>1. PICK n \in Name : TRUE
      BY <1>1, SomeName DEF ClearReady
    <3> QED BY <1>1, <3>1, DepsDest
  <2>2. PICK l \in Op : l = MkdirOp(Deps.w) /\ l.act = "MKDIR" /\ l.target = Deps.w
    <3>1. MkdirOp(Deps.w) \in Op
      BY <2>1, NamedOpTyped
    <3> QED BY <3>1 DEF MkdirOp, MkOp
  <2> QED BY <1>1, <1>2, <1>3, <1>4, <1>5, <1>7, <2>1, <2>2, DepsClear
<1> QED BY <1>6, <1>7

LEMMA DiveClear ==
    ASSUME ClearReady, DiveNotDir \/ DiveCopyDir \/ Dive
    PROVE  Clearing'
<1>1. /\ phase = "dive" /\ TidyReady /\ Ready /\ Disk(fs) /\ package \in Path /\ Target \in Path /\ StowDir \in Path
      /\ PlainDir(fs, StowDir) /\ IsInDir(package, StowDir) /\ Config.nignores = <<>>
      /\ links \in Seq(Op) /\ stack \in Seq(Call) /\ at \in Child /\ ~opt.force /\ ~opt.simulate
      /\ DirForDir(links) /\ InView(links)
      /\ \A q \in Nodes : Settled(links, q) \/ Coming(q) \/ Entering(q)
      /\ ~match_protect_dirs(at.entry) /\ (IsLink(fs, at.entry) => ToUnlink(links, at.base))
      /\ IsDir(fs, at.base) /\ at.into = at.entry /\ (LinkAt(fs, at.entry) => DirAt(fs, at.entry))
  <2>1. phase = "dive"
    BY DEF DiveNotDir, DiveCopyDir, Dive
  <2> QED BY <2>1, RestowFacts DEF ClearReady, Clearing
<1>2. at.base \in Path /\ at.entry \in Path /\ IsInDir(at.base, package) /\ at.entry = Dest(at.base)
  <2>1. Aligned(at.base, at.into)
    BY <1>1 DEF TidyReady, TidyInv
  <2> QED BY <1>1, <2>1 DEF Aligned, Dest, Child
<1>3. CASE DiveNotDir
  <2>1. /\ phase' = "check" /\ UNCHANGED <<fs, setupVars>> /\ UNCHANGED <<stack, deps, links>>
        /\ ~DirAt(fs, at.entry)
    BY <1>3 DEF DiveNotDir, Surface
  <2>2. ~IsLink(fs, at.entry) /\ ~IsDir(fs, at.entry)
    <3>1. at.entry \in DOMAIN fs => Loc(fs, at.entry) = at.entry
      BY <1>1, LocOfNode
    <3>2. IsDir(fs, at.entry) => DirAt(fs, at.entry)
      BY <1>1, <1>2, <3>1, StatOfDir DEF DirAt, IsDir
    <3> QED BY <1>1, <2>1, <3>1, <3>2 DEF LinkAt, IsLink
  <2>3. ~Made(links, at.entry)
    BY <1>1, <2>1 DEF Made, MadeBy, InView
  <2>4. ASSUME NEW q \in Nodes, IsInDir(q, at.base) PROVE Settled(links, q)
    <3>1. q \in Path
      BY <1>1, NodeFacts
    <3>2. CASE q = at.base
      BY <1>1, <1>2, <2>2, <2>3, <3>2 DEF Settled, Free, Usual
    <3>3. CASE q # at.base
      <4>1. /\ Dest(q) \notin DOMAIN fs /\ Dest(q) \in Path
            /\ IsInDir(Dest(q), at.entry) /\ Dest(q) # at.entry
        BY <1>1, <1>2, <2>2, <2>4, <3>1, <3>3, NothingBelow
      <4>2. ~Made(links, Dest(q))
        <5> SUFFICES ASSUME NEW j \in DOMAIN links, links[j].act = "MKDIR", links[j].target = Dest(q)
                     PROVE  FALSE
          BY <1>1 DEF Made, MadeBy
        <5>1. Way(fs, links, j - 1, Dest(q))
          <6>1. WaysReady(fs, links)
            BY <1>1 DEF Ready, PlannerOK, CallsOK, PlanOK
          <6> QED BY <6>1 DEF WaysReady, Removes
        <5>2. Len(at.entry) \in 0..(Len(Dest(q)) - 1) /\ SubSeq(Dest(q), 1, Len(at.entry)) = at.entry
          <6>1. /\ Len(at.entry) \in 0..Len(Dest(q)) /\ SubSeq(Dest(q), 1, Len(at.entry)) = at.entry
                /\ SubSeq(Dest(q), 1, Len(Dest(q))) = Dest(q)
            BY <1>2, <4>1, InDir, PathLen
          <6>2. Len(at.entry) # Len(Dest(q))
            BY <4>1, <6>1
          <6>3. Len(Dest(q)) \in Nat
            BY <4>1, PathLen
          <6> QED BY <6>1, <6>2, <6>3
        <5>3. MadeBy(links, j - 1, at.entry)
          BY <2>2, <5>1, <5>2 DEF Way
        <5>4. Made(links, at.entry)
          BY <1>1, <5>3 DEF MadeBy, Made
        <5> QED BY <2>3, <5>4
      <4> QED BY <4>1, <4>2 DEF Settled, Free
    <3> QED BY <3>2, <3>3
  <2>5. \A q : Coming(q) <=> Coming(q)'
    BY <2>1 DEF Coming
  <2>6. \A q \in Nodes : Settled(links, q) \/ Coming(q)' \/ Entering(q)'
    BY <1>1, <2>4, <2>5 DEF Entering
  <2> QED BY <1>1, <2>1, <2>6, ClearKept DEF Planning
<1>4. ~DiveCopyDir
  BY <1>1, NoCopies DEF DiveCopyDir
<1>5. CASE Dive
  <2>1. Enter(at.into, at.base, stack)
    BY <1>5 DEF Dive
  <2>2. CASE phase' \in Stopped
    BY <2>2, StopClear
  <2>3. CASE phase' \notin Stopped
    <3> DEFINE frame == [dir |-> at.into, base |-> at.base, kids |-> Children(at.base)]
    <3>1. /\ phase' = "check" /\ stack' = Append(stack, frame) /\ links' = links /\ deps' = deps
          /\ UNCHANGED <<fs, setupVars>> /\ Usable(at.into)
      BY <2>1, <2>3 DEF Enter, Stop, Stopped
    <3>2. frame.base = at.base /\ frame.kids = Children(at.base)
      OBVIOUS
    <3> HIDE DEF frame
    <3>3. PICK S : S = Append(stack, frame)
      OBVIOUS
    <3>4. /\ Len(stack) + 1 \in DOMAIN S /\ S[Len(stack) + 1] = frame
          /\ \A k \in DOMAIN stack : k \in DOMAIN S /\ S[k] = stack[k]
      BY <1>1, <3>3
    <3>5. stack' = S
      BY <3>1, <3>3
    <3>6. ASSUME NEW q, NEW k \in DOMAIN S, NEW n \in S[k].kids, IsInDir(q, Append(S[k].base, n))
          PROVE  Coming(q)'
      BY <3>5, <3>6 DEF Coming
    <3>7. ASSUME NEW q \in Nodes, Coming(q) PROVE Coming(q)'
      <4>1. PICK k \in DOMAIN stack : \E n \in stack[k].kids : IsInDir(q, Append(stack[k].base, n))
        BY <3>7 DEF Coming
      <4> QED BY <3>4, <3>6, <4>1
    <3>8. ASSUME NEW q \in Nodes, IsInDir(q, at.base), q # at.base PROVE Coming(q)'
      <4>1. PICK n \in Children(at.base) : IsInDir(q, Append(at.base, n))
        BY <1>1, <1>2, <3>8, NodeBelow
      <4> QED BY <3>2, <3>4, <3>6, <4>1
    <3>9. Settled(links, at.base)
      <4>1. CASE IsLink(fs, at.entry)
        BY <1>1, <1>2, <4>1 DEF Settled
      <4>2. CASE ~IsLink(fs, at.entry)
        <5>1. Usual(at.entry)
          <6> SUFFICES ASSUME IsDir(fs, at.entry) PROVE fs[at.entry].read /\ fs[at.entry].write
            BY DEF Usual
          <6>1. Loc(fs, at.entry) = at.entry
            BY <1>1, LocOfNode DEF IsDir
          <6>2. Stat(fs, at.entry) = at.entry
            BY <1>1, <1>2, <6>1, StatOfDir
          <6> QED BY <1>1, <3>1, <6>2 DEF Usable, Readable, Writable
        <5> QED BY <1>1, <1>2, <4>2, <5>1 DEF Settled, Free
      <4> QED BY <4>1, <4>2
    <3>10. \A q \in Nodes : Settled(links, q) \/ Coming(q)' \/ Entering(q)'
      BY <1>1, <3>7, <3>8, <3>9 DEF Entering
    <3> QED BY <1>1, <3>1, <3>10, ClearKept DEF Planning
  <2> QED BY <2>2, <2>3
<1> QED BY <1>3, <1>4, <1>5

LEMMA CheckReturnClear ==
    ASSUME ClearReady, CheckReturn
    PROVE  Clearing'
<1>1. /\ phase = "check" /\ phase' = "check" /\ Top.kids = {} /\ Len(stack) > 1
      /\ stack' = SubSeq(stack, 1, Len(stack) - 1) /\ UNCHANGED <<deps, at, links>> /\ UNCHANGED <<fs, setupVars>>
  BY DEF CheckReturn
<1>2. /\ stack \in Seq(Call) /\ stack # <<>> /\ DirForDir(links) /\ InView(links)
      /\ \A q \in Nodes : Settled(links, q) \/ Coming(q) \/ Entering(q)
  BY <1>1, RestowFacts DEF ClearReady, Clearing, CheckOK, CheckTypeOK
<1>3. \A k \in DOMAIN stack : stack[k].kids # {} => k \in DOMAIN stack' /\ stack'[k] = stack[k]
  BY <1>1, <1>2 DEF Top
<1>4. \A q : Coming(q) => Coming(q)'
  BY <1>3 DEF Coming
<1>5. \A q : ~Entering(q)
  BY <1>1 DEF Entering
<1> QED BY <1>1, <1>2, <1>4, <1>5, ClearKept DEF Planning

LEMMA CheckStepClear ==
    ASSUME ClearReady, CheckStep
    PROVE  Clearing'
BY CheckChildClear, CheckDepsClear, DepsReturnClear, DiveClear, CheckReturnClear DEF CheckStep

\* check begins at the package: all of it is to be looked at.
LEMMA BeginClear ==
    ASSUME ClearReady, links = <<>>, BeginPass
    PROVE  Clearing'
<1>1. phase = "begin" /\ Enter(Target, package, <<>>)
  BY DEF BeginPass
<1>2. CASE phase' \in Stopped
  BY <1>2, StopClear
<1>3. CASE phase' \notin Stopped
  <2> DEFINE frame == [dir |-> Target, base |-> package, kids |-> Children(package)]
  <2>1. /\ phase' = "check" /\ links' = links /\ stack' = Append(<<>>, frame)
        /\ UNCHANGED <<fs, setupVars>> /\ Usable(Target)
    BY <1>1, <1>3 DEF Enter, Stop, Stopped
  <2>2. DOMAIN stack' = {1} /\ stack'[1].base = package /\ stack'[1].kids = Children(package)
    BY <2>1
  <2> HIDE DEF frame
  <2>3. /\ Ready /\ Disk(fs) /\ package \in Path /\ Target \in Path /\ StowDir \in Path
        /\ PlainDir(fs, StowDir) /\ IsInDir(package, StowDir) /\ Config.nignores = <<>>
        /\ ~opt.force /\ ~opt.simulate
    BY RestowFacts DEF ClearReady
  <2>4. Rooted
    <3>1. IsDir(fs, Target)
      BY <2>1, <2>3 DEF Usable, Ready, Straight
    <3>2. Stat(fs, Target) = Target
      BY <2>3, <3>1, LocOfNode, StatOfDir DEF IsDir
    <3> QED BY <2>1, <2>3, <3>1, <3>2 DEF Rooted, Usual, Usable, Readable, Writable
  <2>5. Nodes' = Nodes /\ Rooted'
    BY <2>1, <2>4, RestowSame
  <2>6. ASSUME NEW q \in Nodes PROVE Coming(q)'
    <3>1. q \in Path /\ IsInDir(q, package) /\ q # package /\ IsInDir(package, package)
      BY <2>3, NodeFacts, InSelf
    <3>2. PICK n \in Children(package) : IsInDir(q, Append(package, n))
      BY <2>3, <3>1, NodeBelow
    <3> QED BY <2>2, <3>2 DEF Coming
  <2>7. DOMAIN links' = {}
    BY <2>1
  <2>8. DirForDir(links)' /\ InView(links)'
    BY <2>7 DEF DirForDir, InView
  <2> QED BY <2>1, <2>5, <2>6, <2>8 DEF Clearing
<1> QED BY <1>2, <1>3
-----------------------------------------------------------------------------
(***************************************************************************)
(* The stow half: check is never refused.                                  *)
(***************************************************************************)
InstallReady == RestowReady /\ ~opt.unstow

LEMMA InstallKept ==
    ASSUME InstallReady, phase \in {"begin", "check", "dive"}, UNCHANGED <<fs, setupVars>>,
           phase' \in {"check", "dive", "aborted"},
           NEW S, stack' = S, NEW c, at' = c,
           phase' \in {"check", "dive"} => \A k \in DOMAIN S :
              IsDir(fs, S[k].dir) /\ \A n \in S[k].kids : Append(S[k].base, n) \in Nodes,
           phase' = "dive" =>
              c.base \in Nodes /\ c.into = c.entry /\ c.entry \in DOMAIN fs /\ ~IsLink(fs, c.entry)
    PROVE  Reinstalling'
<1>1. Rooted /\ \A q \in Nodes : Free(q)
  BY RestowFacts DEF InstallReady, Reinstalling
<1>2. Nodes' = Nodes /\ Rooted' /\ \A q \in Nodes : Free(q)'
  BY <1>1, RestowSame
<1>3. fs' = fs
  OBVIOUS
<1> QED BY <1>2, <1>3 DEF Reinstalling

LEMMA InstallChild ==
    ASSUME InstallReady, phase = "check", NEW n \in Name, n \in Top.kids
    PROVE  /\ Base(n) \in Nodes /\ There(n) = Dest(Base(n)) /\ There(n) \in Path
           /\ Loc(fs, There(n)) = There(n) /\ Parent(Base(n)) = Top.base
           /\ (IsDirNode(Base(n)) <=> IsDir(fs, Base(n)))
           /\ (Lexists(fs, There(n)) => There(n) \in DOMAIN fs)
           /\ There(n) \in DOMAIN fs => \/ /\ IsDir(fs, Base(n)) /\ ~IsLink(fs, There(n))
                                           /\ ~match_protect_dirs(There(n))
                                        \/ ~IsDir(fs, Base(n)) /\ match_ignore_file_in_dir(Top.base, Base(n))
<1>1. /\ TidyReady /\ CheckOK /\ Disk(fs) /\ StowDir \in Path /\ package \in Path /\ PlainDir(fs, StowDir)
      /\ IsInDir(package, StowDir) /\ stack \in Seq(Call) /\ stack # <<>>
      /\ \A q \in Nodes : Free(q)
      /\ \A k \in DOMAIN stack :
            IsDir(fs, stack[k].dir) /\ \A m \in stack[k].kids : Append(stack[k].base, m) \in Nodes
  BY RestowFacts DEF InstallReady, Reinstalling, CheckOK, CheckTypeOK
<1>2. Len(stack) \in DOMAIN stack
  BY <1>1, EmptySeq
<1>3. IsDir(fs, Top.dir) /\ Base(n) \in Nodes
  BY <1>1, <1>2 DEF Top, Base
<1>4. /\ Base(n) \in Path /\ There(n) \in Path /\ Top.base \in Path /\ Top.dir \in Path
      /\ IsInDir(Base(n), package) /\ There(n) = Dest(Base(n))
  BY <1>1, ChildPlace
<1>5. Loc(fs, There(n)) = There(n)
  BY <1>1, <1>3, <1>4, LocInDir DEF There
<1>6. Parent(Base(n)) = Top.base
  BY <1>4, AddPath DEF Base
<1>7. IsDirNode(Base(n)) <=> IsDir(fs, Base(n))
  <2>1. IsInDir(Base(n), StowDir)
    BY <1>1, <1>4, InTrans
  <2> QED BY <1>1, <1>4, <2>1, PlainName DEF IsDirNode
<1>8. Free(Base(n))
  BY <1>1, <1>3
<1> QED BY <1>3, <1>4, <1>5, <1>6, <1>7, <1>8 DEF Free, Lexists

\* A child is done.
LEMMA InstallDone ==
    ASSUME InstallReady, phase = "check", NEW n \in Name, Done(n), UNCHANGED <<fs, setupVars>>,
           phase' \in {"check", "dive"}, NEW c, at' = c,
           phase' = "dive" =>
              c.base \in Nodes /\ c.into = c.entry /\ c.entry \in DOMAIN fs /\ ~IsLink(fs, c.entry)
    PROVE  Reinstalling'
<1>1. /\ stack \in Seq(Call) /\ stack # <<>>
      /\ \A k \in DOMAIN stack :
            IsDir(fs, stack[k].dir) /\ \A m \in stack[k].kids : Append(stack[k].base, m) \in Nodes
  BY RestowFacts DEF InstallReady, Reinstalling, CheckOK, CheckTypeOK
<1>2. PICK S : S = [stack EXCEPT ![Len(stack)].kids = @ \ {n}]
  OBVIOUS
<1>3. \A k \in DOMAIN S : /\ k \in DOMAIN stack /\ S[k].dir = stack[k].dir /\ S[k].base = stack[k].base
                           /\ S[k].kids \subseteq stack[k].kids
  <2>1. Len(stack) \in DOMAIN stack
    BY <1>1, EmptySeq
  <2>2. \A k \in DOMAIN stack : stack[k] \in Call
    BY <1>1
  <2> QED BY <1>2, <2>1, <2>2 DEF Call
<1>4. stack' = S
  BY <1>2 DEF Done
<1> QED BY <1>1, <1>3, <1>4, InstallKept

LEMMA CheckChildInstalls ==
    ASSUME InstallReady, NEW n \in Name, CheckChild(n)
    PROVE  Reinstalling'
<1>1. TidyReady /\ ~opt.unstow /\ ptargets = {}
  BY RestowFacts DEF InstallReady
<1>2. ~ChildExec(n) /\ ~ChildCopied(n)
  BY <1>1, NoCopies DEF ChildExec, ChildCopied
<1>3. ~ChildTraversed(n) /\ ~ChildAutoTraverse(n)
  BY <1>1, TidyFacts DEF ChildTraversed, ChildAutoTraverse, match_auto_traverse
<1>4. phase = "check" /\ n \in Top.kids
  BY <1>2, <1>3 DEF CheckChild, ChildOwn, ChildConflict, ChildProtected, ChildDir, ChildForeign, ChildFolded,
     ChildMissing, Missing, Found, FoundDir, FoundFile, OpenDir, LinkedDir
<1>5. /\ Base(n) \in Nodes /\ There(n) = Dest(Base(n))
      /\ Loc(fs, There(n)) = There(n)
      /\ (IsDirNode(Base(n)) <=> IsDir(fs, Base(n)))
      /\ (Lexists(fs, There(n)) => There(n) \in DOMAIN fs)
      /\ There(n) \in DOMAIN fs => \/ /\ IsDir(fs, Base(n)) /\ ~IsLink(fs, There(n))
                                      /\ ~match_protect_dirs(There(n))
                                   \/ ~IsDir(fs, Base(n)) /\ match_ignore_file_in_dir(Top.base, Base(n))
  BY <1>4, InstallChild
<1>6. CASE ChildDir(n)
  <2> DEFINE c == [entry |-> There(n), into |-> There(n), base |-> Base(n)]
  <2>1. Done(n) /\ UNCHANGED <<fs, setupVars>> /\ phase' = "dive" /\ at' = c
        /\ ~LinkAt(fs, There(n)) /\ Lexists(fs, There(n))
    BY <1>6 DEF ChildDir, DiveTo, OpenDir, FoundDir, Found
  <2>2. c.base = Base(n) /\ c.into = There(n) /\ c.entry = There(n)
    OBVIOUS
  <2> HIDE DEF c
  <2>3. c.base \in Nodes /\ c.into = c.entry /\ c.entry \in DOMAIN fs /\ ~IsLink(fs, c.entry)
    BY <1>5, <2>1, <2>2 DEF LinkAt
  <2> QED BY <1>4, <2>1, <2>3, InstallDone
<1>7. CASE ~ChildDir(n)
  <2>1. ~ChildProtected(n) /\ ~ChildForeign(n) /\ ~ChildFolded(n)
    BY <1>5 DEF ChildProtected, ChildForeign, ChildFolded, LinkedDir, OpenDir, FoundDir, Found, LinkAt
  <2>2. ChildOwn(n) => Skip(n)
    BY <1>1 DEF ChildOwn
  <2>3. ChildConflict(n) => Skip(n)
    BY <1>5 DEF ChildConflict, FoundFile, Found
  <2>4. ChildMissing(n) => Skip(n) \/ Plan(n, Install(n))
    BY <1>1 DEF ChildMissing, match_protect_targets
  <2>5. Done(n) /\ UNCHANGED <<fs, setupVars>> /\ UNCHANGED phase
    BY <1>2, <1>3, <1>7, <2>1, <2>2, <2>3, <2>4 DEF CheckChild, Skip, Plan
  <2>6. PICK c : c = at'
    OBVIOUS
  <2> QED BY <1>4, <2>5, <2>6, InstallDone
<1> QED BY <1>6, <1>7

\* check comes to a directory of the target.
LEMMA EnterInstalls ==
    ASSUME InstallReady, phase \in {"begin", "dive"}, NEW d \in Path, NEW a \in Path, NEW frames \in Seq(Call),
           Enter(d, a, frames), IsDir(fs, d), Usual(d), IsInDir(a, package),
           \A k \in DOMAIN frames :
              IsDir(fs, frames[k].dir) /\ \A n \in frames[k].kids : Append(frames[k].base, n) \in Nodes
    PROVE  Reinstalling'
<1>1. /\ Disk(fs) /\ package \in Path /\ StowDir \in Path /\ IsInDir(package, StowDir)
      /\ PlainDir(fs, StowDir) /\ Config.nignores = <<>>
  BY RestowFacts DEF InstallReady
<1>2. Usable(d)
  <2>1. Stat(fs, d) = d
    BY <1>1, LocOfNode, StatOfDir DEF IsDir
  <2> QED BY <2>1 DEF Usable, Usual, DirAt, Readable, Writable
<1>3. CASE phase' = "aborted"
  BY <1>3 DEF Reinstalling
<1>4. CASE phase' # "aborted"
  <2> DEFINE frame == [dir |-> d, base |-> a, kids |-> Children(a)]
  <2>1. stack' = Append(frames, frame) /\ phase' = "check" /\ UNCHANGED <<fs, setupVars>>
    BY <1>2, <1>4 DEF Enter, Stop
  <2>2. frame.dir = d /\ frame.base = a /\ frame.kids = Children(a)
    OBVIOUS
  <2> HIDE DEF frame
  <2>3. PICK S : S = Append(frames, frame)
    OBVIOUS
  <2>4. \A k \in DOMAIN S : S[k] = frame \/ (k \in DOMAIN frames /\ S[k] = frames[k])
    BY <2>3
  <2>5. \A n \in Children(a) : Append(a, n) \in Nodes
    BY <1>1, NodeKid, ChildrenTyped
  <2>6. PICK c : c = at'
    OBVIOUS
  <2> QED BY <2>1, <2>2, <2>3, <2>4, <2>5, <2>6, InstallKept
<1> QED BY <1>3, <1>4

LEMMA CheckStepInstalls ==
    ASSUME InstallReady, CheckStep
    PROVE  Reinstalling'
<1>1. /\ phase \notin {"deps", "refused"} /\ TidyReady /\ Ready /\ Disk(fs) /\ stack \in Seq(Call)
      /\ phase \in {"check", "dive"} => \A k \in DOMAIN stack :
            IsDir(fs, stack[k].dir) /\ \A n \in stack[k].kids : Append(stack[k].base, n) \in Nodes
  BY RestowFacts DEF InstallReady, Reinstalling
<1>2. \A n \in Name : ~CheckDeps(n)
  BY <1>1 DEF CheckDeps, DepsDir, DepsHarmless, DepsConflict, DepsLink, Shared
<1>3. ~DepsReturn
  BY <1>1 DEF DepsReturn
<1>4. ~DiveCopyDir
  BY <1>1, NoCopies DEF DiveCopyDir
<1>5. CASE \E n \in Name : CheckChild(n)
  BY <1>5, CheckChildInstalls
<1>6. CASE DiveNotDir
  <2>1. phase = "dive" /\ phase' = "check" /\ UNCHANGED <<fs, setupVars>> /\ UNCHANGED stack
    BY <1>6 DEF DiveNotDir, Surface
  <2>2. PICK c : c = at'
    OBVIOUS
  <2>3. PICK S : S = stack
    OBVIOUS
  <2> QED BY <1>1, <2>1, <2>2, <2>3, InstallKept
<1>7. CASE Dive
  <2>1. phase = "dive" /\ DirAt(fs, at.entry) /\ Enter(at.into, at.base, stack)
    BY <1>7 DEF Dive
  <2>2. /\ at \in Child /\ at.base \in Nodes /\ at.into = at.entry /\ at.entry \in DOMAIN fs
        /\ ~IsLink(fs, at.entry) /\ \A q \in Nodes : Free(q)
    BY <2>1, RestowFacts DEF InstallReady, Reinstalling
  <2>3. at.base \in Path /\ at.entry \in Path /\ IsInDir(at.base, package) /\ at.entry = Dest(at.base)
    <3>1. Aligned(at.base, at.into)
      BY <1>1, <2>1 DEF TidyReady, TidyInv
    <3> QED BY <2>2, <3>1 DEF Aligned, Dest, Child
  <2>4. IsDir(fs, at.entry)
    <3>1. Loc(fs, at.entry) = at.entry
      BY <1>1, <2>2, LocOfNode
    <3>2. Stat(fs, at.entry) = at.entry
      BY <1>1, <2>2, <2>3, <3>1, StatOfNode DEF LinkAt
    <3> QED BY <2>1, <3>2 DEF DirAt
  <2>5. IsDir(fs, at.base)
    BY <1>1, <2>1, <2>2 DEF Ready, PlannerOK, FrameOK
  <2>6. Usual(at.entry)
    BY <2>2, <2>3, <2>5 DEF Free
  <2> QED BY <1>1, <2>1, <2>2, <2>3, <2>4, <2>6, EnterInstalls
<1>8. CASE CheckReturn
  <2>1. /\ phase = "check" /\ phase' = "check" /\ UNCHANGED <<fs, setupVars>>
        /\ stack' = SubSeq(stack, 1, Len(stack) - 1)
    BY <1>8 DEF CheckReturn
  <2>2. PICK c : c = at'
    OBVIOUS
  <2>3. PICK S : S = SubSeq(stack, 1, Len(stack) - 1)
    OBVIOUS
  <2>4. \A k \in DOMAIN S : k \in DOMAIN stack /\ S[k] = stack[k]
    BY <1>1, <2>3
  <2> QED BY <1>1, <2>1, <2>2, <2>3, <2>4, InstallKept
<1> QED BY <1>2, <1>3, <1>4, <1>5, <1>6, <1>7, <1>8 DEF CheckStep

LEMMA BeginInstalls ==
    ASSUME InstallReady, BeginPass
    PROVE  Reinstalling'
<1>1. phase = "begin" /\ Enter(Target, package, <<>>)
  BY DEF BeginPass
<1>2. Rooted /\ package \in Path /\ Target \in Path
  BY <1>1, RestowFacts DEF InstallReady, Reinstalling
<1>3. IsInDir(package, package)
  BY <1>2, InSelf
<1>4. <<>> \in Seq(Call) /\ DOMAIN <<>> = {}
  OBVIOUS
<1> QED BY <1>1, <1>2, <1>3, <1>4, EnterInstalls DEF Rooted
-----------------------------------------------------------------------------
(***************************************************************************)
(* The unstow half is carried out.                                         *)
(***************************************************************************)
\* What is there after an operation was there before, or it is what the
\* operation makes.
LEMMA TurnNodes ==
    ASSUME ExecOK, phase = "exec", ToDo, OpsTidy(todo), ExecStep, phase' = "exec",
           NEW G, G = fs', NEW q \in DOMAIN G
    PROVE  \/ q \in DOMAIN fs /\ G[q] = fs[q]
           \/ /\ Current.act # "REMOVE" /\ q = Current.target /\ q \notin DOMAIN fs
              /\ Current.act = "MKDIR" => G[q] = Dir
<1>1. todo # <<>> /\ Changes(Current)
  BY ExecChange
<1>2. CASE Current.act = "REMOVE"
  <2>1. Loc(fs, Current.origin) = Current.origin
    BY <1>1, <1>2, RemovePlace DEF ToDo
  <2>2. G = fs \/ G = Drop(fs, Current.origin)
    BY <1>1, <1>2 DEF Changes
  <2> QED BY <2>1, <2>2 DEF Drop
<1>3. CASE Current.act # "REMOVE"
  <2>1. PICK n \in Node : /\ Current.target \notin DOMAIN fs /\ G = Put(fs, Current.target, n)
                          /\ Current.act = "MKDIR" => n.kind = "dir"
    BY <1>3, ExecDoes
  <2>2. G = fs \/ \E k \in {Dir, Link(Current.origin)} : G = Put(fs, Current.target, k)
    BY <1>1, <1>3 DEF Changes
  <2>3. Current.target \in DOMAIN G /\ G[Current.target] = n
    BY <2>1 DEF Put
  <2>4. n \in {Dir, Link(Current.origin)}
    BY <2>1, <2>2, <2>3 DEF Put
  <2>5. Current.act = "MKDIR" => n = Dir
    BY <2>1, <2>4 DEF Link
  <2> QED BY <1>3, <2>1, <2>3, <2>5 DEF Put
<1> QED BY <1>2, <1>3

LEMMA TurnClear ==
    ASSUME ClearReady, TidyAll, phase = "exec", phase' = "exec", ExecStep, UNCHANGED setupVars
    PROVE  Clearing'
<1>1. /\ ExecOK /\ ToDo /\ OpsTidy(todo) /\ TidyDisk(fs, StowRoots) /\ Disk(fs) /\ todo \in Seq(Op)
      /\ Rooted /\ DirForDir(todo) /\ \A q \in Nodes : Settled(todo, q)
      /\ package \in Path /\ Target \in Path /\ StowDir \in Path /\ IsInDir(package, StowDir)
      /\ StowDir \in StowRoots /\ StowRoots \subseteq Path /\ IsInDir(StowDir, Target)
  <2>1. ExecOK /\ ToDo /\ OpsTidy(todo) /\ TidyDisk(fs, StowRoots) /\ todo \in Seq(Op)
    BY DEF TidyAll, TypeOK, ExecOK, CheckOK, ToDo, PlanInv, TidyInv, ExecTypeOK
  <2>2. StowDir \in StowRoots /\ StowRoots \subseteq Path
    BY RootsTyped DEF TidyAll, TypeOK, SetupTypeOK
  <2>3. IsInDir(StowDir, Target)
    BY DEF ClearReady, RestowReady, RestowInv, RestowHost
  <2> QED BY <2>1, <2>2, <2>3, RestowFacts DEF ClearReady, Clearing
<1>2. PICK G : G = fs'
  OBVIOUS
<1>3. PICK M : M = todo'
  OBVIOUS
<1>4. /\ todo # <<>> /\ Current = todo[1] /\ 1 \in DOMAIN todo /\ Elsewhere(Place(Current), G)
      /\ Current.act = "REMOVE" /\ IsLink(fs, Current.origin) => Current.origin \notin DOMAIN G
      /\ M \in Seq(Op)
      /\ \A j \in DOMAIN M : M[j].act = "REMOVE" \/ \E i \in DOMAIN todo : M[j] = todo[i]
      /\ \A i \in DOMAIN todo : i = 1 \/ \E j \in DOMAIN M : M[j] = todo[i]
  BY <1>1, <1>2, <1>3, ExecTurn
<1>5. \A q \in DOMAIN G : \/ q \in DOMAIN fs /\ G[q] = fs[q]
                          \/ /\ Current.act # "REMOVE" /\ q = Current.target /\ q \notin DOMAIN fs
                             /\ Current.act = "MKDIR" => G[q] = Dir
  BY <1>1, <1>2, TurnNodes
<1>6. \A q : IsInDir(q, package) => (q \in DOMAIN fs <=> q \in DOMAIN G) /\ (q \in DOMAIN fs => G[q] = fs[q])
  <2>1. ~IsInDir(Place(Current), package)
    <3>1. Place(Current) \in Path
      BY <1>1, <1>4, CurrentTyped DEF Place
    <3> QED BY <1>1, <1>4, <3>1, InTrans DEF Elsewhere, Outside
  <2> QED BY <1>4, <2>1 DEF Elsewhere
<1>7. package' = package /\ Config' = Config /\ protect_dirs' = protect_dirs
  BY DEF setupVars, listVars, Config
<1>8. Nodes' = Nodes /\ \A q \in Nodes : IsDir(G, q) <=> IsDir(fs, q)
  <2>1. \A q : IsStrictPrefix(package, q) => IsInDir(q, package)
    BY DEF IsStrictPrefix, IsInDir
  <2>2. \A q : IsInDir(q, package) => (IsDir(G, q) <=> IsDir(fs, q))
    BY <1>6 DEF IsDir
  <2> QED BY <1>2, <1>6, <1>7, <2>1, <2>2 DEF Nodes, match_ignore, match_ignore_file_in_dir
<1>9. /\ \A d : match_protect_dirs(d)' <=> match_protect_dirs(d)
      /\ \A d, q : match_ignore_file_in_dir(d, q)' <=> match_ignore_file_in_dir(d, q)
      /\ \A q : Dest(q)' = Dest(q)
  BY <1>7 DEF match_protect_dirs, match_ignore_file_in_dir, Dest
<1>10. Rooted'
  <2>1. TidyDisk(G, StowRoots)
    BY <1>1, <1>2, ChangeTidy
  <2>2. Disk(G)
    BY <1>1, <1>2, ExecStepTyped DEF ExecOK, CheckOK
  <2>3. IsDir(G, Target)
    BY <1>1, <2>1, <2>2, DirOver DEF TidyDisk, PlainDir
  <2>4. G[Target] = fs[Target]
    BY <1>1, <1>5, <2>3 DEF Rooted, IsDir
  <2> QED BY <1>1, <1>2, <2>3, <2>4 DEF Rooted, Usual
<1>11. \A p : Made(M, p) => Made(todo, p)
  <2> SUFFICES ASSUME NEW p, NEW j \in DOMAIN M, M[j].act = "MKDIR", M[j].target = p PROVE Made(todo, p)
    BY <1>4 DEF Made, MadeBy
  <2>1. PICK i \in DOMAIN todo : M[j] = todo[i]
    BY <1>4
  <2> QED BY <1>1, <2>1 DEF Made, MadeBy
<1>12. DirForDir(todo)'
  <2> SUFFICES ASSUME NEW j \in DOMAIN M, NEW q \in Nodes, ~Removes(M, j), M[j].target = Dest(q)
               PROVE  M[j].act = "MKDIR" /\ IsDir(G, q)
    BY <1>2, <1>3, <1>8, <1>9 DEF DirForDir, Removes
  <2>1. PICK i \in DOMAIN todo : M[j] = todo[i]
    BY <1>4 DEF Removes
  <2> QED BY <1>1, <1>8, <2>1 DEF DirForDir, Removes
<1>13. ASSUME NEW q \in Nodes PROVE Settled(todo, q)'
  <2>1. PICK w : w = Dest(q)
    OBVIOUS
  <2>2. Settled(todo, q)
    BY <1>1
  <2>3. Made(M, w) => ~match_protect_dirs(w)
    BY <1>11, <2>1, <2>2 DEF Settled
  <2>4. (w \in DOMAIN G =>
              \/ /\ IsDir(G, q) /\ ~IsLink(G, w)
                 /\ ~match_protect_dirs(w) /\ (IsDir(G, w) => G[w].read /\ G[w].write)
              \/ ~IsDir(G, q) /\ match_ignore_file_in_dir(Parent(q), q))
        \/ (IsLink(G, w) /\ ToUnlink(M, q))
    <3>1. CASE w \notin DOMAIN G
      BY <3>1
    <3>2. CASE w \in DOMAIN G /\ w \in DOMAIN fs /\ G[w] = fs[w]
      <4>1. CASE Free(q)
        BY <1>8, <2>1, <3>2, <4>1 DEF Free, Usual, IsDir, IsLink
      <4>2. CASE IsLink(fs, w) /\ ToUnlink(todo, q)
        <5>1. PICK i \in DOMAIN todo : todo[i].act = "REMOVE" /\ todo[i].origin = w
          BY <2>1, <4>2 DEF ToUnlink, Removes
        <5>2. i # 1
          BY <1>4, <3>2, <4>2, <5>1
        <5>3. PICK j \in DOMAIN M : M[j] = todo[i]
          BY <1>4, <5>2
        <5> QED BY <2>1, <3>2, <4>2, <5>1, <5>3 DEF ToUnlink, Removes, IsLink
      <4> QED BY <2>1, <2>2, <4>1, <4>2 DEF Settled
    <3>3. CASE w \in DOMAIN G /\ ~(w \in DOMAIN fs /\ G[w] = fs[w])
      <4>1. Current.act # "REMOVE" /\ w = Current.target /\ (Current.act = "MKDIR" => G[w] = Dir)
        BY <1>5, <3>3
      <4>2. Current.act = "MKDIR" /\ IsDir(fs, q)
        BY <1>1, <1>4, <2>1, <4>1 DEF DirForDir, Removes
      <4>3. Made(todo, w)
        BY <1>1, <1>4, <4>1, <4>2 DEF Made, MadeBy
      <4>4. ~match_protect_dirs(w)
        BY <2>1, <2>2, <4>3 DEF Settled
      <4> QED BY <1>8, <4>1, <4>2, <4>4 DEF IsLink, Dir
    <3> QED BY <3>1, <3>2, <3>3
  <2>5. Free(q)' \/ (IsLink(fs, Dest(q)) /\ ToUnlink(todo, q))'
    <3>1. ToUnlink(M, q) => ToUnlink(todo, q)'
      BY <1>3, <1>9 DEF ToUnlink, Removes
    <3>2. w = Dest(q)'
      BY <1>9, <2>1
    <3> QED BY <1>2, <1>9, <2>4, <3>1, <3>2 DEF Free, Usual
  <2>6. Made(todo, Dest(q))' => ~match_protect_dirs(Dest(q))'
    <3>1. w = Dest(q)'
      BY <1>9, <2>1
    <3>2. Made(todo, Dest(q))' => Made(M, w)
      BY <1>3, <3>1 DEF Made, MadeBy
    <3> QED BY <1>9, <2>1, <2>3, <3>2
  <2> QED BY <2>5, <2>6 DEF Settled
<1> QED BY <1>8, <1>10, <1>12, <1>13 DEF Clearing

LEMMA ExecClear ==
    ASSUME ClearReady, TidyAll, Exec
    PROVE  Clearing'
<1>1. ExecOK /\ ExecStep /\ ExecPhases /\ UNCHANGED setupVars
  <2>1. ExecOK /\ ExecStep
    BY DEF TidyAll, Exec, TypeOK, CheckOK, ExecOK
  <2>2. UNCHANGED setupVars
    BY <2>1 DEF ExecStep, ExecBegin, ExecRemoveDir, ExecUnlink, ExecMkdir, ExecSetLink, file_copy,
                dir_copy, ExecCommand, ExecEnd, Frame
  <2> QED BY <2>1, <2>2, ExecStepTyped
<1>2. CASE phase' = "failed"
  BY <1>2 DEF Clearing
<1>3. CASE phase = "check" /\ phase' # "failed"
  <2>1. ExecBegin
    BY <1>1, <1>3 DEF ExecStep, ExecRemoveDir, ExecUnlink, ExecMkdir, ExecSetLink, file_copy,
                dir_copy, ExecCommand, ExecEnd, Doing
  <2>2. ~opt.simulate /\ ~opt.no_changes
    BY DEF ClearReady, RestowReady, RestowInv
  <2>3. phase' = "exec" /\ todo' = links /\ UNCHANGED <<fs, setupVars>>
    BY <1>1, <2>1, <2>2 DEF ExecBegin
  <2>4. Rooted /\ DirForDir(links) /\ \A q \in Nodes : Settled(links, q) \/ Coming(q) \/ Entering(q)
    BY <1>3, RestowFacts DEF ClearReady, Clearing
  <2>5. \A q : ~Coming(q) /\ ~Entering(q)
    <3>1. stack \in Seq(Call) /\ Top.kids = {} /\ Len(stack) = 1
      BY <1>1, <2>1 DEF ExecBegin, Planned, ExecOK, CheckOK, CheckTypeOK
    <3>2. \A k \in DOMAIN stack : stack[k].kids = {}
      BY <3>1 DEF Top
    <3> QED BY <1>3, <3>2 DEF Coming, Entering
  <2>6. /\ Nodes' = Nodes /\ Rooted'
        /\ \A q : Free(q)' <=> Free(q)
        /\ \A d : match_protect_dirs(d)' <=> match_protect_dirs(d)
    BY <2>3, <2>4, RestowSame
  <2>7. \A q : Dest(q)' = Dest(q)
    BY <2>3 DEF Dest, setupVars
  <2>8. DirForDir(todo)' /\ \A q \in Nodes : Settled(todo, q)'
    <3>1. DirForDir(todo)'
      BY <2>3, <2>4, <2>6, <2>7 DEF DirForDir, Removes
    <3>2. \A q : (Made(links, Dest(q)) <=> Made(todo, Dest(q))') /\ (ToUnlink(links, q) <=> ToUnlink(todo, q)')
      BY <2>3, <2>7 DEF Made, MadeBy, ToUnlink, Removes
    <3>3. \A q : Settled(links, q) <=> Settled(todo, q)'
      BY <2>3, <2>6, <2>7, <3>2 DEF Settled
    <3> QED BY <2>4, <2>5, <3>1, <3>3
  <2> QED BY <2>3, <2>6, <2>8 DEF Clearing
<1>4. CASE phase = "exec" /\ phase' = "exec"
  BY <1>1, <1>4, TurnClear
<1>5. CASE phase = "exec" /\ phase' = "done"
  <2>1. ToDo /\ OpsTidy(todo)
    BY <1>5 DEF TidyAll, PlanInv, TidyInv, ToDo
  <2>2. fs' = fs /\ todo = <<>>
    BY <1>1, <1>5, <2>1, ExecDoes
  <2>3. Rooted /\ \A q \in Nodes : Settled(todo, q)
    BY <1>5, RestowFacts DEF ClearReady, Clearing
  <2>4. \A q \in Nodes : Free(q)
    <3>1. \A q : ~ToUnlink(todo, q)
      BY <2>2 DEF ToUnlink
    <3> QED BY <2>3, <3>1 DEF Settled
  <2>5. Nodes' = Nodes /\ Rooted' /\ \A q \in Nodes : Free(q)'
    BY <1>1, <2>2, <2>3, <2>4, RestowSame
  <2> QED BY <1>5, <2>5 DEF Clearing
<1> QED BY <1>1, <1>2, <1>3, <1>4, <1>5 DEF ExecPhases
-----------------------------------------------------------------------------
(***************************************************************************)
(* The program.                                                            *)
(***************************************************************************)
RestowAll == FreshAll /\ RestowInv

\* A step of the half at hand keeps what is said of that half.
LEMMA HalfKept ==
    ASSUME RestowAll, UNCHANGED <<host, opt, ptargets, again>>,
           opt.restow /\ opt.unstow => Clearing',
           opt.restow /\ ~opt.unstow => Reinstalling'
    PROVE  RestowInv'
BY DEF RestowAll, RestowInv

\* Any step of check on such a host leaves the lists of the setup alone.
LEMMA CheckLists ==
    ASSUME TidyReady, CheckStep
    PROVE  UNCHANGED ptargets
<1>1. \A n \in Name : ~ChildAutoTraverse(n)
  BY TidyFacts DEF ChildAutoTraverse, match_auto_traverse
<1>2. CASE \E n \in Name : CheckChild(n) \/ CheckDeps(n)
  BY <1>1, <1>2 DEF CheckChild, ChildOwn, ChildExec, ChildCopied, ChildConflict,
       ChildProtected, ChildDir, ChildTraversed, ChildForeign, ChildFolded, ChildMissing,
       CheckDeps, DepsDir, DepsHarmless, DepsConflict, DepsLink, Plan, Skip, Obstacle, Stop,
       setupVars, listVars
<1>3. CASE DepsReturn \/ DiveNotDir \/ DiveCopyDir \/ Dive \/ CheckReturn
  BY <1>3 DEF DepsReturn, DiveNotDir, DiveCopyDir, Dive, CheckReturn, Surface, Enter, Stop,
       setupVars, listVars
<1> QED BY <1>2, <1>3 DEF CheckStep

\* A pass begins: nothing is planned yet.
LEMMA SelectRestow ==
    ASSUME NEW o \in Options, NEW q, Select(q, o),
           UNCHANGED <<host, fs>>, RestowHost(host), ptargets' = {},
           o.restow => ~o.force /\ ~o.simulate /\ ~o.no_changes
    PROVE  RestowInv'
<1>1. /\ opt'.restow = o.restow /\ opt'.force = o.force /\ opt'.simulate = o.simulate
      /\ opt'.no_changes = o.no_changes /\ (o.restow => opt'.unstow)
      /\ again' = o.restow /\ phase' = "begin"
  BY DEF Select, Options
<1>2. Clearing'
  BY <1>1 DEF Clearing
<1>3. RestowHost(host)'
  BY DEF RestowHost, TidyHost, RootsOf
<1> QED BY <1>1, <1>2, <1>3 DEF RestowInv

LEMMA StartRestow ==
    ASSUME RestowAll, NEW c \in Hosts[host].commands, Start(c)
    PROVE  RestowInv'
<1>1. TypeOK /\ RestowHost(host) /\ TidyHost(host)
  BY DEF RestowAll, FreshAll, TidyAll, RestowInv, RestowHost
<1>2. c.opt \in Options
  BY <1>1, HostTyped DEF TypeOK, SetupTypeOK, Command
<1>3. Config.traverse = {} /\ Config.protectTargets = {}
  BY <1>1 DEF RestowHost, TidyHost, Config
<1>4. trav' = {}
  BY <1>3 DEF Start, CheckedLinks
<1>5. ptargets' = {}
  BY <1>3, <1>4 DEF Start, handle_protect_dirs, LinkTargets
<1>6. UNCHANGED <<host, fs>> /\ Select(c.pkgs, c.opt)
  BY DEF Start
<1>7. c.opt.restow => ~c.opt.force /\ ~c.opt.simulate /\ ~c.opt.no_changes
  BY <1>1 DEF RestowHost
<1> QED BY <1>1, <1>2, <1>5, <1>6, <1>7, SelectRestow

\* The stow half begins where the unstow half has left nothing in its way.
LEMMA AgainRestow ==
    ASSUME RestowAll, Again
    PROVE  RestowInv'
<1>1. opt \in Options /\ RestowInv
  BY DEF RestowAll, FreshAll, TidyAll, TypeOK, SetupTypeOK
<1>2. /\ phase = "done" /\ again /\ phase' = "begin" /\ ~again' /\ opt' = [opt EXCEPT !.unstow = FALSE]
      /\ UNCHANGED <<fs, host, listVars, package>>
  BY DEF Again
<1>3. opt.restow /\ Rooted /\ \A q \in Nodes : Free(q)
  BY <1>1, <1>2 DEF RestowInv, Clearing
<1>4. fs' = fs /\ package' = package /\ Config' = Config /\ protect_dirs' = protect_dirs
      /\ host' = host /\ ptargets' = ptargets
  BY <1>2 DEF listVars, Config
<1>5. Nodes' = Nodes /\ Rooted'
  BY <1>3, <1>4 DEF Nodes, match_ignore, match_ignore_file_in_dir, Rooted, Usual
<1>6. \A q : Free(q)' <=> Free(q)
  <2>1. \A d : match_protect_dirs(d)' <=> match_protect_dirs(d)
    BY <1>4 DEF match_protect_dirs
  <2>2. \A q : Dest(q)' = Dest(q)
    BY <1>4 DEF Dest
  <2> QED BY <1>4, <2>1, <2>2 DEF Free, Usual, match_ignore_file_in_dir
<1>7. Reinstalling'
  BY <1>2, <1>3, <1>5, <1>6 DEF Reinstalling
<1>8. /\ opt'.restow = opt.restow /\ opt'.force = opt.force /\ opt'.simulate = opt.simulate
      /\ opt'.no_changes = opt.no_changes /\ ~opt'.unstow
  BY <1>1, <1>2 DEF Options
<1> QED BY <1>1, <1>2, <1>4, <1>7, <1>8 DEF RestowInv, RestowHost, TidyHost, RootsOf

\* Outside the passes there is nothing to say.
LEMMA QuitRestow ==
    ASSUME RestowAll, NEW code, Quit(code)
    PROVE  RestowInv'
BY DEF RestowAll, RestowInv, RestowHost, TidyHost, RootsOf, Quit, NoOptions

LEMMA RestowNext ==
    ASSUME RestowAll, [Next]_vars
    PROVE  RestowInv'
<1>1. /\ TidyAll /\ RestowInv /\ TypeOK /\ PlanInv /\ TidyInv /\ FreshInv /\ RestowHost(host)
      /\ Hosts[host].edits = {} /\ opt \in Options
  BY DEF RestowAll, FreshAll, TidyAll, RestowInv, RestowHost, TypeOK, SetupTypeOK
<1>2. opt.restow => Undisturbed
  BY <1>1 DEF RestowInv, Undisturbed
<1>3. ASSUME opt.restow, phase \in {"begin", "check", "deps", "dive", "exec", "done"}, CheckOK, PlannerOK
      PROVE  RestowReady
  <2>1. TidyReady /\ StowDir \in stow_dirs
    BY <1>1, <1>3, TidyIsStraight DEF TidyReady, PlanInv
  <2> QED BY <1>1, <1>2, <1>3, <2>1 DEF RestowReady, FreshReady
<1>4. CheckOK /\ PlannerOK
  BY <1>1 DEF TypeOK, CheckOK, PlanInv
<1>5. CASE \E c \in Hosts[host].commands : Start(c)
  BY <1>5, StartRestow
<1>6. CASE \E c \in Hosts[host].commands : StartUnknown(c)
  <2>1. UNCHANGED <<fs, setupVars, phase, checkVars, execVars, queue, again, before>>
    BY <1>6 DEF StartUnknown
  <2>2. phase = "idle"
    BY <1>6 DEF StartUnknown
  <2>3. UNCHANGED <<host, opt, ptargets, again>> /\ phase' = "idle"
    BY <2>1, <2>2 DEF setupVars, listVars
  <2> QED BY <2>3, HalfKept DEF Clearing, Reinstalling
<1>7. CASE BeginPass
  <2>1. phase = "begin" /\ UNCHANGED <<host, opt, ptargets, again>>
    BY <1>7 DEF BeginPass, Enter, Stop, setupVars, listVars
  <2>2. links = <<>>
    BY <1>1, <2>1 DEF PlanInv
  <2>3. opt.restow => RestowReady
    BY <1>3, <1>4, <2>1
  <2>4. opt.restow /\ opt.unstow => Clearing'
    BY <1>7, <2>2, <2>3, BeginClear DEF ClearReady
  <2>5. opt.restow /\ ~opt.unstow => Reinstalling'
    BY <1>7, <2>3, BeginInstalls DEF InstallReady
  <2> QED BY <2>1, <2>4, <2>5, HalfKept
<1>8. CASE Check
  <2>1. CheckStep /\ phase \in Planning
    BY <1>4, <1>8, CheckStepTyped DEF Check, PlanStep
  <2>2. phase \in {"check", "deps", "dive"}
    BY <2>1 DEF Planning
  <2>3. TidyReady
    BY <1>1, <1>4, <2>2, TidyIsStraight DEF TidyReady, PlanInv
  <2>4. UNCHANGED ptargets /\ UNCHANGED <<opt, package>>
    BY <2>1, <2>3, CheckLists, CheckFrame
  <2>5. UNCHANGED <<host, again>>
    BY <1>8, HostKept DEF Check, mainVars
  <2>6. opt.restow => RestowReady
    BY <1>3, <1>4, <2>2
  <2>7. opt.restow /\ opt.unstow => Clearing'
    BY <2>1, <2>6, CheckStepClear DEF ClearReady
  <2>8. opt.restow /\ ~opt.unstow => Reinstalling'
    BY <2>1, <2>6, CheckStepInstalls DEF InstallReady
  <2> QED BY <2>4, <2>5, <2>7, <2>8, HalfKept
<1>9. CASE Exec
  <2>1. ExecOK /\ ExecStep
    BY <1>1, <1>9 DEF Exec, TypeOK, CheckOK, ExecOK
  <2>2. ExecPhases
    BY <2>1, ExecStepTyped
  <2>3. phase \in {"check", "exec"} /\ phase' \in {"exec", "done", "failed"}
    BY <2>2 DEF ExecPhases
  <2>4. UNCHANGED setupVars
    BY <2>1 DEF ExecStep, ExecBegin, ExecRemoveDir, ExecUnlink, ExecMkdir, ExecSetLink, file_copy,
                dir_copy, ExecCommand, ExecEnd, Frame
  <2>5. UNCHANGED <<host, opt, ptargets, again>>
    BY <1>9, <2>4 DEF setupVars, listVars, Exec, mainVars
  <2>6. opt.restow => RestowReady
    BY <1>3, <1>4, <2>3
  <2>7. opt.restow /\ opt.unstow => Clearing'
    BY <1>1, <1>9, <2>6, ExecClear DEF ClearReady
  <2>8. Reinstalling'
    BY <2>3 DEF Reinstalling
  <2> QED BY <2>5, <2>7, <2>8, HalfKept
<1>10. CASE Again
  BY <1>10, AgainRestow
<1>11. CASE NextPackage
  <2>1. Select(Tail(queue), opt) /\ UNCHANGED <<host, fs>> /\ UNCHANGED listVars
    BY <1>11 DEF NextPackage
  <2>2. ptargets' = {}
    BY <1>1, <2>1 DEF listVars, RestowInv
  <2>3. opt.restow => ~opt.force /\ ~opt.simulate /\ ~opt.no_changes
    BY <1>1 DEF RestowInv
  <2> QED BY <1>1, <2>1, <2>2, <2>3, SelectRestow
<1>12. CASE Return \/ Die
  <2>1. PICK code : Quit(code)
    BY <1>12 DEF Return, Die
  <2> QED BY <2>1, QuitRestow
<1>13. ~UserEdit
  BY <1>1 DEF UserEdit
<1>14. CASE UNCHANGED vars
  <2>1. UNCHANGED <<fs, setupVars>> /\ UNCHANGED <<phase, stack, deps, at, links, todo, again>>
    BY <1>14 DEF vars, checkVars, execVars, mainVars
  <2>2. UNCHANGED <<host, opt, ptargets, again>> /\ UNCHANGED <<fs, package, protect_dirs>>
    BY <2>1 DEF setupVars, listVars
  <2>3. /\ Nodes' = Nodes /\ (Rooted' <=> Rooted)
        /\ \A q : Free(q)' <=> Free(q)
        /\ \A d : match_protect_dirs(d)' <=> match_protect_dirs(d)
    BY <2>1, RestowSame
  <2>4. \A q : Dest(q)' = Dest(q)
    BY <2>2 DEF Dest
  <2>5. /\ DirForDir(links)' <=> DirForDir(links)
        /\ DirForDir(todo)' <=> DirForDir(todo)
        /\ InView(links)' <=> InView(links)
        /\ \A q : ToUnlink(links, q)' <=> ToUnlink(links, q)
        /\ \A q : ToUnlink(todo, q)' <=> ToUnlink(todo, q)
    BY <2>1, <2>3, <2>4 DEF DirForDir, InView, ToUnlink, Removes
  <2>6. \A q : (Settled(links, q)' <=> Settled(links, q)) /\ (Settled(todo, q)' <=> Settled(todo, q))
    BY <2>1, <2>3, <2>4, <2>5 DEF Settled, Made, MadeBy
  <2>7. \A q : (Coming(q)' <=> Coming(q)) /\ (Entering(q)' <=> Entering(q))
    BY <2>1 DEF Coming, Entering
  <2>8. opt.restow /\ opt.unstow => Clearing'
    BY <1>1, <2>1, <2>3, <2>5, <2>6, <2>7 DEF RestowInv, Clearing
  <2>9. opt.restow /\ ~opt.unstow => Reinstalling'
    BY <1>1, <2>1, <2>3 DEF RestowInv, Reinstalling
  <2> QED BY <2>2, <2>8, <2>9, HalfKept
<1> QED BY <1>5, <1>6, <1>7, <1>8, <1>9, <1>10, <1>11, <1>12, <1>13, <1>14 DEF Next, Process, User

\* On a tidy host with the stow directory below the target, without protect
\* targets and nobody else at work, when -R is carried out and has no -f, its
\* stow half neither meets a conflict nor breaks off (xstow.pod, -R: "same
\* like -delete followed by an reinstall"): what check of the unstow half saw
\* at the names of the package it can go into again or has removed.
THEOREM RestowSucceeds == Spec /\ RestowHost(host) => []RestowWorks
<1>1. Spec /\ RestowHost(host) => []FreshAll
  BY FreshStays DEF RestowHost
<1>2. Spec /\ RestowHost(host) => []PlanWorks
  BY PlansWork DEF RestowHost
<1>3. Init /\ RestowHost(host) => RestowInv
  BY DEF Init, RestowInv, NoOptions
<1>4. FreshAll /\ RestowInv /\ [Next]_vars => RestowInv'
  BY RestowNext DEF RestowAll
<1>5. RestowInv /\ PlanWorks => RestowWorks
  BY DEF RestowInv, PlanWorks, RestowWorks, Reinstalling, RestowHost
<1> QED BY <1>1, <1>2, <1>3, <1>4, <1>5, PTL DEF Spec
=============================================================================
