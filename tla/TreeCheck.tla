----------------------------- MODULE TreeCheck -----------------------------
(***************************************************************************)
(* Tree::check and Tree::checkDirs of src/src/tree.cpp: the planner.  It   *)
(* compares the tree of a package with the target and writes the list of   *)
(* operations ("links") that Tree::exec_list will carry out.  It reads the *)
(* disk and never changes it.                                              *)
(*                                                                         *)
(* The two recursive functions are a machine with two stacks: "stack" has  *)
(* a frame per active call of check, "deps" one per active call of         *)
(* checkDirs.  A step handles one child.  The children of a directory come *)
(* in the order readdir gives, which is any order.                         *)
(***************************************************************************)
EXTENDS NIgnore

VARIABLES
    phase,      \* what the process is doing
    stack,      \* active calls of check, the innermost last
    deps,       \* active calls of checkDirs, the innermost last
    at,         \* the child check is about to dive into
    links       \* the plan

checkVars == <<stack, deps, at, links>>

Phases == {"idle", "begin", "check", "deps", "dive", "exec", "done",
           "refused", "failed", "aborted"}

Op == [act    : {"REMOVE", "MKDIR", "SET_LINK", "COPY", "COPY_DIR", "EXEC"},
       origin : Path, target : Path,
       exec   : {"", "exec", "exec-unstow"},
       sub    : BOOLEAN]        \* a step of a running dir_copy

MkOp(a, o, t, e) == [act |-> a, origin |-> o, target |-> t, exec |-> e, sub |-> FALSE]
RemoveOp(p)      == MkOp("REMOVE", p, <<>>, "")
MkdirOp(p)       == MkOp("MKDIR", <<>>, p, "")
LinkOp(o, t)     == MkOp("SET_LINK", o, t, "")

Call     == [dir : Path, base : Path, kids : SUBSET Name]
DepsCall == [a : Path, b : Path, w : Path, common : SUBSET Name, rest : SUBSET Name]
Child    == [entry : Path, into : Path, base : Path]

Nowhere == [entry |-> <<>>, into |-> <<>>, base |-> <<>>]

CheckTypeOK ==
    /\ phase \in Phases
    /\ stack \in Seq(Call) /\ deps \in Seq(DepsCall)
    /\ at \in Child /\ links \in Seq(Op)
    /\ phase = "check" => stack # <<>>
    /\ phase = "deps" => stack # <<>> /\ deps # <<>>
    /\ phase = "dive" => stack # <<>>

-----------------------------------------------------------------------------
\* operator== of two links, which does not look at the command.
SameOp(k, l) == k.act = l.act /\ k.origin = l.origin /\ k.target = l.target

\* Mutant of Push: a plan that unify_links has not gone over.
PushAll(plan, l) == Append(plan, l)

\* push_back, with the effect unify_links has before the list is executed:
\* only the first of equal operations counts.
Push(plan, l) == IF \E i \in DOMAIN plan : SameOp(plan[i], l) THEN plan ELSE Append(plan, l)

\* Node::type, and the children Node::scan keeps.
IsDirNode(p) == DirAt(fs, p)
IgnoredFile(dir, n) ==
    ~IsDirNode(Append(dir, n))
        /\ (match_ignore(n) \/ match_ignore_file_in_dir(package, Append(dir, n)))
Children(dir) == {n \in Entries(fs, dir) : Passes(dir) /\ ~IgnoredFile(dir, n)}

Copied(n, file) == match_copy(n) \/ match_copy_file_in_dir(package, file)

Top     == stack[Len(stack)]
Base(n) == Append(Top.base, n)      \* the child in the package
There(n) == Append(Top.dir, n)      \* the same name in the target

Done(n)  == stack' = [stack EXCEPT ![Len(stack)].kids = @ \ {n}]
Skip(n)  == Done(n) /\ UNCHANGED <<phase, deps, at, links, setupVars, fs>>
Plan(n, l) == Done(n) /\ links' = Push(links, l) /\ UNCHANGED <<phase, deps, at, setupVars, fs>>

Stop(p)  == phase' = p /\ UNCHANGED <<checkVars, setupVars, fs>>

\* An obstacle at child n: check fails, in force mode it skips the child.
Obstacle(n) == IF opt.force THEN Skip(n) ELSE Stop("refused")

\* Mutant of Usable: no look at the write permission.
UsableUnchecked(dir) == DirAt(fs, dir) /\ Readable(fs, dir)

\* The directory tests at the head of check.
Usable(dir) ==
    /\ DirAt(fs, dir) /\ Readable(fs, dir)
    /\ Writable(fs, dir) \/ opt.simulate \/ opt.force

\* A call check(dir, base), when "frames" are the calls above it.
Enter(dir, base, frames) ==
    IF ~Usable(dir) THEN Stop("refused")
    ELSE IF ~Readable(fs, base) THEN Stop("aborted")     \* getChilds() is null
    ELSE /\ stack' = Append(frames, [dir |-> dir, base |-> base, kids |-> Children(base)])
         /\ phase' = "check"
         /\ at' = Nowhere
         /\ UNCHANGED <<deps, links, setupVars, fs>>
-----------------------------------------------------------------------------
(***************************************************************************)
(* A child of the package whose name the target directory has too.         *)
(***************************************************************************)
Found(n) == phase = "check" /\ n \in Top.kids /\ Lexists(fs, There(n))

OwnLink(n) == LinkAt(fs, There(n)) /\ LinkBuf(fs, There(n)) = Base(n)

\* Mutant of ChildOwn: unstow forgets the links of folded directories.
ChildOwnFiles(n) ==
    /\ Found(n) /\ OwnLink(n)
    /\ IF opt.unstow /\ ~IsDirNode(Base(n)) THEN Plan(n, RemoveOp(There(n))) ELSE Skip(n)

\* Mutant of ChildOwn: the link is planned again.
ChildOwnAgain(n) ==
    /\ Found(n) /\ OwnLink(n)
    /\ Plan(n, IF opt.unstow THEN RemoveOp(There(n)) ELSE LinkOp(Base(n), There(n)))

\* The link of this package: unstow removes it.
ChildOwn(n) ==
    /\ Found(n) /\ OwnLink(n)
    /\ IF opt.unstow THEN Plan(n, RemoveOp(There(n))) ELSE Skip(n)

FoundFile(n) == Found(n) /\ ~OwnLink(n) /\ ~IsDirNode(Base(n))
FoundDir(n)  == Found(n) /\ ~OwnLink(n) /\ IsDirNode(Base(n))

ChildExec(n) ==
    /\ FoundFile(n) /\ match_exec(n)
    /\ Plan(n, MkOp("EXEC", Base(n), There(n), exec_of(n)))

\* A copied file is copied again; unstow leaves it where it is.
ChildCopied(n) ==
    /\ FoundFile(n) /\ ~match_exec(n) /\ Copied(n, Base(n))
    /\ IF opt.unstow THEN Skip(n) ELSE Plan(n, MkOp("COPY", Base(n), There(n), ""))

ChildConflict(n) ==
    /\ FoundFile(n) /\ ~match_exec(n) /\ ~Copied(n, Base(n))
    /\ IF match_ignore(n) \/ match_ignore_file_in_dir(Top.base, Base(n))
       THEN Skip(n) ELSE Obstacle(n)

ChildProtected(n) ==
    /\ FoundDir(n) /\ match_protect_dirs(There(n))
    /\ Obstacle(n)

\* Go on with the directory: "into" is the target directory to check.
DiveTo(n, into) ==
    /\ Done(n)
    /\ at' = [entry |-> There(n), into |-> into, base |-> Base(n)]
    /\ phase' = "dive"

OpenDir(n)      == FoundDir(n) /\ ~match_protect_dirs(There(n))
LinkedDir(n)    == OpenDir(n) /\ LinkAt(fs, There(n)) /\ There(n) \notin trav
Buf(n)          == LinkBuf(fs, There(n))

\* Mutant of OtherPackage: every link is taken for a package's.
AnyLink(n) == TRUE

\* A link into a stow directory: another package (or another place of this
\* one) has been folded here.
OtherPackage(n) == match_stow_dirs(Buf(n)) \/ match_auto_stow_dirs(Buf(n))

ChildDir(n) ==
    /\ OpenDir(n) /\ ~LinkAt(fs, There(n))
    /\ DiveTo(n, There(n))
    /\ UNCHANGED <<deps, links, setupVars, fs>>

ChildTraversed(n) ==
    /\ OpenDir(n) /\ LinkAt(fs, There(n)) /\ There(n) \in trav
    /\ DiveTo(n, Buf(n))
    /\ UNCHANGED <<deps, links, setupVars, fs>>

\* The link becomes a traversable one, the lists that depend on it are
\* computed again.
ChildAutoTraverse(n) ==
    /\ LinkedDir(n) /\ ~OtherPackage(n) /\ match_auto_traverse(Buf(n))
    /\ trav' = trav \cup CheckedLinks(fs, {There(n)})
    /\ keep' = handle_keep_dirs(fs, trav', keep)
    /\ ptargets' = handle_protect_dirs(fs, trav', ptargets)
    /\ DiveTo(n, Buf(n))
    /\ UNCHANGED <<deps, links, host, opt, stow_dirs, protect_dirs, package, fs>>

ChildForeign(n) ==
    /\ LinkedDir(n) /\ ~OtherPackage(n) /\ ~match_auto_traverse(Buf(n))
    /\ Obstacle(n)

\* A call checkDirs(a, b, w): the plan gets the directory; a node without a
\* list of children is a null reference.
CheckDirs(a, b, w, frames, plan) ==
    IF Readable(fs, a) /\ Readable(fs, b)
    THEN /\ links' = plan
         /\ deps' = Append(frames,
                [a |-> a, b |-> b, w |-> w,
                 common |-> Children(a) \cap Children(b),
                 rest   |-> Children(b) \ Children(a)])
         /\ phase' = "deps"
    ELSE phase' = "aborted" /\ UNCHANGED <<links, deps>>

\* Mutant of ChildFolded: check dives through the link of the other package.
ChildFoldedDives(n) ==
    /\ LinkedDir(n) /\ OtherPackage(n)
    /\ DiveTo(n, There(n))
    /\ UNCHANGED <<deps, links, setupVars, fs>>

\* The folded directory of another package is unfolded: its link goes, a
\* directory comes, filled with links to what was seen through the link.
ChildFolded(n) ==
    /\ LinkedDir(n) /\ OtherPackage(n)
    /\ CheckDirs(Base(n), Buf(n), There(n), <<>>,
                 Push(Push(links, RemoveOp(There(n))), MkdirOp(There(n))))
    /\ Done(n)
    /\ at' = [entry |-> There(n), into |-> There(n), base |-> Base(n)]
    /\ UNCHANGED <<setupVars, fs>>
-----------------------------------------------------------------------------
(***************************************************************************)
(* A child whose name the target directory does not have.                  *)
(***************************************************************************)
Missing(n) == phase = "check" /\ n \in Top.kids /\ ~Lexists(fs, There(n))

Install(n) ==
    IF match_copy(n) \/ (~IsDirNode(Base(n)) /\ Copied(n, Base(n)))
    THEN MkOp(IF IsDirNode(Base(n)) THEN "COPY_DIR" ELSE "COPY", Base(n), There(n), "")
    ELSE LinkOp(Base(n), There(n))

\* Mutant of ChildMissing: the protect targets are not looked at.
ChildMissingUnprotected(n) ==
    /\ Missing(n)
    /\ IF opt.unstow \/ match_ignore(n) THEN Skip(n) ELSE Plan(n, Install(n))

\* In force mode the message says "Skipping", and the code goes on.
ChildMissing(n) ==
    /\ Missing(n)
    /\ IF opt.unstow \/ match_ignore(n) THEN Skip(n)
       ELSE IF match_protect_targets(There(n)) \/ opt.force THEN Plan(n, Install(n))
       ELSE Stop("refused")
-----------------------------------------------------------------------------
(***************************************************************************)
(* checkDirs: the names both packages have, then the links for the names   *)
(* only the other package has.                                             *)
(***************************************************************************)
Deps == deps[Len(deps)]

A(n) == Append(Deps.a, n)
B(n) == Append(Deps.b, n)
W(n) == Append(Deps.w, n)

Shared(n) == phase = "deps" /\ n \in Deps.common
Handled(n) == [deps EXCEPT ![Len(deps)].common = @ \ {n}]

DepsDir(n) ==
    /\ Shared(n) /\ IsDirNode(A(n)) /\ IsDirNode(B(n))
    /\ CheckDirs(A(n), B(n), W(n), Handled(n), Push(links, MkdirOp(W(n))))
    /\ UNCHANGED <<stack, at, setupVars, fs>>

\* Two files of one name pass when this package's is copied or ignored.
Harmless(n) ==
    /\ ~IsDirNode(A(n)) /\ ~IsDirNode(B(n))
    /\ \/ Copied(n, A(n))
       \/ match_ignore(n) \/ match_ignore_file_in_dir(package, A(n))

DepsHarmless(n) ==
    /\ Shared(n) /\ Harmless(n)
    /\ deps' = Handled(n)
    /\ UNCHANGED <<phase, stack, at, links, setupVars, fs>>

\* Every active checkDirs returns false.  In force mode check goes on with
\* the next child, what has been planned stays planned.
DepsConflict(n) ==
    /\ Shared(n) /\ ~Harmless(n) /\ ~(IsDirNode(A(n)) /\ IsDirNode(B(n)))
    /\ IF opt.force
       THEN /\ phase' = "check" /\ deps' = <<>> /\ at' = Nowhere
            /\ UNCHANGED <<stack, links, setupVars, fs>>
       ELSE Stop("refused")

\* Mutant of DepsLink: what only the other package has is not linked again.
DepsLinkLost(n) ==
    /\ phase = "deps" /\ Deps.common = {} /\ n \in Deps.rest
    /\ deps' = [deps EXCEPT ![Len(deps)].rest = @ \ {n}]
    /\ UNCHANGED <<phase, stack, at, links, setupVars, fs>>

DepsLink(n) ==
    /\ phase = "deps" /\ Deps.common = {} /\ n \in Deps.rest
    /\ deps' = [deps EXCEPT ![Len(deps)].rest = @ \ {n}]
    /\ links' = Push(links, LinkOp(B(n), W(n)))
    /\ UNCHANGED <<phase, stack, at, setupVars, fs>>

\* Mutant of DepsReturn: the outermost call does not return to check.
DepsReturnStuck ==
    /\ phase = "deps" /\ Deps.common = {} /\ Deps.rest = {}
    /\ deps' = SubSeq(deps, 1, Len(deps) - 1)
    /\ UNCHANGED <<phase, stack, at, links, setupVars, fs>>

\* After an inner call the directory is pushed a second time, which makes
\* no difference once unify_links has dropped the copy.
DepsReturn ==
    /\ phase = "deps" /\ Deps.common = {} /\ Deps.rest = {}
    /\ deps' = SubSeq(deps, 1, Len(deps) - 1)
    /\ links' = IF Len(deps) > 1 THEN Push(links, MkdirOp(Deps.w)) ELSE links
    /\ phase' = IF Len(deps) > 1 THEN "deps" ELSE "dive"
    /\ UNCHANGED <<stack, at, setupVars, fs>>
-----------------------------------------------------------------------------
(***************************************************************************)
(* After the link has been dealt with: the entry of the target is a        *)
(* directory (perhaps through the link) and check dives into it, or it is  *)
(* something else and the child is done.                                   *)
(***************************************************************************)
DiveName == at.entry[Len(at.entry)]

Surface == /\ phase' = "check" /\ at' = Nowhere
           /\ UNCHANGED <<stack, deps, setupVars, fs>>

\* Mutant of DiveNotDir: a directory may be passed over as well.
DiveNever == phase = "dive" /\ Surface /\ UNCHANGED links

DiveNotDir == phase = "dive" /\ ~DirAt(fs, at.entry) /\ Surface /\ UNCHANGED links

DiveCopyDir ==
    /\ phase = "dive" /\ DirAt(fs, at.entry) /\ match_copy(DiveName)
    /\ Surface
    /\ links' = IF opt.unstow THEN links ELSE Push(links, MkOp("COPY_DIR", at.base, at.entry, ""))

Dive ==
    /\ phase = "dive" /\ DirAt(fs, at.entry) /\ ~match_copy(DiveName)
    /\ Enter(at.into, at.base, stack)

CheckReturn ==
    /\ phase = "check" /\ Top.kids = {} /\ Len(stack) > 1
    /\ stack' = SubSeq(stack, 1, Len(stack) - 1)
    /\ UNCHANGED <<phase, deps, at, links, setupVars, fs>>
-----------------------------------------------------------------------------
CheckChild(n) ==
    \/ ChildOwn(n) \/ ChildExec(n) \/ ChildCopied(n) \/ ChildConflict(n)
    \/ ChildProtected(n) \/ ChildDir(n) \/ ChildTraversed(n)
    \/ ChildAutoTraverse(n) \/ ChildForeign(n) \/ ChildFolded(n)
    \/ ChildMissing(n)

CheckDeps(n) == DepsDir(n) \/ DepsHarmless(n) \/ DepsConflict(n) \/ DepsLink(n)

CheckStep ==
    \/ \E n \in Name : CheckChild(n) \/ CheckDeps(n)
    \/ DepsReturn \/ DiveNotDir \/ DiveCopyDir \/ Dive \/ CheckReturn
=============================================================================
