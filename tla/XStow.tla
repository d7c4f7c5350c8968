------------------------------- MODULE XStow -------------------------------
(***************************************************************************)
(* The program: main() of src/src/main.cpp around the planner and the      *)
(* executor.  A user runs one command after the other on one disk; every   *)
(* command is a process that works through its packages and leaves with an *)
(* exit code.  -R works through a package twice: unstow, then stow.        *)
(***************************************************************************)
EXTENDS TreeExec

CONSTANT MayDie     \* whether a process may be killed (signal, power)

VARIABLES
    queue,      \* packages of the command from the current one on
    again,      \* restow: the stow half is still to come
    rc,         \* exit code of the last process
    before      \* the disk when the current pass over a package began

mainVars == <<queue, again, rc, before>>
vars == <<fs, setupVars, phase, checkVars, execVars, mainVars>>

Killed  == 9        \* stands for the wait status of a killed process
NoOptions == [unstow |-> FALSE, restow |-> FALSE, force |-> FALSE,
              simulate |-> FALSE, no_changes |-> FALSE]

ASSUME MainAssumption == MayDie \in BOOLEAN

MainTypeOK ==
    /\ queue \in Seq(Pkg) /\ again \in BOOLEAN
    /\ rc \in {0, 1, 2, 3, 4, Killed}
    /\ Disk(before)
    /\ phase # "idle" => queue # <<>>

TypeOK == Disk(fs) /\ SetupTypeOK /\ CheckTypeOK /\ ExecTypeOK /\ MainTypeOK

Init ==
    /\ host \in DOMAIN Hosts
    /\ fs \in Hosts[host].disks /\ before = fs
    /\ opt = NoOptions /\ package = <<>>
    /\ trav = {} /\ keep = {} /\ ptargets = {} /\ stow_dirs = {} /\ protect_dirs = {}
    /\ phase = "idle" /\ stack = <<>> /\ deps = <<>> /\ at = Nowhere /\ links = <<>>
    /\ todo = <<>> /\ queue = <<>> /\ again = FALSE /\ rc = 0
-----------------------------------------------------------------------------
\* Mutant of Select: -R stows first.
SelectStowFirst(q, o) ==
    /\ queue' = q
    /\ package' = PkgDir(Head(q))
    /\ again' = o.restow
    /\ opt' = o
    /\ phase' = "begin"

\* The head of the package loop: the current package, and for -R the unstow
\* half first.
Select(q, o) ==
    /\ queue' = q
    /\ package' = PkgDir(Head(q))
    /\ again' = o.restow
    /\ opt' = [o EXCEPT !.unstow = @ \/ o.restow]
    /\ phase' = "begin"

Known(c) == \A i \in DOMAIN c.pkgs : DirAt(fs, PkgDir(c.pkgs[i]))

\* The options are stored, the configuration is read (handle_keep_dirs and
\* handle_protect_dirs follow each file that can be read), -c implies
\* no_changes.
Start(c) ==
    /\ phase = "idle" /\ Known(c)
    /\ Select(c.pkgs, c.opt)
    /\ trav' = CheckedLinks(fs, Config.traverse)
    /\ stow_dirs' = CheckedDirs(fs, {StowDir} \cup Config.stowDirs)
    /\ protect_dirs' = CheckedDirs(fs, Config.protectDirs)
    /\ IF Config.ini
       THEN /\ keep' = handle_keep_dirs(fs, trav', Config.keepDirs)
            /\ ptargets' = handle_protect_dirs(fs, trav', Config.protectTargets)
       ELSE keep' = Config.keepDirs /\ ptargets' = Config.protectTargets
    /\ UNCHANGED <<host, fs, checkVars, execVars, rc, before>>

\* A name that is not a directory of the stow directory: nothing is done.
StartUnknown(c) ==
    /\ phase = "idle" /\ ~Known(c)
    /\ rc' = 1
    /\ UNCHANGED <<fs, setupVars, phase, checkVars, execVars, queue, again, before>>

\* START: the trees are made and check begins at the target.
BeginPass ==
    /\ phase = "begin"
    /\ before' = fs
    /\ Enter(Target, package, <<>>)
    /\ UNCHANGED <<execVars, queue, again, rc>>

\* Mutant of Again: the flag is not taken back.
AgainForever ==
    /\ phase = "done" /\ again
    /\ opt' = [opt EXCEPT !.unstow = FALSE]
    /\ phase' = "begin"
    /\ UNCHANGED <<fs, host, listVars, package, checkVars, execVars, queue,
                   again, rc, before>>

Again ==
    /\ phase = "done" /\ again
    /\ again' = FALSE
    /\ opt' = [opt EXCEPT !.unstow = FALSE]
    /\ phase' = "begin"
    /\ UNCHANGED <<fs, host, listVars, package, checkVars, execVars, queue, rc, before>>

NextPackage ==
    /\ phase = "done" /\ ~again /\ Len(queue) > 1
    /\ Select(Tail(queue), opt)
    /\ UNCHANGED <<fs, host, listVars, checkVars, execVars, rc, before>>

\* The end of the process, which takes its memory with it.
Quit(code) ==
    /\ phase' = "idle" /\ rc' = code
    /\ opt' = NoOptions /\ package' = <<>>
    /\ trav' = {} /\ keep' = {} /\ ptargets' = {} /\ stow_dirs' = {} /\ protect_dirs' = {}
    /\ stack' = <<>> /\ deps' = <<>> /\ at' = Nowhere /\ links' = <<>>
    /\ todo' = <<>> /\ queue' = <<>> /\ again' = FALSE
    /\ before' = fs
    /\ UNCHANGED <<fs, host>>

Return ==
    \/ phase = "done" /\ ~again /\ Len(queue) = 1 /\ Quit(0)
    \/ phase = "aborted" /\ Quit(2)
    \/ phase = "failed" /\ Quit(3)
    \/ phase = "refused" /\ Quit(4)

StowRoots == {StowDir} \cup Config.stowDirs

Check == CheckStep /\ UNCHANGED <<execVars, mainVars>>
Exec  == ExecStep /\ UNCHANGED mainVars

\* Death between two operations; elsewhere the disk is as it was before.
Die == MayDie /\ phase = "exec" /\ Quit(Killed)

\* The user makes a file, a link or a directory outside the stow directories
\* while the plan is carried out; what is made before check reads a directory
\* might as well have been there before the command.
UserEdit ==
    /\ phase = "exec"
    /\ \E e \in Hosts[host].edits :
          /\ CanMake(fs, e.place) /\ ~\E d \in StowRoots : IsInDir(Loc(fs, e.place), d)
          /\ fs' = Put(fs, Loc(fs, e.place), e.node)
    /\ UNCHANGED <<setupVars, phase, checkVars, execVars, mainVars>>

Process == BeginPass \/ Check \/ Exec \/ Again \/ NextPackage \/ Return
User == \E c \in Hosts[host].commands : Start(c) \/ StartUnknown(c)
Next == User \/ UserEdit \/ Process \/ Die

\* The kernel runs the process; nothing makes a user give a command.
Spec == Init /\ [][Next]_vars /\ WF_vars(Process)
-----------------------------------------------------------------------------
(***************************************************************************)
(* What the target shows of a package.                                     *)
(***************************************************************************)
\* The files below the package directory dir, as paths relative to it.  A
\* dead link is a file.
FilesOf(F, dir) ==
    {After(q, dir) : q \in {r \in DOMAIN F : IsStrictPrefix(dir, r) /\ F[r].kind # "dir"}}

\* File f of the package dir is reached under its name in the target.
Shows(F, dir, f) == Lead(F, Target \o f) = dir \o f

Shown(F, dir) == {f \in FilesOf(F, dir) : Shows(F, dir, f)}

\* All of a package has its place: what it has is seen there, or it is a
\* directory and so is the place.
InPlace(F, dir) ==
    \A q \in DOMAIN F : IsStrictPrefix(dir, q) =>
        \/ Shows(F, dir, After(q, dir))
        \/ IsDir(F, q) /\ IsDir(F, Target \o After(q, dir))

Dry      == opt.simulate \/ opt.no_changes
Finished == phase = "done" /\ ~Dry

Managed(p) == match_stow_dirs(p) \/ match_auto_stow_dirs(p)
Place(op)  == IF op.act = "REMOVE" THEN op.origin ELSE op.target

\* The package directories of all stow directories but the current one.
OtherPackages == {Append(d, n) : d \in StowRoots, n \in Name} \ {package}

\* What the configuration leaves of the current package to be installed: no
\* name is ignored, and every directory on the way passes.
Skipped(dir, f) == \E i \in 1..(Len(f) - 1) : ~Passes(dir \o SubSeq(f, 1, i))
Ignored(f) ==
    \/ f \in Config.ignoreInDir \/ \E i \in DOMAIN f : match_ignore(f[i])
    \/ ~Passes(package) \/ Skipped(package, f)
Wanted == {f \in FilesOf(fs, package) : ~Ignored(f)}

\* A file is there as a link, or as a copy with its content; what becomes of
\* one with a command is the command's affair.
ToCopy(f) == f \in Config.copyInDir \/ \E i \in DOMAIN f : match_copy(f[i])
Copies == {f \in FilesOf(fs, package) : ToCopy(f)}
Installed(f) ==
    \/ Shows(fs, package, f)
    \/ ToCopy(f) /\ IsFile(fs, Target \o f) /\ fs[Target \o f] = fs[package \o f]
    \/ match_exec(f[Len(f)])
-----------------------------------------------------------------------------
(***************************************************************************)
(* Safety.                                                                 *)
(***************************************************************************)
\* No operation touches what lies below a stow directory: packages are
\* linked to, never written (exec_list; README.md, "keeping them separate").
PackagesIntact ==
    [][\A p \in DOMAIN fs \cup DOMAIN fs' :
          (\E d \in StowRoots : IsInDir(p, d))
             => p \in DOMAIN fs \cap DOMAIN fs' /\ fs'[p] = fs[p]]_vars

\* The operation about to be executed names its place directly: no directory
\* on the way to it is a link, so what check saw through a folded directory
\* is not changed through it (the REMOVE and MKDIR that unfold it are before
\* it in the list).
NoWriteThroughLink ==
    phase = "exec" /\ todo # <<>> => LinksAbove(fs, Place(Current)) = {}

\* Names that the configuration hands to a copy or to a command.
Rewritable(p) ==
    \/ \E i \in DOMAIN p : match_copy(p[i]) \/ match_exec(p[i])
    \/ \E f \in Config.copyInDir : p = Target \o f

\* A file or a link that is not XStow's stays what it is, whatever commands
\* are given: check refuses or skips it, exec_list never meets it.
ForeignKept ==
    [][\A p \in DOMAIN fs :
          fs[p].kind = "file" \/ (fs[p].kind = "link" /\ ~Managed(fs[p].ref))
             => Rewritable(p) \/ (p \in DOMAIN fs' /\ fs'[p] = fs[p])]_vars

\* A pass over one package takes nothing of another package out of sight: a
\* directory that checkDirs unfolded shows what the fold showed, except that
\* a file this package copies takes its place, and that the names this run is
\* told to ignore are not linked again.
Unlinked(p, f) ==
    /\ LinksAbove(before, Target \o f) # {}
    /\ match_ignore(f[Len(f)]) \/ Skipped(p, f)

KeepsOthers ==
    Finished =>
        \A p \in OtherPackages : \A f \in Shown(before, p) :
            ToCopy(f) \/ Unlinked(p, f) \/ Shows(fs, p, f)

OthersKept == ~opt.force => KeepsOthers

\* The same in force mode, where a conflict skips the file and no more
\* (check, "ignoring cause XStow is in force mode", "The file will be
\* skipped").
ForceOthersKept == opt.force => KeepsOthers

\* A stow pass that ends with success has installed every file of the
\* package (xstow.pod, exit code 0, "On success").
Complete ==
    Finished /\ ~opt.unstow /\ ~opt.force => \A f \in Wanted : Installed(f)

\* An unstow pass that ends with success leaves no link into the package,
\* except to what the patterns tell it to ignore.
Gone ==
    Finished /\ opt.unstow =>
        \A l \in DOMAIN fs : fs[l].kind = "link" /\ IsInDir(fs[l].ref, package)
            => \E f \in FilesOf(fs, package) : Ignored(f) /\ fs[l].ref = package \o f

\* A plan that check accepted for installing can be carried out to its end,
\* when nobody else changes the target: conflicts are found before the first
\* change, so that -c can report them (xstow.pod, exit codes 3 and 4).
PlanWorks == phase = "failed" => opt.unstow \/ opt.force \/ Hosts[host].edits # {}

\* unstow leaves no directory empty that was not empty before, except the
\* ones to keep and one that was unfolded where the patterns of this run copy
\* or ignore a file: the other package's file of that name is not linked again
\* (exec_list, "remove empty directories"; checkDirs).
NoEmptyDirsLeft ==
    Finished /\ opt.unstow /\ ~opt.force =>
        \A d \in DOMAIN fs :
            fs[d].kind = "dir" /\ Entries(fs, d) = {} /\ ~keep_dir(fs, d)
                => \/ d \in DOMAIN before /\ Entries(before, d) = {}
                   \/ \E f \in Copies : IsStrictPrefix(d, Target \o f)
                   \/ \E p \in OtherPackages : \E f \in Shown(before, p) :
                         Unlinked(p, f) /\ IsStrictPrefix(d, Target \o f)

\* Stowing what is installed already has nothing to do: every link is found
\* to be its own (check, "link is part of the own package").
Idempotent == Planned /\ ~opt.unstow /\ InPlace(fs, package) => links = <<>>

\* check fails before anything is changed, dry runs change nothing.
NothingDone ==
    phase \in {"refused", "aborted"} \/ (phase = "done" /\ Dry) => fs = before

\* When the unstow half of -R has worked, the stow half works too
\* (xstow.pod, -R: "same like -delete followed by an reinstall").
RestowWorks == opt.restow /\ ~opt.unstow => phase \notin {"refused", "failed"}

\* A package that is installed completely can be unstowed.
UnstowWorks ==
    phase = "failed" /\ opt.unstow
        => ~(FilesOf(before, package) \subseteq Shown(before, package))

\* The directory a name of the keep list leads to is never removed, by
\* whichever name unstow comes to it (keep_dir compares inodes too).
KeptDirsStay ==
    [][\A k \in keep : DirAt(fs, k) => IsDir(fs', Stat(fs, k))]_vars

\* Nor is a directory whose name ends as a relative entry of [keep-dirs].
KeptEndsStay ==
    [][\A d \in DOMAIN fs :
          IsDir(fs, d) /\ (\E k \in Config.keepEnds : IsSuffix(k, d)) => IsDir(fs', d)]_vars

\* With keep-targets what the traversable links lead to stays, whichever
\* name it is unstowed by.
TraversedStays ==
    [][\A l \in Config.traverse : Config.keepTargets /\ DirAt(fs, l) => DirAt(fs', l)]_vars

\* Nothing new comes up in a protected directory of the target, or outside the
\* protect targets when there are any.  (A protected name that is seen through
\* a folded directory becomes a link when that is unfolded.)
ProtectionHolds ==
    [][\A p \in DOMAIN fs' \ DOMAIN fs :
          /\ \A d \in protect_dirs : IsDir(fs, d) => ~IsInDir(p, d)
          /\ match_protect_targets(p)]_vars

\* Every rmdir is for an empty directory (exec_list, "remove empty
\* directories": the list entry is made when the directory is seen empty).
RmdirOnlyEmpty ==
    phase = "exec" /\ todo # <<>> /\ Current.act = "REMOVE"
        /\ IsDir(fs, Loc(fs, Current.origin)) /\ ~keep_dir(fs, Current.origin)
            => Entries(fs, Current.origin) = {}
-----------------------------------------------------------------------------
(***************************************************************************)
(* The nignore rules, read as the manual describes them.                   *)
(***************************************************************************)
Below(d, t) == IsPrefix(d \o <<"/">>, t)

\* The directories a rule names: its own, those its patterns match and, with
\* "follow", those below its own.
Names(r, t) ==
    \/ t \in r.dir \/ t \in r.glob
    \/ r.follow /\ \E d \in r.dir : Below(d, t)

\* t is made of one piece per rule: each but the last is a directory of its
\* rule, the last one is what its rule names.
Covers(chain, t) ==
    \E k \in DOMAIN chain : \E end \in [0..k -> 0..Len(t)] :
        LET piece(j) == SubSeq(t, end[j - 1] + 1, end[j])
        IN  /\ end[0] = 0 /\ end[k] = Len(t)
            /\ \A j \in 1..(k - 1) : piece(j) \in chain[j].dir
            /\ Names(chain[k], piece(k))

Covered(t) == \E i \in DOMAIN Config.nignores : Covers(Config.nignores[i], t)

\* Where a directory of r begins t, a name of t ends.
EndsAtName(r, t) == \A d \in Begins(r, t) : d = t \/ Below(d, t)

\* The chain can be read in one way only: no name of t goes on where a
\* directory of a rule ends, and what a shorter directory of the first rule
\* leaves is not named by the second.
Unambiguous(chain, t) ==
    chain # <<>> =>
        LET begun   == Begins(chain[1], t)
            rest(d) == SubSeq(t, Len(d) + 1, Len(t))
        IN  /\ EndsAtName(chain[1], t)
            /\ 2 \in DOMAIN chain =>
                  /\ \A d \in begun : EndsAtName(chain[2], rest(d))
                  /\ \A d, e \in begun :
                        Len(d) < Len(e) /\ e # t => ~Names(chain[2], rest(d))

\* Below the package directory a chain of one or two rules accepts exactly what
\* its rules name, where it is clear what that is (match_dir and its strip
\* text; as dir = /lib begins /lib64, match_dir accepts or cuts that as well).
\* The rules are tried on all that the names could make, one or two deep.
NIgnoreAsNamed ==
    phase = "begin" =>
        \A i \in DOMAIN Config.nignores : \A l \in 1..2 : \A rel \in [1..l -> Name] :
            LET chain == Config.nignores[i]
            IN  Len(chain) <= 2 /\ Unambiguous(chain, TextOf(rel)) =>
                    (Matches(chain, TextOf(package \o rel)) <=> Covers(chain, TextOf(rel)))

\* What stands in a directory the rules name is installed by a stow that ends
\* with success (xstow.ini.pod, nignore sub-rule, "Directories where a file of
\* the package should be installed").
NIgnoreInstalls ==
    Finished /\ ~opt.unstow =>
        \A f \in FilesOf(fs, package) : Covered(TextOf(Parent(f))) => Installed(f)
-----------------------------------------------------------------------------
(***************************************************************************)
(* Liveness: every command comes to its end.                               *)
(***************************************************************************)
Terminates == phase # "idle" ~> phase = "idle"
=============================================================================
