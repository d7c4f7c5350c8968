------------------------------- MODULE Clean -------------------------------
(***************************************************************************)
(* Why an unstow that ends with success has left no link into the package: *)
(* every link into a package stands where check looks for it, and at every *)
(* moment the links of the package at hand are to be removed or still to   *)
(* be looked at.                                                           *)
(***************************************************************************)
EXTENDS Whole

\* A link at l to ref: into a package only from the place that has the name,
\* and not to a directory that holds the packages.
Fits(F, roots, l, ref) ==
    /\ \A p \in Pkg : IsInDir(ref, PkgDir(p))
           => l = Target \o After(ref, PkgDir(p)) /\ ref \in DOMAIN F
    /\ \A r \in roots : IsInDir(ref, r) => ~IsInDir(StowDir, ref)

LinksFit(F, roots) == \A l \in DOMAIN F : IsLink(F, l) => Fits(F, roots, l, F[l].ref)

(***************************************************************************)
(* A tidy host that begins with such disks, and whose user makes no links  *)
(* into stow directories.  In force mode check skips what is in a          *)
(* protected directory, so that its links stay.                            *)
(***************************************************************************)
CleanHost(h) ==
    /\ TidyHost(h)
    /\ \A F \in Hosts[h].disks : LinksFit(F, RootsOf(h))
    /\ \A e \in Hosts[h].edits :
          e.node.kind = "link" => \A r \in RootsOf(h) : ~IsInDir(e.node.ref, r)
    /\ (\E c \in Hosts[h].commands : c.opt.force) => Hosts[h].conf.protectDirs = {}
-----------------------------------------------------------------------------
\* The links that are planned fit.
PlansFitting(F, L) ==
    \A j \in DOMAIN L : L[j].act = "SET_LINK" => Fits(F, StowRoots, L[j].target, L[j].origin)

\* What checkDirs is going to link again, for child c: it exists, and is part
\* of another package than c is to be installed from.
DepsFit(D, c) ==
    /\ match_stow_dirs(fs[c.entry].ref) /\ fs[c.entry].ref # c.base
    /\ \A k \in DOMAIN D : \A n \in D[k].rest : Append(D[k].b, n) \in DOMAIN fs

FitInv ==
    /\ CleanHost(host)
    /\ LinksFit(fs, StowRoots)
    /\ opt.force => protect_dirs = {}
    /\ phase \in {"check", "deps", "dive"} => PlansFitting(fs, links)
    /\ phase = "deps" => DepsFit(deps, at)
    /\ phase = "exec" => PlansFitting(fs, todo)
-----------------------------------------------------------------------------
\* No link into the package is planned.
LinksOthers(L) == \A j \in DOMAIN L : L[j].act = "SET_LINK" => ~IsInDir(L[j].origin, package)

\* A file of the package that unstow is told to ignore.
Exempt(q) == \E f \in FilesOf(fs, package) : Ignored(f) /\ q = package \o f

\* What a link of the package leads to, if unstow is to remove that link.
Placed == {q \in DOMAIN fs : Own(fs, q) /\ ~Exempt(q)}

ToUnlink(L, q) == \E j \in DOMAIN L : Removes(L, j) /\ L[j].origin = Dest(q)

\* A call of check comes to q.
Coming(q) == \E k \in DOMAIN stack : \E n \in stack[k].kids : IsInDir(q, Append(stack[k].base, n))

\* check goes on to q.
Diving(q) == phase = "dive" /\ DirAt(fs, at.entry) /\ IsInDir(q, at.base) /\ q # at.base

UnstowInv ==
    opt.unstow =>
        /\ phase \in {"check", "deps", "dive"} =>
              /\ LinksOthers(links)
              /\ \A q \in Placed : ToUnlink(links, q) \/ Coming(q) \/ Diving(q)
        /\ phase = "exec" => LinksOthers(todo) /\ \A q \in Placed : ToUnlink(todo, q)
        /\ phase = "done" /\ ~Dry => Placed = {}

CleanInv == FitInv /\ UnstowInv
-----------------------------------------------------------------------------
(***************************************************************************)
(* Why a package that is installed completely can be unstowed: its links   *)
(* are found one by one, nothing has to be unfolded for it, and what is    *)
(* left in the end are directories that got empty.                         *)
(*                                                                         *)
(* Each directory of a package has a file below it and the user may change *)
(* every directory; nobody else does meanwhile.  (A directory without a    *)
(* file needs no link to be installed: another package's link may have its *)
(* name, and unstow unfolds that.)                                         *)
(***************************************************************************)
FullPackages(F) ==
    \A p \in Pkg : \A d \in DOMAIN F :
        IsDir(F, d) /\ IsStrictPrefix(PkgDir(p), d) => \E q \in DOMAIN F : IsInDir(q, d) /\ ~IsDir(F, q)

OpenDisk(F) == \A d \in DOMAIN F : IsDir(F, d) => F[d].write

UndoHost(h) ==
    /\ TidyHost(h) /\ Hosts[h].edits = {}
    /\ \A c \in Hosts[h].commands : ~c.opt.force
    /\ \A F \in Hosts[h].disks : FullPackages(F) /\ OpenDisk(F)

OnlyRemoves(L) == \A j \in DOMAIN L : Removes(L, j)

\* A directory on the list is empty.
EmptyDirs(F, L) ==
    \A j \in DOMAIN L : IsDir(F, L[j].origin)
        => L[j].origin # <<>> /\ \A q \in DOMAIN F : ~IsStrictPrefix(L[j].origin, q)

\* The pass at hand is to unstow a package that is installed completely.
Undoing == opt.unstow /\ FilesOf(before, package) \subseteq Shown(before, package)

UndoInv ==
    /\ UndoHost(host) /\ ~opt.force
    /\ FullPackages(fs) /\ OpenDisk(fs)
    /\ Undoing =>
          /\ phase \in {"check", "deps", "dive"} => phase # "deps" /\ OnlyRemoves(links)
          /\ phase = "exec" => OnlyRemoves(todo) /\ EmptyDirs(fs, todo)
          /\ phase # "failed"
=============================================================================
