-------------------------------- MODULE Tidy --------------------------------
(***************************************************************************)
(* Hosts on which Straight holds whatever commands are given, and why: the *)
(* planner and the executor stay in the target and out of the packages.    *)
(***************************************************************************)
EXTENDS PlanInv

RootsOf(h) == {StowDir} \cup Hosts[h].conf.stowDirs

\* The stow directories hold no links, no directory on the way to the target
\* is one, and where a stow directory stands in the target, as in
\* /usr/local/stow, no package has that name.
TidyDisk(F, roots) ==
    /\ \A r \in roots : PlainDir(F, r)
    /\ \A k \in 0..Len(Target) : ~IsLink(F, SubSeq(Target, 1, k))
    /\ \A r \in roots : \A p \in Pkg :
          IsInDir(r, Target) => PkgDir(p) \o After(r, Target) \notin DOMAIN F

(***************************************************************************)
(* A host without copies, commands, nignore rules and traversable links,   *)
(* whose target is in no stow directory.  The user may make files and      *)
(* directories anywhere else, and links in the target.                     *)
(***************************************************************************)
TidyHost(h) ==
    LET c == Hosts[h].conf
    IN  /\ c.copy = {} /\ c.copyInDir = {} /\ c.exec = <<>> /\ c.nignores = <<>>
        /\ c.traverse = {} /\ c.autoTraverse = {} /\ c.autoStow = {}
        /\ \A r \in RootsOf(h) : ~IsInDir(Target, r)
        /\ \A F \in Hosts[h].disks : TidyDisk(F, RootsOf(h))
        /\ \A e \in Hosts[h].edits :
              e.node.kind = "link" => IsInDir(e.place, Target) /\ e.place # Target
-----------------------------------------------------------------------------
Outside(p) == \A r \in StowRoots : ~IsInDir(p, r)

\* An operation that makes something makes it in the target; none is in a
\* stow directory.
OpsTidy(L) ==
    \A i \in DOMAIN L :
        /\ L[i].act \in {"REMOVE", "MKDIR", "SET_LINK"}
        /\ Outside(Place(L[i]))
        /\ ~Removes(L, i) => IsInDir(L[i].target, Target) /\ L[i].target # Target

\* The directory d of the target has the name that a has in the package.
Aligned(a, d) == IsInDir(a, package) /\ d = Target \o After(a, package)

\* A call of check has only children that the package has.
CallTidy(f) == Aligned(f.base, f.dir) /\ \A n \in f.kids : Append(f.base, n) \in DOMAIN fs

TidyInv ==
    /\ TidyHost(host) /\ TidyDisk(fs, StowRoots)
    /\ trav = {} /\ stow_dirs \subseteq StowRoots
    /\ phase # "idle" => \E p \in Pkg : package = PkgDir(p)
    /\ phase \in {"check", "deps", "dive"} =>
          OpsTidy(links) /\ \A k \in DOMAIN stack : CallTidy(stack[k])
    /\ phase \in {"deps", "dive"} => Aligned(at.base, at.into)
    /\ phase = "exec" => OpsTidy(todo)
=============================================================================
