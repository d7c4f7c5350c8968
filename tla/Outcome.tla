------------------------------ MODULE Outcome ------------------------------
(***************************************************************************)
(* Why a pass over one package has one of the outcomes that XStowAbs       *)
(* allows.  What Whole, Clean and Others say of the end of a pass lacks    *)
(* two things: that nothing comes in sight which was not there before,     *)
(* except the package at hand, and what an unstow leaves that breaks off.  *)
(***************************************************************************)
EXTENDS XStowRefines, Others

(***************************************************************************)
(* A host of which all of this can be said: no pattern leaves anything of  *)
(* a package out, no command has -f, nobody else changes the disk while a  *)
(* pass works, and the disks hold the packages the abstract specification  *)
(* has, none of them installed.                                            *)
(***************************************************************************)
RefineHost(h) ==
    /\ WholeHost(h) /\ OpenHost(h) /\ CleanHost(h) /\ OthersHost(h)
    /\ Hosts[h].conf.ignore = {} /\ Hosts[h].edits = {}
    /\ \A c \in Hosts[h].commands : ~c.opt.force
    /\ \A F \in Hosts[h].disks : \A p \in Pkg :
          FilesOf(F, PkgDir(p)) = PackageFiles[p] /\ Shown(F, PkgDir(p)) = {}
-----------------------------------------------------------------------------
\* What a link at l to ref shows was seen there on the disk the pass began
\* with, through a link at l or at a directory above.
SeenBefore(l, ref) ==
    \E m \in DOMAIN before : IsLink(before, m) /\ IsInDir(l, m) /\ ref = before[m].ref \o After(l, m)

Expected(l, ref) == IsInDir(ref, package) \/ SeenBefore(l, ref)

LinksExpected(L) == \A j \in DOMAIN L : L[j].act = "SET_LINK" => Expected(L[j].target, L[j].origin)
DiskExpected(F)  == \A l \in DOMAIN F : IsLink(F, l) => Expected(l, F[l].ref)

NothingNew ==
    /\ phase \in {"check", "deps", "dive"} => LinksExpected(links)
    /\ phase = "exec" => LinksExpected(todo)
    /\ phase \in {"exec", "done", "failed"} => DiskExpected(fs)

\* An unstow breaks off when only directories are left to remove: its links
\* are gone and those of other packages are where they should be.
BrokenOff ==
    phase = "failed" =>
        /\ opt.unstow /\ Placed = {}
        /\ \A dir \in OtherPackages : \A f \in InSight(dir) :
              dir \o f \in DOMAIN fs /\ Stands(fs, <<>>, dir, f)

\* The packages stay what they are.
SameFiles(F) == \A p \in Pkg : FilesOf(F, PkgDir(p)) = PackageFiles[p]

OutcomeInv ==
    /\ RefineHost(host) /\ ~opt.force
    /\ SameFiles(fs) /\ SameFiles(before)
    /\ LinksProper(before, StowRoots) /\ \A r \in StowRoots : PlainDir(before, r)
    /\ NothingNew /\ BrokenOff
-----------------------------------------------------------------------------
\* The outcome of a pass that executed its plan: the package is in sight or
\* out of sight, all of it, and the other packages are as they were.
Outcome ==
    (phase = "done" /\ ~Dry) \/ phase = "failed" =>
        /\ phase = "failed" => opt.unstow
        /\ \A q \in Pkg : Shown(fs, PkgDir(q)) =
              IF PkgDir(q) # package THEN Shown(before, PkgDir(q))
              ELSE IF opt.unstow THEN {} ELSE PackageFiles[q]
=============================================================================
