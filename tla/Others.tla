------------------------------- MODULE Others -------------------------------
(***************************************************************************)
(* Why a pass over one package takes nothing of another package out of     *)
(* sight: at every moment the link that shows a file of another package is *)
(* spared by the plan, or another link that shows it is planned, or the    *)
(* calls of checkDirs have still to come to the file.                      *)
(***************************************************************************)
EXTENDS Clean, Fresh

\* A link at l to ref: not to a stow directory or to what is above one, and
\* into a package of any stow directory only from the place of that name.
Proper(roots, l, ref) ==
    \A r \in roots :
        /\ ~IsInDir(r, ref)
        /\ \A n \in Name : IsInDir(ref, Append(r, n)) => l = Target \o After(ref, Append(r, n))

LinksProper(F, roots) == \A l \in DOMAIN F : IsLink(F, l) => Proper(roots, l, F[l].ref)

(***************************************************************************)
(* A tidy host that begins with such disks, whose stow directories are not *)
(* below one another, and whose user makes no links into or to them.       *)
(***************************************************************************)
OthersHost(h) ==
    /\ TidyHost(h)
    /\ \A r, s \in RootsOf(h) : IsInDir(r, s) => r = s
    /\ \A F \in Hosts[h].disks : LinksProper(F, RootsOf(h))
    /\ \A e \in Hosts[h].edits : e.node.kind = "link" =>
          \A r \in RootsOf(h) : ~IsInDir(e.node.ref, r) /\ ~IsInDir(r, e.node.ref)
-----------------------------------------------------------------------------
\* The links that are planned are such links.
PlansProper(L) ==
    \A j \in DOMAIN L : L[j].act = "SET_LINK" => Proper(StowRoots, L[j].target, L[j].origin)

\* checkDirs goes through what is seen through a link into a stow directory,
\* and what it finds in both packages is not to be ignored.
DepsSeen(D, c) ==
    /\ match_stow_dirs(fs[c.entry].ref)
    /\ \A k \in DOMAIN D : D[k].common \subseteq Children(D[k].a)

ProperInv ==
    /\ OthersHost(host)
    /\ LinksProper(fs, StowRoots)
    /\ phase \in {"check", "deps", "dive"} => PlansProper(links)
    /\ phase = "deps" => DepsSeen(deps, at)
    /\ phase = "exec" => PlansProper(todo)
-----------------------------------------------------------------------------
\* The link at l shows file f of the package dir.
ShownBy(F, l, dir, f) ==
    IsLink(F, l) /\ IsInDir(Target \o f, l) /\ F[l].ref = dir \o After(l, Target)

Stands(F, L, dir, f) ==
    \E l \in DOMAIN F :
        /\ ShownBy(F, l, dir, f)
        /\ \A j \in DOMAIN L : Removes(L, j) => L[j].origin # l

Relinked(L, dir, f) ==
    \E j \in DOMAIN L :
        /\ L[j].act = "SET_LINK" /\ IsInDir(Target \o f, L[j].target)
        /\ L[j].origin = dir \o After(L[j].target, Target)

\* A call of checkDirs comes to f.
Unfolds(D, dir, f) ==
    \E k \in DOMAIN D : \E n \in DepsNames(D[k]) : IsInDir(dir \o f, Append(D[k].b, n))

\* What a pass has to keep in sight.
InSight(dir) == {f \in Shown(before, dir) : ~Unlinked(dir, f)}

SightInv ==
    ~opt.force => \A dir \in OtherPackages : \A f \in InSight(dir) :
        /\ phase \in {"check", "deps", "dive"} =>
              \/ Stands(fs, links, dir, f) \/ Relinked(links, dir, f)
              \/ phase = "deps" /\ Unfolds(deps, dir, f)
        /\ phase = "exec" =>
              dir \o f \in DOMAIN fs /\ (Stands(fs, todo, dir, f) \/ Relinked(todo, dir, f))
        /\ phase = "done" /\ ~Dry => dir \o f \in DOMAIN fs /\ Stands(fs, <<>>, dir, f)

OthersInv == ProperInv /\ SightInv
=============================================================================
