-------------------------------- MODULE Fresh -------------------------------
(***************************************************************************)
(* Why a plan that check accepted can be carried out: what it makes finds  *)
(* its place empty, what it removes are links, in directories that may be  *)
(* written.  Only the rmdir calls that unstow adds while it runs may fail. *)
(*                                                                         *)
(* check comes to a place of the target once.  What the plan has there     *)
(* before is what checkDirs put below a link, for names that are seen      *)
(* through it; check plans a link for names that are not.                  *)
(***************************************************************************)
EXTENDS Tidy

\* The plans in question: not made in force mode, not only simulated, and
\* nobody else changes the target.
Undisturbed == ~opt.force /\ ~opt.simulate /\ Hosts[host].edits = {}

\* A directory of disk F that may be changed, or none.
OpenDirOf(F, d) == IsDir(F, d) => F[d].write

\* The link p to something in a stow directory can be taken away.
GoodLink(F, p) ==
    /\ IsLink(F, p) /\ OpenDirOf(F, Parent(p))
    /\ F[p].ref \in DOMAIN F /\ \E d \in StowRoots : IsInDir(F[p].ref, d)

\* From its operation i on list L removes directories.
OnlyRmdirs(F, L, i) == \A j \in i..Len(L) : Removes(L, j) /\ IsDir(F, L[j].origin)

\* What list L makes on disk F is not there or goes before, and is made once.
MakesFresh(F, L) ==
    /\ \A i \in DOMAIN L : ~Removes(L, i) =>
          /\ OpenDirOf(F, Parent(L[i].target))
          /\ L[i].target \in DOMAIN F =>
                \E j \in 1..(i - 1) : Removes(L, j) /\ L[j].origin = L[i].target
          /\ L[i].act = "MKDIR" => L[i].origin = <<>>
    /\ \A i, j \in DOMAIN L :
          ~Removes(L, i) /\ ~Removes(L, j) /\ L[i].target = L[j].target => i = j

\* A plan.
FreshOK(F, L) ==
    /\ \A i \in DOMAIN L : Removes(L, i) => GoodLink(F, L[i].origin)
    /\ MakesFresh(F, L)

\* What is left of a plan: unstow adds directories to its end.
RestOK(F, L) ==
    /\ \A i \in DOMAIN L : Removes(L, i) =>
          GoodLink(F, L[i].origin) \/ (opt.unstow /\ OnlyRmdirs(F, L, i))
    /\ MakesFresh(F, L)

\* unstow has only directories left to remove.
Breaks == opt.unstow /\ todo # <<>> /\ OnlyRmdirs(fs, todo, 1)

MakesIn(L, p) == {i \in DOMAIN L : ~Removes(L, i) /\ IsInDir(L[i].target, p)}

\* A place check has not come to.
Ahead(L, p) == \A i \in MakesIn(L, p) : Lexists(fs, L[i].target) /\ p \notin DOMAIN fs

\* The names check goes over one after the other; it is at or below one that
\* a call f has done.
Past(f, p) == \E m \in Name \ f.kids : IsInDir(p, Append(f.dir, m))

DepsNames(f) == f.common \cup f.rest
DepsPast(f, p) == \E m \in Name \ DepsNames(f) : IsInDir(p, Append(f.w, m))

\* The calls of check.
CallsFresh ==
    /\ FreshOK(fs, links)
    /\ \A k \in DOMAIN stack :
          /\ OpenDirOf(fs, stack[k].dir)
          /\ \A n \in stack[k].kids : Ahead(links, Append(stack[k].dir, n))
          /\ \A j \in 1..(k - 1) : Past(stack[j], stack[k].dir)

\* The directory it goes on with.
IntoFresh ==
    /\ \A k \in DOMAIN stack : Past(stack[k], at.into)
    /\ \A m \in Name : Ahead(links, Append(at.into, m))

\* The calls D of checkDirs with plan L.
DepsFreshFor(D, L) ==
    \A k \in DOMAIN D :
        /\ D[k].common \cap D[k].rest = {}
        /\ \A n \in DepsNames(D[k]) :
              MakesIn(L, Append(D[k].w, n)) = {} /\ Append(D[k].b, n) \in DOMAIN fs
        /\ \A j \in 1..(k - 1) : DepsPast(D[j], D[k].w)

DepsFresh == DepsFreshFor(deps, links)

FreshInv ==
    Undisturbed =>
        /\ phase \in {"check", "deps", "dive"} => CallsFresh
        /\ phase \in {"deps", "dive"} => IntoFresh
        /\ phase = "deps" => DepsFresh
        /\ phase = "exec" => RestOK(fs, todo)
=============================================================================
