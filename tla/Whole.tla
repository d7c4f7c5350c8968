------------------------------- MODULE Whole -------------------------------
(***************************************************************************)
(* Why a stow that ends with success has installed all of the package: at  *)
(* every moment each of its files is under a link already, or below a name *)
(* that the plan links, or still to be looked at.                          *)
(***************************************************************************)
EXTENDS Tidy

(***************************************************************************)
(* The surroundings.  Where a plain file has the name that a directory has *)
(* in a package, check passes the directory over (run v_passed).  A file   *)
(* that is to be ignored in the package directory is looked for in the     *)
(* directory at hand as well, when something else has its place.           *)
(***************************************************************************)
WholeHost(h) == TidyHost(h) /\ Hosts[h].conf.ignoreInDir = {}

NoFileInWay(F) ==
    \A p \in Pkg : \A q \in DOMAIN F :
        IsDir(F, q) /\ IsInDir(q, PkgDir(p)) => ~IsFile(F, Target \o After(q, PkgDir(p)))

Unblocked == NoFileInWay(fs)

\* No file is in the way to begin with, and the user makes none meanwhile.
OpenHost(h) ==
    /\ \A F \in Hosts[h].disks : NoFileInWay(F)
    /\ \A e \in Hosts[h].edits : e.node.kind # "file"
-----------------------------------------------------------------------------
Stows == ~opt.unstow /\ ~opt.force

\* The files of the package that are to be installed.
Due == {package \o f : f \in Wanted}

\* The name in the target of something in the package.
Dest(a) == Target \o After(a, package)

\* The link to a has the place it should have.
Own(F, a) == IsInDir(a, package) /\ IsLink(F, Dest(a)) /\ F[Dest(a)].ref = a

Linked(F, q) == \E a \in DOMAIN F : IsInDir(q, a) /\ Own(F, a)

ToLink(L, q) ==
    \E j \in DOMAIN L :
        /\ L[j].act = "SET_LINK"
        /\ IsInDir(q, L[j].origin) /\ IsInDir(L[j].origin, package)
        /\ L[j].target = Dest(L[j].origin)

\* No link of the package itself is removed.
RemovesOthers(F, L) ==
    \A j \in DOMAIN L : Removes(L, j) => \A a \in DOMAIN F : Own(F, a) => L[j].origin # Dest(a)

\* Where the package has a directory on the way from a to q, the target shows
\* no file.
Blocks(d) == IsFile(fs, Loc(fs, Dest(d)))
Between(a, d, q) == IsInDir(q, d) /\ d # q /\ IsInDir(d, a) /\ d # a
Clear(q, a) == \A d \in DOMAIN fs : Between(a, d, q) => ~Blocks(d)

\* A call of check comes to q.
Waiting(q) ==
    \E k \in DOMAIN stack : \E n \in stack[k].kids :
        /\ IsInDir(q, Append(stack[k].base, n))
        /\ IsDir(fs, stack[k].dir) \/ Clear(q, stack[k].base)

\* check goes on to q: checkDirs comes to every file that is in the way.
Onward(q) ==
    /\ IsInDir(q, at.base) /\ DirAt(fs, at.entry)
    /\ phase = "deps" =>
          \A d \in DOMAIN fs : Between(at.base, d, q) /\ Blocks(d)
              => \E k \in DOMAIN deps : \E n \in deps[k].common : IsInDir(d, Append(deps[k].a, n))
    /\ phase = "dive" => IsDir(fs, at.into) \/ Clear(q, at.base)

WholeInv ==
    Stows =>
        /\ phase \in {"check", "deps", "dive"} =>
              /\ RemovesOthers(fs, links)
              /\ \A q \in Due :
                    \/ Linked(fs, q) \/ ToLink(links, q) \/ Waiting(q)
                    \/ phase \in {"deps", "dive"} /\ Onward(q)
        /\ phase = "exec" =>
              /\ RemovesOthers(fs, todo)
              /\ \A q \in Due : Linked(fs, q) \/ ToLink(todo, q)
        /\ phase = "done" /\ ~Dry => \A q \in Due : Linked(fs, q)
-----------------------------------------------------------------------------
\* A package that has its place gives checkDirs nothing to do, and nothing is
\* planned for it.
IdemInv ==
    phase \in {"check", "deps", "dive"} /\ ~opt.unstow /\ InPlace(fs, package)
        => phase # "deps" /\ links = <<>>
=============================================================================
