------------------------------ MODULE PlanInv ------------------------------
(***************************************************************************)
(* Why a plan that check made from one disk does what it says on the disks *)
(* that its own operations leave: the relation between the plan, the calls *)
(* that make it and the disk, as one invariant of XStow.                   *)
(*                                                                         *)
(* A directory check works in is a directory of the disk, or it is seen    *)
(* through the link of another package; then the plan unfolds that link,   *)
(* and every directory that both packages have has its MKDIR in the plan   *)
(* (checkDirs) before check comes to it.                                   *)
(***************************************************************************)
EXTENDS XStow

\* A directory with no link in it.
PlainDir(F, d) == IsDir(F, d) /\ \A q \in DOMAIN F : IsInDir(q, d) => ~IsLink(F, q)

(***************************************************************************)
(* The surroundings: no directory is copied, there are no nignore rules,   *)
(* target and traversable links name their directories directly, and what  *)
(* XStow links to holds no links.  Where one of these fails the plan can   *)
(* lead through a link (run v_copy; a traversable link into a folded       *)
(* directory).                                                             *)
(***************************************************************************)
Straight ==
    /\ Config.copy = {} /\ Config.nignores = <<>>
    /\ DirAt(fs, Target) => IsDir(fs, Target)
    /\ \A l \in DOMAIN fs :
          IsLink(fs, l) /\ DirAt(fs, fs[l].ref) /\ (l \in trav \/ match_auto_traverse(fs[l].ref))
              => IsDir(fs, fs[l].ref)
    /\ \A d \in {StowDir} \cup stow_dirs : PlainDir(fs, d)
    /\ \A d \in Config.autoStow : DirAt(fs, d) => PlainDir(fs, d)
-----------------------------------------------------------------------------
\* One of the first n operations of list L makes the directory p.
MadeBy(L, n, p) == \E j \in 1..n : L[j].act = "MKDIR" /\ L[j].target = p
Made(L, p) == MadeBy(L, Len(L), p)

\* On disk F every directory above p is there, or the first n operations make it.
Way(F, L, n, p) ==
    \A k \in 0..(Len(p) - 1) : IsDir(F, SubSeq(p, 1, k)) \/ MadeBy(L, n, SubSeq(p, 1, k))

Removes(L, i) == L[i].act = "REMOVE"

\* What is put somewhere finds a way of directories when its turn comes.
WaysReady(F, L) ==
    \A i \in DOMAIN L :
        /\ L[i].act # "COPY_DIR" /\ ~L[i].sub
        /\ ~Removes(L, i) => Way(F, L, i - 1, L[i].target)

\* A plan: it removes links, each once.
PlanOK(F, L) ==
    /\ WaysReady(F, L)
    /\ \A i \in DOMAIN L : Removes(L, i) => L[i].target = <<>> /\ IsLink(F, L[i].origin)
    /\ \A i, j \in DOMAIN L :
          Removes(L, i) /\ Removes(L, j) /\ L[i].origin = L[j].origin => i = j

\* What is left of a plan that is being carried out: besides links it removes
\* directories, when nothing is left to be made, and nothing is removed from
\* a place above another one that is removed.
TodoOK(F, L) ==
    /\ WaysReady(F, L)
    /\ \A i \in DOMAIN L : Removes(L, i) =>
          \/ IsLink(F, L[i].origin)
          \/ IsDir(F, L[i].origin) /\ \A j \in (i + 1)..Len(L) : Removes(L, j)
    /\ \A i, j \in DOMAIN L :
          Removes(L, i) /\ Removes(L, j) /\ IsInDir(L[i].origin, L[j].origin) => i = j

\* The links it removes lead to packages.
RemovesManaged(L) ==
    \A i \in DOMAIN L : Removes(L, i) /\ IsLink(fs, L[i].origin) => Managed(fs[L[i].origin].ref)

-----------------------------------------------------------------------------
NamesIn(F, b) == {After(q, b) : q \in {r \in DOMAIN F : IsInDir(r, b)}}

\* The plan makes, below w, every directory that a and b both have.
Mirrored(F, L, a, b, w) ==
    \A x \in NamesIn(F, b) : IsDir(F, a \o x) /\ IsDir(F, b \o x) => Made(L, w \o x)

\* The directory d is seen through a link that the plan unfolds for package
\* directory a.
Unfolding(F, L, a, d) ==
    \E l \in DOMAIN F :
        LET b == F[l].ref \o After(d, l)
        IN  /\ IsLink(F, l) /\ IsInDir(d, l) /\ PlainDir(F, F[l].ref)
            /\ IsDir(F, b) /\ Mirrored(F, L, a, b, d)
            /\ Way(F, L, Len(L), d)

\* A call check(d, a).
FrameOK(F, L, a, d) ==
    /\ IsInDir(a, StowDir) /\ IsDir(F, a)
    /\ IsDir(F, d) \/ Unfolding(F, L, a, d)

\* A call checkDirs(f.a, f.b, f.w) somewhere below the one for child c, whose
\* link leads to ref.
DepsFrameOK(F, L, c, ref, f) ==
    LET y == After(f.w, c.entry)
    IN  /\ f.w = c.entry \o y /\ f.a = c.base \o y /\ f.b = ref \o y
        /\ IsDir(F, f.a) /\ IsDir(F, f.b)
        /\ Way(F, L, Len(L), f.w) /\ Made(L, f.w)

\* The calls D of checkDirs: what both packages have has been made, or a call
\* has still to come to it.
DepsOK(F, L, D, c) ==
    LET ref == F[c.entry].ref
    IN  /\ c.into = c.entry /\ IsInDir(c.base, StowDir)
        /\ IsLink(F, c.entry) /\ PlainDir(F, ref)
        /\ \A k \in DOMAIN D : DepsFrameOK(F, L, c, ref, D[k])
        /\ \A x \in NamesIn(F, ref) :
              IsDir(F, c.base \o x) /\ IsDir(F, ref \o x) =>
                  \/ Made(L, c.entry \o x)
                  \/ \E k \in DOMAIN D : \E n \in D[k].common :
                        IsInDir(c.entry \o x, Append(D[k].w, n))

\* The plan and the calls of check it comes from fit the disk.
CallsOK ==
    /\ PlanOK(fs, links) /\ RemovesManaged(links)
    /\ \A k \in DOMAIN stack : FrameOK(fs, links, stack[k].base, stack[k].dir)

\* So do the calls of checkDirs, and the directory check goes on with.
PlannerOK ==
    /\ phase \in {"check", "deps", "dive"} => CallsOK
    /\ phase = "deps" => DepsOK(fs, links, deps, at) /\ IsDir(fs, at.base)
    /\ phase = "dive" /\ DirAt(fs, at.into) => FrameOK(fs, links, at.base, at.into)

\* Nothing is planned between passes; what is left of a plan fits the disk.
PlanInv ==
    /\ PlannerOK
    /\ phase \in {"idle", "begin", "exec", "done", "failed"} => links = <<>>
    /\ phase = "exec" => TodoOK(fs, todo) /\ RemovesManaged(todo)
    /\ phase # "idle" => IsInDir(package, StowDir) /\ StowDir \in stow_dirs
=============================================================================
