--------------------------- MODULE XStowRefines ----------------------------
(***************************************************************************)
(* XStow implements XStowAbs.  While a pass works, the abstract target is  *)
(* what the disk showed when the pass began; it changes in the one step    *)
(* that ends the pass, however many operations the pass executed.          *)
(***************************************************************************)
EXTENDS XStow

Working == phase \notin {"idle", "begin", "done"}

\* Every disk of every host has the same packages.
PackageFiles ==
    LET F == CHOOSE F \in UNION {Hosts[h].disks : h \in DOMAIN Hosts} : TRUE
    IN  [p \in Pkg |-> FilesOf(F, PkgDir(p))]

ShownNow == [p \in Pkg |-> Shown(IF Working THEN before ELSE fs, PkgDir(p))]
PassNow  == [pkgs |-> {p \in Pkg : Working /\ PkgDir(p) = package}, unstow |-> Working /\ opt.unstow]

Abs == INSTANCE XStowAbs WITH Files <- PackageFiles, shown <- ShownNow, pass <- PassNow

\* Every behaviour of the program is one the abstract specification allows:
\* a pass installs, removes or leaves its package, and no other one.
Refines == Abs!AbsSpec
=============================================================================
