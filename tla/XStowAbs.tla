----------------------------- MODULE XStowAbs ------------------------------
(***************************************************************************)
(* What XStow promises its user, without links, directories or plans.  A   *)
(* target shows files of packages.  A pass over a package installs all of  *)
(* it, removes all of it, or leaves everything as it was; a removal may    *)
(* also break off, and then only the package itself has lost something.    *)
(* (README.md: packages are kept separate "while making them appear to be  *)
(* installed in the same place".)                                          *)
(***************************************************************************)
EXTENDS Naturals

CONSTANTS
    Pkg,        \* packages
    Files       \* the files of each package

VARIABLES
    shown,      \* what the target shows of each package
    pass        \* the package being worked on and whether it is unstowed

NoPass == [pkgs |-> {}, unstow |-> FALSE]

AbsTypeOK ==
    /\ shown \in [Pkg -> UNION {SUBSET Files[p] : p \in Pkg}]
    /\ \A p \in Pkg : shown[p] \subseteq Files[p]
    /\ pass \in [pkgs : {{}} \cup {{p} : p \in Pkg}, unstow : BOOLEAN]

AbsInit == shown \in [Pkg -> {{}}] /\ pass = NoPass

Begin(p, u) ==
    /\ pass = NoPass
    /\ pass' = [pkgs |-> {p}, unstow |-> u]
    /\ UNCHANGED shown

\* The pass over package p ends.
Ending(p) == pass.pkgs = {p} /\ pass' = NoPass

Install(p) ==
    /\ Ending(p) /\ ~pass.unstow
    /\ shown' = [shown EXCEPT ![p] = Files[p]]

Uninstall(p) ==
    /\ Ending(p) /\ pass.unstow
    /\ shown' = [shown EXCEPT ![p] = {}]

Refuse(p) == Ending(p) /\ UNCHANGED shown

BreakOff(p) ==
    /\ Ending(p) /\ pass.unstow
    /\ \E S \in SUBSET shown[p] : shown' = [shown EXCEPT ![p] = S]

AbsNext ==
    \E p \in Pkg :
        \/ \E u \in BOOLEAN : Begin(p, u)
        \/ Install(p) \/ Uninstall(p) \/ Refuse(p) \/ BreakOff(p)

End == \E p \in Pkg : Install(p) \/ Uninstall(p) \/ Refuse(p)

AbsSafety == AbsInit /\ [][AbsNext]_<<shown, pass>>

AbsSpec == AbsSafety /\ WF_<<shown, pass>>(End)
=============================================================================
