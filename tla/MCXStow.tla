------------------------------ MODULE MCXStow ------------------------------
(***************************************************************************)
(* Instances of XStow for TLC: packages with a few files in shared         *)
(* directories, several targets to start with, and the configurations that *)
(* exercise each part of the code.                                         *)
(***************************************************************************)
EXTENDS Outcome, Restow

MCName == {"t", "s", "o", "a", "b", "c", "d", "e", "x", "y"}
MCPkg  == {"a", "b", "c", "x"}
AB     == {"a", "b"}
ABC    == {"a", "b", "c"}

\* c is written with the letter of e in front.
MCChar == {"/"} \cup MCName
MCSpelling == [n \in MCName |-> IF n = "c" THEN <<"e", "c">> ELSE <<n>>]

\* The stow directory inside the target, as in /usr/local/stow, or beside it.
TargetDir == <<"t">>
InTarget  == <<"t", "s">>
Beside    == <<"s">>
T(p) == TargetDir \o p
S(p) == StowDir \o p

\* A disk from its directories and files, with the packages' trees.
MkDisk(dirs, files) == [p \in dirs |-> Dir] @@ [p \in files |-> File(p)]
With(F, p, n) == Put(F, p, n)

\* a has d/x and d/e/x, b has d/y and d/e/y, c has d/x and y.
PkgDirs(pkgs) == {S(<<p>>) : p \in pkgs} \cup {S(<<p, "d">>) : p \in pkgs}
                    \cup {S(<<p, "d", "e">>) : p \in pkgs \ {"c"}}
PkgFiles(pkgs) ==
    {S(f) : f \in {g \in {<<"a", "d", "x">>, <<"a", "d", "e", "x">>,
                          <<"b", "d", "y">>, <<"b", "d", "e", "y">>,
                          <<"c", "d", "x">>, <<"c", "y">>} : g[1] \in pkgs}}

Bare(pkgs) == MkDisk({<<>>, TargetDir, StowDir} \cup PkgDirs(pkgs), PkgFiles(pkgs))

Foreign == <<"o">>      \* a directory of the user, with a file

Stow   == NoOptions
Unstow == [NoOptions EXCEPT !.unstow = TRUE]
Restow == [NoOptions EXCEPT !.restow = TRUE]
DryRun == [NoOptions EXCEPT !.simulate = TRUE]
Scan   == [NoOptions EXCEPT !.no_changes = TRUE]
ForceOn  == [Stow EXCEPT !.force = TRUE]
ForceOff == [Unstow EXCEPT !.force = TRUE]

Cmd(p, o) == [pkgs |-> p, opt |-> o]
Singles(pkgs, opts) == {Cmd(<<p>>, o) : p \in pkgs, o \in opts}

Plain ==
    [ini |-> TRUE, ignore |-> {}, ignoreInDir |-> {}, copy |-> {}, copyInDir |-> {},
     nignores |-> <<>>, exec |-> <<>>, protectDirs |-> {}, protectTargets |-> {},
     protectAddTrav |-> FALSE, stowDirs |-> {}, autoStow |-> {},
     traverse |-> {}, autoTraverse |-> {}, keepTargets |-> FALSE,
     keepDirs |-> {}, keepEnds |-> {}]

Host(disks, conf, commands) ==
    [disks |-> disks, conf |-> conf, commands |-> commands, edits |-> {}]

WithDir(F, p)  == With(F, p, Dir)
WithFile(F, p) == With(F, p, File(p))
-----------------------------------------------------------------------------
\* No configuration: three packages that share and dispute directories, on
\* targets that are empty, hold a directory, a file of the user or a foreign
\* link.
PlainDisks ==
    LET F == Bare(ABC)
        D == WithDir(F, T(<<"d">>))
    IN  {F, D, WithFile(D, T(<<"d", "y">>)),
         With(WithDir(F, Foreign), T(<<"d">>), Link(Foreign)),
         With(F, T(<<"y">>), Link(Foreign))}

PlainHost ==
    Host(PlainDisks, Plain,
         Singles(ABC, {Stow, Unstow, Restow})
             \cup {Cmd(<<"a", "b">>, Stow), Cmd(<<"b", "c">>, Unstow), Cmd(<<"a", "x">>, Stow)})

PlainHosts == [plain |-> PlainHost]

\* A killed process leaves more targets behind, so fewer to start with.  On
\* the busy host a user makes things where a plan is going to link, unfold or
\* remove; it has no configuration file.
CrashHost ==
    LET F == Bare(ABC)
    IN  Host({F, WithFile(WithDir(F, T(<<"d">>)), T(<<"d", "y">>)),
              With(WithDir(F, Foreign), T(<<"d">>), Link(Foreign))},
             Plain, Singles(ABC, {Stow, Unstow, Restow}))
BusyHost ==
    [Host({WithFile(WithDir(Bare(AB), Foreign), Foreign \o <<"y">>)}, [Plain EXCEPT !.ini = FALSE],
          Singles(AB, {Stow, Unstow}))
        EXCEPT !.edits = {[place |-> T(<<"d">>), node |-> Link(Foreign)],
                          [place |-> T(<<"d", "e">>), node |-> Dir],
                          [place |-> T(<<"d", "y">>), node |-> File(T(<<"d", "y">>))]}]

CrashHosts == [plain |-> CrashHost, busy |-> BusyHost]
-----------------------------------------------------------------------------
\* /t/d is kept by its name, /t/d/e by the end of its name.
KeepHost ==
    LET D == WithDir(Bare(AB), T(<<"d">>))
    IN  Host({D, WithDir(D, T(<<"d", "e">>))},
             [Plain EXCEPT !.keepDirs = {T(<<"d">>)}, !.keepEnds = {<<"d", "e">>}],
             Singles(AB, {Stow, Unstow, Restow}))

\* What the user may not do: read c's d, write b's d, write /t/x.
Closed(F, p)   == [F EXCEPT ![p].write = FALSE]
Unlisted(F, p) == [F EXCEPT ![p].read = FALSE]
PermHost ==
    LET F == Unlisted(Closed(Bare(ABC), S(<<"b", "d">>)), S(<<"c", "d">>))
        X == WithFile(WithDir(F, S(<<"a", "x">>)), S(<<"a", "x", "c">>))
    IN  Host({F, Closed(WithDir(X, T(<<"x">>)), T(<<"x">>))}, Plain,
             Singles(ABC, {Stow, Unstow, DryRun, Scan, [Restow EXCEPT !.no_changes = TRUE]}))

\* /t/e is a traversable link to /t/d, /t/c one that becomes traversable by
\* what it leads to; /t/d is kept and the only protect target.
\* a has e/x, b has d/y and d/c, c has c/y and c/e.
TravTree ==
    MkDisk({<<>>, TargetDir, StowDir} \cup {S(<<p>>) : p \in ABC}
               \cup {S(<<"a", "e">>), S(<<"b", "d">>), S(<<"c", "c">>)},
           {S(<<"a", "e", "x">>), S(<<"b", "d", "y">>), S(<<"b", "d", "c">>),
            S(<<"c", "c", "y">>), S(<<"c", "c", "e">>)})
TravLinks == With(With(TravTree, T(<<"e">>), Link(T(<<"d">>))), T(<<"c">>), Link(T(<<"d">>)))
TravHost ==
    Host({WithDir(TravLinks, T(<<"d">>))},
         [Plain EXCEPT !.traverse = {T(<<"e">>)}, !.autoTraverse = {T(<<"d">>)},
                       !.keepTargets = TRUE, !.protectAddTrav = TRUE],
         Singles(ABC, {Stow, Unstow, Restow}) \cup {Cmd(<<"c", "b">>, o) : o \in {Stow, Unstow}})

\* Directories named e and the file d/x are copied, names y go to a command.
CopyHost ==
    LET D == WithDir(Bare(ABC), T(<<"d">>))
    IN  Host({D, WithFile(D, T(<<"d", "y">>)), Bare({"a", "c"})},
             [Plain EXCEPT !.copy = {"e"}, !.copyInDir = {<<"d", "x">>},
                           !.exec = <<[match |-> {"y"}, exact |-> TRUE, unstow |-> TRUE]>>],
             Singles(ABC, {Stow, Unstow}))

\* /o is another stow directory, /x matches the auto-add pattern; two targets
\* have a directory folded to one of them.  Names e are ignored, and d/y of
\* the package at hand.
Elsewhere(F, root) ==
    With(WithFile(WithDir(WithDir(F, root), root \o <<"d">>), root \o <<"d", "c">>),
         T(<<"d">>), Link(root \o <<"d">>))
StowsHost ==
    Host({Bare(AB), Elsewhere(Bare(AB), <<"x">>),
          Elsewhere(WithDir(Bare(AB), <<"o">>), <<"o", "c">>)},
         [Plain EXCEPT !.stowDirs = {<<"o">>}, !.autoStow = {<<"x", "d">>},
                       !.ignore = {"e"}, !.ignoreInDir = {<<"d", "y">>}],
         Singles(AB, {Stow, Unstow, Restow}))

\* Things may be installed below /t/d only, and nothing in /t/d/e.
ProtectHost ==
    LET D == WithDir(Bare(ABC), T(<<"d">>))
    IN  Host({D, WithDir(D, T(<<"d", "e">>))},
             [Plain EXCEPT !.protectDirs = {T(<<"d", "e">>)}, !.protectTargets = {T(<<"d">>)}],
             Singles(ABC, {Stow, Unstow}))

\* Names x are ignored: a is folded with them and unfolded without.
DropHost == Host({Bare(ABC)}, [Plain EXCEPT !.ignore = {"x"}], Singles(ABC, {Stow, Unstow}))

\* The rules pass the package directories, which are below /t, and in them d,
\* d/e, by a pattern d/o and, as it is written /d/ec, d/c; d/t is left out.
NIgnoreHost ==
    LET F == MkDisk({S(<<p, "d", "c">>) : p \in AB} \cup {S(<<"a", "d", "o">>), S(<<"b", "d", "t">>)},
                    {S(<<p, "d", "c", "x">>) : p \in AB}
                        \cup {S(<<"a", "d", "o", "x">>), S(<<"b", "d", "t", "x">>)}) @@ Bare(ABC)
    IN  Host({F, WithDir(F, T(<<"d">>))},
             [Plain EXCEPT !.nignores =
                 <<<<[dir |-> {<<"/", "t">>}, glob |-> {}, follow |-> TRUE]>>,
                   <<[dir |-> {<<"/", "d">>}, glob |-> {}, follow |-> FALSE],
                     [dir |-> {<<"/", "e">>}, glob |-> {<<"/", "o">>}, follow |-> TRUE]>>>>],
             Singles(ABC, {Stow, Unstow}))

\* Only the second chain, as in the manual's example.
NIgnoreHosts ==
    [nignore |-> [NIgnoreHost EXCEPT !.conf.nignores = <<@[2]>>, !.commands = Singles(AB, {Stow})]]

\* Conflicts are skipped.
ForceHost == Host(PlainDisks, Plain, Singles(ABC, {Stow, Unstow, ForceOn, ForceOff}))

FeatureHosts ==
    [keep |-> KeepHost, perm |-> PermHost, trav |-> TravHost, copy |-> CopyHost,
     stows |-> StowsHost, drop |-> DropHost, nignore |-> NIgnoreHost,
     protect |-> ProtectHost, force |-> ForceHost]
-----------------------------------------------------------------------------
\* Hosts for the disagreements: two packages without and in force mode, a
\* directory that is copied, a file named as a directory.
SmallHosts == [small |-> Host({Bare(AB)}, Plain, Singles(AB, {Stow, Unstow, Restow}))]
ForceHosts == [force |-> ForceHost]
CopyDirHosts ==
    [copydir |-> Host({Bare(AB)}, [Plain EXCEPT !.copy = {"e"}], Singles(AB, {Stow}))]
PassedHosts ==
    [passed |-> Host({WithFile(Bare(ABC), T(<<"d">>))}, Plain, Singles(ABC, {Stow, Unstow}))]
-----------------------------------------------------------------------------
\* The hosts that the theorems about tidy hosts speak of, and among them those
\* on which no plain file can have the name of a package's directory.
ASSUME CleanAssumption ==
    \A h \in DOMAIN Hosts \ {"trav", "copy", "copydir", "stows", "nignore"} : CleanHost(h)
ASSUME OthersAssumption ==
    \A h \in DOMAIN Hosts \ {"trav", "copy", "copydir", "stows", "nignore"} : OthersHost(h)
ASSUME OpenAssumption ==
    \A h \in DOMAIN Hosts \ {"trav", "copy", "copydir", "stows", "nignore", "passed", "busy"} :
        WholeHost(h) /\ OpenHost(h)

\* Those on which what is installed completely can be unstowed.
ASSUME UndoAssumption ==
    \A h \in DOMAIN Hosts \cap {"plain", "small", "keep", "drop", "protect"} : UndoHost(h)

\* The host on which XStow is shown to implement XStowAbs.
ASSUME RefineAssumption == DOMAIN Hosts = {"plain"} => RefineHost("plain")

\* Where what -R has unstowed can be installed again.
ASSUME RestowAssumption ==
    IsInDir(StowDir, Target) => \A h \in DOMAIN Hosts \cap {"plain", "small", "keep"} : RestowHost(h)
=============================================================================
