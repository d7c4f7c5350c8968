------------------------------- MODULE Setup -------------------------------
(***************************************************************************)
(* The global "setup" object of XStow (src/src/setup.h): the options of    *)
(* the command line, the lists of the configuration files, and the         *)
(* match_* predicates of src/src/tree.cpp that read them.                  *)
(*                                                                         *)
(* Config holds the lists that no code changes after read_ini; it belongs  *)
(* to the host the program runs on and is read by every process.  A pattern *)
(* is the set of names it matches.  The lists whose entries are checked     *)
(* against the disk when they are added, or that the planner extends while *)
(* it runs (check() adds auto-traversed links and recomputes the keep and  *)
(* protect lists) are variables: they live as long as the process, across  *)
(* all the packages of one command.                                        *)
(***************************************************************************)
EXTENDS FileSys

CONSTANTS
    Pkg,        \* the package names a user may write
    StowDir,    \* working_dir: the directory that holds the packages
    Target,     \* target_dir
    Char,       \* the characters of texts, "/" among them
    Spelling,   \* how names are written
    Hosts       \* hosts by name: disks to begin with, configuration, command
                \* lines, what the user may make while a command works

VARIABLES
    host,       \* the name of the host at hand; never changes
    opt,        \* the option flags of the running command
    trav,       \* traversable_links.links
    keep,       \* keep_dirs.dirs that are absolute
    ptargets,   \* protect_dirs.targets
    stow_dirs,      \* stow_dirs.dirs
    protect_dirs,   \* protect_dirs.dirs
    package     \* current_package

listVars  == <<trav, keep, ptargets, stow_dirs, protect_dirs>>
setupVars == <<host, opt, listVars, package>>

\* An exec rule: the names it matches, whether its text is the name itself,
\* whether it has an exec-unstow command.
Rule == [match : SUBSET Name, exact : BOOLEAN, unstow : BOOLEAN]

\* A text is the sequence of its characters.
Text == Seq(Char)

\* A nignore rule: its directories, the texts its patterns match, and whether
\* it goes for the directories below.  An empty directory matches nothing.
NRule == [dir : SUBSET (Text \ {<<>>}), glob : SUBSET Text, follow : BOOLEAN]

ConfigType ==
    [ini             : BOOLEAN,         \* some configuration file can be read
     ignore          : SUBSET Name,     \* [matches] ignore
     ignoreInDir     : SUBSET Path,     \* ignore_file_in_dir
     nignores        : Seq(Seq(NRule)), \* [matches] nignore: the chains of rules
     copy            : SUBSET Name,     \* copy
     copyInDir       : SUBSET Path,     \* copy_file_in_dir
     exec            : Seq(Rule),
     protectDirs     : SUBSET Path,
     protectTargets  : SUBSET Path,
     protectAddTrav  : BOOLEAN,         \* targets_add_traversable
     stowDirs        : SUBSET Path,     \* the other stow directories
     autoStow        : SUBSET Path,     \* link targets auto-add-dirs matches
     traverse        : SUBSET Path,     \* [traverse-links] link
     autoTraverse    : SUBSET Path,     \* link targets add-if-targets matches
     keepTargets     : BOOLEAN,         \* keep-targets
     keepDirs        : SUBSET Path,     \* absolute [keep-dirs] entries
     keepEnds        : SUBSET Path]     \* relative [keep-dirs] entries

Options == [unstow : BOOLEAN, restow : BOOLEAN, force : BOOLEAN,
            simulate : BOOLEAN, no_changes : BOOLEAN]

Command == [pkgs : Seq(Pkg) \ {<<>>}, opt : Options]

\* What a user may make, and where.
Edit == [place : Path, node : Node]

ASSUME SetupAssumption ==
    /\ Pkg \subseteq Name
    /\ StowDir \in Path /\ Target \in Path
    /\ "/" \in Char /\ Spelling \in [Name -> Seq(Char \ {"/"}) \ {<<>>}]
    /\ \A h \in DOMAIN Hosts :
          /\ Hosts[h].conf \in ConfigType
          /\ Hosts[h].commands \subseteq Command
          /\ \A F \in Hosts[h].disks : Disk(F)
          /\ Hosts[h].edits \subseteq Edit

Config == Hosts[host].conf

PkgDir(p) == Append(StowDir, p)

SetupTypeOK ==
    /\ host \in DOMAIN Hosts
    /\ opt \in Options
    /\ trav \subseteq Path /\ keep \subseteq Path /\ ptargets \subseteq Path
    /\ stow_dirs \subseteq Path /\ protect_dirs \subseteq Path
    /\ package \in Path

(***************************************************************************)
(* The lists at the start of a process.                                    *)
(***************************************************************************)
\* The checkers of the lists: an entry of stow_dirs and protect_dirs has to be
\* a directory, one of traversable_links a link to a directory; others are
\* dropped with a warning when they are added.
CheckedDirs(F, D)  == {d \in D : DirAt(F, d)}
CheckedLinks(F, L) == {l \in L : LinkAt(F, l) /\ DirAt(F, l)}

\* What the links of T that are alive lead to.
LinkTargets(F, T) == {LinkBuf(F, l) : l \in {m \in T : LinkAt(F, m) /\ Valid(F, m)}}

\* Mutant of handle_keep_dirs: the option is read the wrong way round.
handle_keep_dirs_not(F, T, K) ==
    IF Config.keepTargets THEN K ELSE K \cup LinkTargets(F, T)

handle_keep_dirs(F, T, K) ==
    IF Config.keepTargets THEN K \cup LinkTargets(F, T) ELSE K

handle_protect_dirs(F, T, P) ==
    IF Config.protectAddTrav THEN P \cup LinkTargets(F, T) ELSE P

(***************************************************************************)
(* The match_* predicates.                                                 *)
(***************************************************************************)
match_ignore(n) == n \in Config.ignore
match_copy(n)   == n \in Config.copy

match_ignore_file_in_dir(dir, file) == \E f \in Config.ignoreInDir : file = dir \o f
match_copy_file_in_dir(dir, file)   == \E f \in Config.copyInDir : file = dir \o f

match_stow_dirs(path) == \E d \in stow_dirs : IsInDir(path, d)

match_auto_stow_dirs(buf) == buf \in Config.autoStow
match_auto_traverse(buf)  == buf \in Config.autoTraverse

match_protect_dirs(file) == \E d \in protect_dirs : IsInDir(file, d)

match_protect_targets(file) ==
    ptargets # {} => \E d \in ptargets : IsInDir(file, d)

RulesFor(n)   == {i \in DOMAIN Config.exec : n \in Config.exec[i].match}
match_exec(n) == RulesFor(n) # {}

\* The command the first rule gives: one whose text equals the name looks at
\* exec-unstow, one that matches as a pattern does not.
exec_of(n) ==
    LET r == Config.exec[CHOOSE i \in RulesFor(n) : \A j \in RulesFor(n) : i <= j]
    IN  IF opt.unstow /\ r.exact /\ r.unstow THEN "exec-unstow" ELSE "exec"

(***************************************************************************)
(* keep_dir: by name, by the end of the name, or by being the same inode.  *)
(* (An end, as a name of its own, is also looked up in the directory the   *)
(* program is started in; that lookup is left out.)                        *)
(***************************************************************************)
compare_keep_dir(p) == p \in keep \/ \E k \in Config.keepEnds : IsSuffix(k, p)

keep_dir(F, p) ==
    \/ compare_keep_dir(p)
    \/ \E k \in keep : Valid(F, p) /\ Valid(F, k) /\ Stat(F, p) = Stat(F, k)
=============================================================================
