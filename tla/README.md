# XStow: a verification development

XStow makes packages that live in directories of their own
(`/usr/local/stow/foo`) appear installed in one place (`/usr/local`): it links
from the *target directory* into the packages of the *stow directory*. Where a
whole directory of one package can be linked it is ("folded"); when a second
package wants the same directory, the link is replaced by a real directory that
holds links to what it showed ("unfolded"). `-D` removes the links and the
directories that become empty, `-R` does both.

This directory holds TLA+ modules that model the program, TLC configurations
that check them on small disks, and proofs for TLAPS. The code is C++ under
`src/src`; all line numbers refer to it.

## 1. The system

| Part | Code | State | Operations |
|---|---|---|---|
| program | `main.cpp` | packages to do, `again` flag of `-R`, exit code | read options, `read_ini`, per package: scan, check, exec |
| setup | `setup.cpp`, `setup_config.cpp` | option flags, lists of the configuration files | `read_ini`, `handle_keep_dirs`, `handle_protect_dirs`, `handle_config_files`, `operator+=` with checkers |
| predicates | `tree.cpp:1131-1488` | none, they read the setup lists | `match_*`, `keep_dir` |
| planner | `tree.cpp:81-193, 280-914` | the two trees, the recursion, the list `links` | `Node::scan`, `check`, `checkDirs`, `unify_links` |
| executor | `tree.cpp:933-1120` | the list while it is walked (unstow appends to it) | `exec_list`: REMOVE, MKDIR, SET_LINK, COPY, COPY_DIR, EXEC |
| copies | `copy.cpp` | the disk | `file_copy`, `dir_copy` |
| nignore | `nignore.cpp` | chains of rules | `NIgnoreChain::match`, `NIgnore::match_dir` |
| merge-info | `merge_info.cpp` | sections of info `dir` files | parse, merge, unmerge, `remove_duplicates` |
| file system | CppDir (submodule, empty here), POSIX | the disk | lstat, stat, readlink, symlink, unlink, mkdir, rmdir, fopen, system |

**Interaction.** `main` fills the setup object and lets `read_ini` extend it;
for each package it sets `current_package`, makes a `Tree` of the package, and
calls `check` at the target directory. `check` reads the disk and the setup
lists and writes `links`; it also *changes* the setup lists (`-tr-auto` adds a
traversable link and recomputes the keep and protect lists), and these stay for
the packages that follow in the same process. `exec_list` takes `links` and
changes the disk. Nothing but the disk survives a process: the state of the
installation *is* the disk, and every command starts by interpreting what
earlier commands (complete, failed or killed) left there.

**What is hard here.** There are no threads; the difficulties are

- the plan is made from the disk as it was, and executed on a disk the plan's
  own earlier operations have changed: paths that led through a folded link
  lead elsewhere afterwards;
- failure in the middle: `exec_list` stops at the first error, a nested
  `checkDirs` fails after its callers have pushed operations, the process can be
  killed between the REMOVE of a folded link and the links that replace it;
- unstow appends to the list it walks, from what the disk shows at that moment;
- long sequences of legal commands: fold, unfold, partial removal, copies that
  stay behind, commands of other configurations;
- lists that grow while they are read (`config_files`, traversable links);
- several names for one place (traversable links, folded directories);
- what the user does to the target while a plan is carried out: there is no
  lock, every operation has to find out for itself that its place is free;
- texts that are compared and cut by length (`nignore.cpp`), or read and printed
  by two functions that have to agree (`merge_info.cpp`).

**What makes the parts correct.** *Planner*: it plans only what can be executed
(conflicts are found before the first change), finds its own links again,
restores exactly what an unfolded link showed, never plans to touch what is not
XStow's. *Executor*: what it does lies where the plan meant it, packages are
never written to, kept directories stay, no empty directory is left.
*Program*: a pass installs all of a package, removes all of it or changes
nothing; exit codes tell which; `-R` is unstow and stow; it terminates.
*Setup*: every configuration file is read once, its rules are there once, the
dependent lists are complete. *nignore*: what is installed is what the rules
name. *merge-info*: an entry is added or taken away under its heading and
nothing else is, and taking out undoes merging.

`PROJECT.json` lists the components, and under "hazards" the places where each
of these can go wrong.

## 2. Modules

| Module | Models | State | Actions |
|---|---|---|---|
| `FileSys` | disk and CppDir (external) | `fs`: path to node | operators: `Loc` (lstat), `Stat`, `Lead`, `CanMake`/`Put`, `CanUnlink`/`CanRmdir`/`Drop`, `CanOpenW`/`Write` |
| `Setup` | setup object and predicates | `host`, `opt`, `package`, the lists `trav`, `keep`, `ptargets`, `stow_dirs`, `protect_dirs` | operators `match_*`, `keep_dir`, `handle_*` |
| `NIgnore` | `nignore.cpp` | none | operators `Matches` (a chain), `Passes` (a directory) |
| `TreeCheck` | `check`, `checkDirs`, `unify_links`, `scan` | `phase`, `stack`, `deps`, `at`, `links` | one action per branch for one child: `ChildOwn`, `ChildFolded`, `ChildMissing`, ..., `DepsDir`, `DepsLink`, ..., `Dive`, `CheckReturn` |
| `TreeExec` | `exec_list`, `file_copy`, `dir_copy` | `todo` | one action per operation |
| `XStow` | `main`, user, death of the process | `queue`, `again`, `rc`, `before` | `Start`, `BeginPass`, `Again`, `NextPackage`, `Return`, `Die`, and `UserEdit` for the user |
| `XStowAbs` | what the README and the manual promise | `shown`, `pass` | `Begin`, `Install`, `Uninstall`, `Refuse`, `BreakOff` |
| `XStowRefines` | refinement mapping: while a pass works, `shown` is what the disk showed when it began | | |
| `SetupIni` | `Setup::read_ini` | `files`, `next`, `flags`, `links`, `stow_dirs`, `kept`, `targets`, `exec`, `nignores` | `Read`, `Pass` |
| `MergeInfo` | `merge_info.cpp`, a program of its own | `file`, `rc` | `RunWritten`, `RunPrinted`, `RunUnwritable`, `RunUnreadable`, `RunUnopened` |
| `MCXStow`, `MCSetupIni`, `MCMergeInfo` | instances for TLC | | |
| `PlanInv`, `Tidy`, `Fresh`, `Whole`, `Clean`, `Others`, `Outcome`, `Restow` | inductive invariants of `XStow` and the surroundings they hold in | | |
| `XStowProofs`, `PlanProofs`, `FreshProofs`, `WholeProofs`, `CleanProofs`, `OthersProofs`, `OutcomeProofs` | proofs, each extends the one before | | |
| `SetupIniProofs` | proofs about `SetupIni` | | |

`XStow` extends `TreeExec`, which extends `TreeCheck`, `NIgnore`, `Setup`,
`FileSys`, in this order.

**How it corresponds to the code.** The recursion of `check` is `stack` (a frame
per active call: target directory, package directory, children to do), that of
`checkDirs` is `deps`; one step handles one child, and since readdir gives no
order the next child is any. Every `return false` of `check` and `checkDirs`
unwinds all calls and becomes phase `refused` (exit code 4); a null child list
of an unreadable directory becomes `aborted` (an assertion of `Ref`, exit code
2); `exec_list`'s `return false` becomes `failed` (exit code 3). `Push` is
`push_back` together with the effect of `unify_links`, which `check` applies to
the whole list before it is executed. `at` is what `check` still holds after an
unfolding or a traversable link was dealt with and before the common code at
`tree.cpp:608` dives.

`exec_list` is one step per list element. What unstow appends (the REMOVE of an
emptied parent, `tree.cpp:1010-1037`) is part of the removal step. `dir_copy` is
expanded in place into the calls it makes, which are dropped together when one
fails, as every active call then returns false.

Abstractions: a name is a model value, a path a sequence of names, a pattern the
set of names it matches, a file's content the path it was first seen at. A link's
text is the absolute path it means (relative and absolute links differ only in
text). Only the nignore rules look into names: for them `Spelling` gives each name
its characters. `Loc` resolves two hops of links, which is all that the instances contain
and what packages without live links allow.

The configuration is constant per host, except the lists whose entries are
checked against the disk when they are added (`CheckedDirs`, `CheckedLinks`) or
that the planner extends; those are variables with the lifetime of a process.
`SetupIni` models how the configuration comes about; `XStow` starts from its
result and keeps of it one fact, whether a configuration file could be read at
all (`ini`), because `handle_keep_dirs` depends on it.

`NIgnore` has the rules as the code has them, on texts, which are sequences of
characters: `match_dir` cuts as many characters off a path as the package at hand
has, whatever they are, but only off a longer path, and the strip text in the same
way; a directory of a rule begins a path when its text does (`Begins`), wherever
the names of the path end. A pattern is the set of texts it matches. `Children` of
`TreeCheck` keeps nothing of a directory that no chain passes.

`UserEdit` is the interference the code is exposed to: while a plan is carried
out the user makes a file, a directory or a link wherever nothing is, outside
the stow directories. It is one action because each `symlink`, `mkdir` and
`open` of the user is one; which places and nodes is a set of the host.

`MergeInfo` keeps a text as a sequence of atoms: the newline, the mark 037, and
the pieces of a line its first character tells apart. What the parser makes of a
line depends on its first atom, so that a heading that is printed without its
newline really swallows the entry that follows it. One action is one call of
the tool, since nothing else touches the files in between.

## 3. Runs

Constants: `MCXStow` has packages a, b, c (and x, which does not exist). a has
d/x, d/e/x; b has d/y, d/e/y; c has d/x, y. So a and b share d and d/e at two
levels without conflict; c disputes d/x with a and has no e; every kind of
unfolding (one package, two, nested) and of conflict occurs. Commands are given
in any order and number, as long as new disks come up; the state spaces are
finite without a bound on counters because the disk, the packages and the
recursion are.

| Run | States | Shows |
|---|---|---|
| `plain` | 10591 | no configuration, five targets (empty, a directory, a user's file, foreign links), stow, unstow, restow, two packages in one command: safety, termination, refinement |
| `crash` | 45692 | three targets, with processes killed between any two operations, followed by any commands; on a second host the user makes a link, a directory and a file while plans are carried out |
| `features` | 45099 | nine configured hosts: keep-dirs; missing permissions with `-s`, `-c`; traversable links, also automatic; copies and commands; other stow directories and ignored names; a name that is ignored and shown by a folded directory all the same, until it is unfolded; nignore chains; protect dirs and targets; force mode |
| `ini` | 16455 | any of four configuration files missing or holding any of five contents, naming each other, themselves and missing ones, with exec and nignore rules |
| `merge` | 1120 | index files with headings and entries in common, spelt alike or not, one without the mark 037, merged and unmerged in every order, also with themselves and with the result |

Properties (defined and commented in `XStow.tla` and `SetupIni.tla`):

- `PackagesIntact`: no step changes anything below a stow directory.
- `ForeignKept`: no file or link of the user changes, ever, unless the
  configuration hands its name to a copy or a command. In run `crash` that
  includes what the user makes between `check` and the operation it was planned
  for.
- `NoWriteThroughLink`: every operation, at the moment it is executed, names a
  place that has no link on the way to it. This is what makes planning on the
  old disk sound.
- `OthersKept`: a pass takes no file of another package out of sight, unless
  that file is ignored or copied by the present configuration.
- `Complete`, `Gone`: a stow pass that succeeds has installed every file, an
  unstow pass that succeeds has left no link into the package.
- `PlanWorks`, `UnstowWorks`, `RestowWorks`: a plan that was accepted can be
  carried out; what is fully installed can be removed; the second half of `-R`
  works when the first did.
- `NothingDone`: refused, aborted and dry passes leave the disk as it was.
- `NoEmptyDirsLeft`, `Idempotent`, `KeptDirsStay`, `KeptEndsStay`,
  `TraversedStays`, `ProtectionHolds`: as named; the comments give the exact
  conditions and why they are there.
- `Refines`: the program implements `XStowAbs`: however many operations a pass
  takes, its target changes once, for its own package, to all or nothing (an
  unstow may also break off).
- `Terminates`: every command ends.
- `NIgnoreAsNamed`: below the package directory a chain of one or two rules accepts
  exactly the paths that can be cut into pieces its rules name, read off the rules
  as the manual has them (`Names`, `Covers`) and not off `match_dir` and its strip
  text. It speaks of the paths for which the two readings can agree
  (`Unambiguous`): no name of the path goes on where a directory of a rule ends,
  as /lib64 does for `dir = /lib`, and no shorter directory of the first rule
  leaves something the second one names. In `MCXStow` the name c is written `ec`,
  so that names have different lengths and /d/ec goes on where the directories /d
  and /e of host nignore end: without `Unambiguous` TLC finds it.
- `ReadOnce`, `FilesClosed`, `TargetsAdded`, `IniTerminates` for `read_ini`;
  `ReadOnce` says that the exec rules and nignore chains are those of the files
  that were read, each file once.
- `EntriesMerged`, `EntriesUnmerged`, `DuplicatesRemoved`, `RoundTrip` for
  merge-info. They read the entries off the texts (`Entries`: a star line belongs
  to the last line of text above it) and not off the parser's sections, so that
  parser, merging and printing are checked together; `RoundTrip` compares texts
  letter for letter.

In run `crash` `UnstowWorks`, `Gone` and `Refines` are left out: after a kill the
abstract promise does not hold and no document says it does. `PlanWorks` exempts
the host with a busy user, whose files a plan may well run into; that it then
stops and harms nothing is what the other three properties say. In run `features`
`Idempotent` and `UnstowWorks` are left out because copies are made again and
ignored names hide links.

**Fairness.** `WF_vars(Process)`: the operating system runs the one process to
its next step. Nothing is assumed of the user, who may stop giving commands, and
nothing of `Die`. `SetupIni` has `WF_vars(Next)` for the same reason; it really
ends, so its run does not check for deadlock. `MergeInfo` states no fairness:
nothing in it has to happen. `XStow` never deadlocks, since a
user may always give another command.

**Runs that end in a violation** are disagreements between the code and what
documents, messages or comments say of it, each with one property:

| Run | What happens |
|---|---|
| `v_rmdir` | unstow of a package that is not installed, whose directory is folded to another: removing the fold leaves the parent empty, its REMOVE is appended to the list, MKDIR and links refill it, the rmdir fails (exit 3) |
| `v_restow` | the stow directory beside the target: `-D` of the last package removes the target itself, the stow half of `-R` is refused |
| `v_force` | force mode: a conflict in `checkDirs` skips the child, but REMOVE, MKDIR and some links are planned already; the other package's directory is taken apart |
| `v_copy` | COPY_DIR into an unfolded directory opens links that lead back to the package and truncates the package's own files |
| `v_passed` | a user's file where the package has a directory: passed over, exit code 0 |
| `v_nignore` | rules that name directories of the package: `Node::scan` asks them about the package directory first, which is the one path nothing is cut from, so none matches and nothing is installed, exit code 0 |
| `v_merge` | an index file with no blank line between the entries and the next heading: the heading loses its newline, heading and first entry are printed on one line |

Noticed while modelling, without a run:

- a dead link in a package is stowed but not unstowed: REMOVE takes it for
  missing (tree.cpp:968) and `-D` ends with exit code 3, though the warning at
  tree.cpp:70 says it "does not harm" and is handled "as normal file";
- a traversable link whose target got folded: `check` dives through it and the
  next package's links are made inside the first package (tree.cpp:629);
- `-tkt` and `-pta` without any readable configuration file do nothing, since
  `handle_keep_dirs` is called in the loop over the files (setup.cpp:194);
- `match_exec` (tree.cpp:1426) runs `exec` on unstow when `exec-unstow` is not
  set, the manual says nothing is executed;
- in force mode "Skipping" at tree.cpp:670 is not followed by a skip; failures of
  copies and commands do not reach the exit code;
- `-ni` on the command line fills a list that nothing reads: only rules of a
  configuration file become chains, and a sub-rule's section is looked for in
  the same file only; a missing one is no error and matches nothing
  (setup.cpp:421 and `empty` of nignore.h are inverted, `valid` is always true);
- `match_dir` compares a rule's directory with the beginning of the text and not
  with the names (nignore.cpp:94): with `dir = /lib` a rule that follows accepts
  /lib64 as well, where xstow.ini.pod:203 says "Follow subdirs.", and a rule that
  does not follow cuts within the name, so that with a second rule `dir = 64` a
  directory /lib64 is accepted. `mantree` of doc/nignore.ini, which has `dir = /man`
  and `follow = true`, takes /usr/manual. Run `features` exempts such paths, as said
  above;
- what `match_dir` cuts off a path is the length of the package at hand
  (nignore.cpp:57), also when `checkDirs` scans a directory of another package to
  unfold it: with package names of unequal length the rules see a text that is no
  path, nothing passes, and what the folded link showed is not linked again;
- a directory on the way to one that the rules name does not pass itself unless
  it is named too, so with `dir = /usr/local` alone nothing is installed in a `/usr` that exists;
  a chain of three rules strips from the whole path each time, so that the third
  sees the first rule's directory again (nignore.cpp:60);
- a file of `ignore_file_in_dir` that has a foreign file in its place is looked
  for below the directory at hand, not below the package (`base` at tree.cpp:438
  is the parameter of `check`, at tree.cpp:828 the package), and refused when that
  is not the same;
- `auto-add-dirs` of `[protect-dirs]` adds bare names, which are looked for in
  the current directory and protect nothing (tree.cpp:169);
- merge-info: a heading that the second file has twice makes unmerge keep entries
  twice, or keep what it should remove (merge_info.cpp:247); one blank line more
  or less between a heading and its entries, or after them, makes two headings
  different, so that the section is appended again at every merge.

## 4. Proofs

TLAPS checks these for every set of names, every disk, configuration, package
and sequence of commands, with and without death of the process. The
assumptions are those on the constants: names are finitely many
(`NameAssumption`), the hosts' disks are trees, their settings have their types and
names are written with one character at least, none of them a slash
(`SetupAssumption`), `MayDie` is Boolean.

- `TypeCorrect` (`Spec => []TypeOK`). `TypeOK` is inductive as it stands because
  it contains `Disk(fs)`: every node's ancestors are directories. That part is the
  substance: each system call preserves it under the condition under which it
  succeeds (`XStowProofs`: `MakeDisk`, `UnlinkDisk`, `RmdirDisk`, `WriteDisk`).
  `CheckStepTyped` and `ExecStepTyped` carry it through every branch of the
  planner and every operation of the executor.
- `NothingDoneUnlessExecuted` (`Spec => []NothingDone`). `NothingDone` is not
  inductive: it says nothing of the phases in between. `PassInv` adds that the
  disk is the one the pass began with in all planning and stopped phases, and
  that a dry run never gets into the loop of `exec_list`.
- `KeepListObeyed` (`Spec => KeptDirsStay`). Only `ExecRemoveDir` takes a
  directory away; for a directory lstat and stat agree (`StatOfDir`), so a name
  of the keep list that leads there makes `keep_dir` true, whichever name the
  operation has. `ExecStepKeeps` is the step lemma; it needs `Disk`, for
  otherwise a path of the disk could itself pass through a link.

- `NothingInstalled` (`Spec => [][UnnamedPackages => UNCHANGED fs \/ UserEdit]_vars`):
  what run `v_nignore` shows on one host holds for all. If no directory of a chain's
  first rule begins the path of a package directory, letter for letter (for packages
  below /usr neither /usr nor /us may be one), and no pattern of it matches that
  path, no step of any command changes the disk. `match_dir` sees the package
  directory uncut (`WholePathSeen`), so no chain passes it (`PackageFails`) and it
  has no children (`PackageEmpty`); `IdleInv`, the invariant, says that the planner
  then has at most the one outermost call, with nothing to do, and that the plan and
  the executor's list are empty.

- `RulesAsNamed` (`NIgnoreAsNamed`): `match_dir` works with lengths only, the manual
  with directories. Below the package directory the two agree on all `Unambiguous`
  paths, for chains of up to two rules, whatever the names and the characters they
  are written with. That the text of a path is the text of its first part followed
  by that of the rest (`TextConcat`) is an induction over the path, by the least
  place where it fails; so the package's own path is cut off whole, and the first
  rule sees the path below it (`PathSeen`). What it strips is the longest directory
  that begins this path (`StripLongest`); that the second rule names what any
  shorter one leaves is what `Unambiguous` excludes, and where a name ends at every
  directory that begins the path the code's `find` and the manual's subdirectories
  are the same (`AcceptsNamed`). The pieces `Covers` cuts a path into are these two
  (`CoversPieces`). The lemma `MatchesCovers` has it for paths of any depth, the
  theorem for the one or two names that the run can enumerate.

`UserEdit` is a step of the specification like any other: the theorems hold in
spite of it.

**What the planner promises the executor.** The heart of XStow is that one list,
made from one look at the disk, does what it says on the disks that its own
operations leave. Ten invariants say why; each rests on some of those before. The
comments in `PlanInv`, `Tidy`, `Fresh`, `Whole`, `Clean`, `Others`,
`Outcome` and `Restow` give their parts.

1. `PlanInv`. A directory `check` works in is a directory of the disk, or it is
   seen through the link of another package; in that case the plan has the REMOVE
   of that link and the MKDIR of every directory the two packages have in common,
   because `checkDirs` went over all of them before `check` dived (`Mirrored`,
   `DepsOK`). So whatever is planned has a `Way`: every directory above it is
   there or made earlier in the list (`WaysReady`). While the list is carried out
   the same is true of what is left of it (`TodoOK`); the removals that unstow
   appends come after everything that is made.
   Proved in `PlanProofs`, first for the planner, then for the executor: `PlansFit`. From
   it follow `PlacesDirect` (`NoWriteThroughLink`) and `KeepEndsObeyed`
   (`KeptEndsStay`), since `keep_dir` compares the end of the name the operation
   has, which is the directory's own name only if no link is on the way.
   All this is `Spec /\ []Straight => ...`. `Straight` says of the surroundings:
   no copies of directories (run `v_copy` shows the plan leading through a link
   there) and no nignore rules (they may hide a common directory from
   `checkDirs`); the target and what traversable links lead to are directories
   themselves (the second of the notes above is what happens otherwise); what
   XStow links to holds no links.
2. `TidyInv`, so that `Straight` need not be assumed of every state:
   `Spec /\ TidyHost(host) => []Straight` (`TidyStraight`), where `TidyHost` only
   speaks of the configuration and of the disks a history begins with: stow
   directories without links and not above the target, no copies, commands,
   nignore rules and traversable links; what the user makes may not be a link
   outside the target. If a stow directory stands in the target, as
   `/usr/local/stow` does, no package may hold something under that name; `check`
   would go on with it, and the plan would write below a stow directory. The
   invariant says that the
   planner and the executor stay in the target, out of the stow directories
   (`Outside`), and that every call of `check` compares a directory of the package
   with the place of the same name (`Aligned`).
   Theorems: `TidyPlacesDirect`, `PackagesUntouched` (`PackagesIntact`),
   `ForeignUntouched` (`ForeignKept`).
3. `FreshInv`, for all plans outside force mode: no place is made twice, nothing
   is made where something stands unless its REMOVE is in the list before, what is
   removed are links, and all directories may be written. The point of it is that `check` and `checkDirs`
   both plan links: `checkDirs` puts them below an unfolded link, for names that
   are seen through it (`Lexists`), `check` for names that are not, and each comes
   to a place once (`Past`, `Ahead`, `DepsPast`).
   Theorems: `PlansWork` (`[]PlanWorks`), and `FailsLate` for unstow as well: a
   command fails only in an unstow that has nothing left to do but to remove
   directories (`Breaks`), which `exec_list` found empty when it listed them and
   which the plan may have filled again since (run `v_rmdir`).
4. `WholeInv`, for plans to install: nothing of the package is forgotten. Every
   file that is due is under a link of the package that stands where it should
   (`Linked`), or below a name that the list links (`ToLink`), or a call of
   `check` still has to look at a name above it (`Waiting`), or, while `check` is
   in `checkDirs` or about to dive, below the directory it goes on to (`Onward`).
   And no REMOVE of the list takes a link of the package itself away. Each branch
   of `check` takes a name out of `Waiting` and has to put the files below it in
   one of the others. The difficult branch is the folded one: `check` dives into
   a directory it sees through another package's link, where what looks like a
   conflict was dealt with by `checkDirs` before; so every file that blocks the
   way to a due file has to be below a common name that `checkDirs` still holds
   (`Between`, `Blocks`). During execution a link of the list moves its files from
   `ToLink` to `Linked`.
   Theorem: `WholeInstalls` (`[]Complete`). It has two hypotheses more. No plain
   file of the target has the name of a package's directory (`Unblocked`): run
   `v_passed` shows the directory passed over otherwise; and no
   `ignore_file_in_dir`, of which the notes above say what `check` makes when
   something has the place of such a file. `CompleteOnHost` needs the first only
   of the disks a history begins with, and a user who makes no plain files.
5. `IdemInv`: as long as the plan is empty nothing was unfolded, so that by
   `FrameOK` every directory `check` works in is a directory of the disk and not
   the inside of a link; the package's node of each name is then the link or the
   directory that `Idempotent` assumes is there, and the branches that plan
   something are not taken.
   Theorem: `StowTwice` (`[]Idempotent`).

6. `CleanInv`, for plans to remove: nothing of the package is overlooked.
   `FitInv` says that every link into a package stands where `check` looks for it
   (`Fits`: at the place of that name in the target) and leads to something that
   is there; the links that `check` and `checkDirs` plan fit, those `checkDirs`
   makes below an unfolded link because the link itself did. `UnstowInv` says of
   every link of the package at hand (`Placed`) that its REMOVE is in the list
   (`ToUnlink`), or that a call of `check` comes to it (`Coming`), or goes on to
   it (`Diving`); and no link into the package is planned meanwhile
   (`LinksOthers`), since `checkDirs` only links packages other than the one it
   is called for.
   Theorem: `UnstowRemovesAll` (`[]Gone`). `CleanHost` has three hypotheses more
   than `TidyHost`: the links into packages on the disks a history begins with
   stand at their place (a link the user made to a package under another name is
   not found by `-D`, nor could it be), the user makes no more of them meanwhile,
   and no command with `-f` meets protected directories (in force mode `check`
   skips what is in one, and the links in it stay).
7. `UndoInv`, for plans to remove a package that is installed completely, which
   has no name that `check` could trip over. While such a plan is made nothing is
   unfolded: a link that is seen where the package has a directory shows below it
   the package's files (`FullyLinked`), so it is the package's own link, and
   `checkDirs` is never called. So the plan holds only REMOVEs of links
   (`OnlyRemoves`), and nothing is made while it is carried out; a directory that
   `exec_list` adds to its list because it is empty stays empty (`EmptyDirs`) until
   its turn comes. It is not the root, below which the stow directory stands.
   The removals of links work by `FreshInv`, those of directories by `EmptyDirs`.
   Theorem: `UnstowSucceeds` (`[]UnstowWorks`). `UndoHost` is `TidyHost` with
   directories that may all be written, no command with `-f`, no other user who
   changes the disk, and packages in which every directory has a file below it
   (`FullPackages`): an empty one is shown by no link of its own, and where another
   package has a link of that name `-D` unfolds it. Nothing is asked of protected
   directories or the keep lists.
8. `OthersInv`, for all plans outside force mode: nothing of another package gets
   out of sight. `ProperInv` says that a link into a package of any stow directory
   stands at the place of that name, and none leads to a stow directory or above
   one (`Proper`); what `checkDirs` goes through lies behind a link into a stow
   directory, and what it finds in both packages is not ignored (`DepsSeen`).
   `SightInv` follows every file of another package that the target showed when
   the pass began (`InSight`): the link that shows it is spared by the list
   (`Stands`), or the list makes a link that shows it (`Relinked`), or a call of
   `checkDirs` still has to come to it (`Unfolds`). The branch that matters is
   `ChildFolded`: its REMOVE takes a link that shows many files, and every one of
   them has to be below a name that the first call of `checkDirs` then holds; such
   a name is left out of it only if it is ignored, which `InSight` excludes, and
   `DepsLink` replaces it by a link to just what was seen there. While the list is
   carried out `Relinked` becomes `Stands`, and no removal that unstow appends can
   take a link, since it is of a directory.
   Theorem: `OthersStay` (`[]OthersKept`). `OthersHost` is `TidyHost` with links
   as `Proper` says on the disks a history begins with, stow directories that are
   not below one another, and a user who makes no links into or to them.
9. `OutcomeInv`, for the refinement of `XStowAbs`. The invariants above say what a
   pass has installed, removed and kept when it is done; the abstract
   specification says more: that nothing else comes in sight, and what an unstow
   leaves that breaks off. `NothingNew` says that every link on the disk and in the
   list leads into the package at hand, or shows what was seen at its place when
   the pass began, through a link there or above (`SeenBefore`); `checkDirs` makes
   links of the second kind, `check` of the first. `BrokenOff` says that the links
   of the package are gone before the first rmdir can fail.
   Theorems: `PassOutcome` (`[]Outcome`), and from it `RefinesSafely`: under the
   mapping of `XStowRefines` every step of planner and executor is a stutter but
   the one that begins a pass and the one that ends it (`StepKinds` sorts the
   steps, `AbstractBegin` and `AbstractEnd` map the two). `RefineHost` has the
   hypotheses of all invariants, and three more: no pattern to ignore files, no
   command with `-f`, and nobody else who changes the disk; and its disks hold the
   same packages, none of them installed to begin with. A killed process is
   excluded (`~MayDie`), as it may leave half a plan executed.
10. `RestowInv`, for `-R`, whose stow half looks at a disk that the unstow half has
   changed after looking at it. `Clearing` is about the unstow half. Each name of
   the package that `check` looks at (`Nodes`) is still to come, or it is `Settled`:
   at its place is nothing, or a directory that `check` went into for a directory
   of the package, or an ignored name (`Free`), or a link that is on the list to be
   removed. What `checkDirs` plans at such a place is a directory for a
   directory (`DirForDir`), since it links only names the package does not have;
   `check` then goes into such a directory through the folded link (`InView`) and
   meets at each name below it what the stow half may meet. Execution
   keeps this: what is removed is gone, and what is made is `DirForDir`. So when
   the list is done every name is `Free`, and `Reinstalling` follows `check` through
   the stow half, which has neither a conflict nor anything to unfold; that its plan
   works is `PlanWorks`.
   Theorem: `RestowSucceeds` (`[]RestowWorks`). `RestowHost` is `TidyHost` with the
   stow directory below the target (else unstow may remove the target, run
   `v_restow`), no protect targets (only stow asks for them), nobody else
   who changes the disk, and `-R` without `-f`, `-s` and `-c`.

**The walk over the configuration files** is proved with the same assumptions as
it is checked (`IniAssumption`: what a file or a command line may hold, and that
two of the flags have a switch on the command line). Its lists are recursive
functions, and what those compute for every list is shown by induction: the
induction theorems of the library take an operator that the provers cannot
instantiate, but a set of natural numbers has a least element (`Least`, from the
library's `WFMin`), and the least number up to which a statement fails gives the
induction (`UpTo`). `AdditionsDef` and `ExecRulesDef` show that the functions
exist, `AddAllAdds` what a list keeps and gets, `ReadExecTimes` how often a rule
is there.

- `IniTypeCorrect` (`IniTypeOK`), with `IsInjective(files)`: no file is in the
  list twice, which is what makes `ReadOnce` true and is not said by it.
- `RulesReadOnce` (`ReadOnce`): the sections of the file that is read are counted
  once and are none of those counted before, as its name is new (`ReadingGrows`).
- `NothingForgotten` (`FilesClosed`), `TargetsComplete` (`TargetsAdded`): both are
  inductive; what they say of a flag holds when the file that sets it is read and
  is not lost by reading another. At the start no flag of `[config-files]` is set,
  which the assumption on the command line says.
- `WalkBounded`: the list has at most as many files as there are names. With the
  index, which every step moves on, that is what `IniTerminates` rests on.

That these hypotheses are not empty is checked in every run of `MCXStow`: its
`CleanAssumption` and `OthersAssumption` say that all hosts but the five with
copies, traversable links, nignore rules or a stow directory that the configuration
adds by a pattern satisfy `CleanHost` and `OthersHost`, and so `TidyHost`: the instances of `plain` and `crash` are among
what is proved. Its `RefineAssumption` says that the host of run `plain`, which checks
`Refines`, satisfies `RefineHost`. Its `UndoAssumption` says that `UndoHost` holds of
the hosts `plain`, `small`, `keep`, `drop` and `protect`, its `RestowAssumption` that
`RestowHost` holds of `plain`, `small` and `keep`. Its `OpenAssumption` says that `CompleteOnHost` speaks of all of
these but the busy user, who makes a file, and the host of `v_passed`.

Model-checked only:

- liveness (`Terminates`, `IniTerminates`) and with it the liveness half of
  `Refines`, which the prover cannot do;
- `NoEmptyDirsLeft`: a directory that `checkDirs` makes is filled only if the other
  package has a file there, so it needs hypotheses on the packages that run `plain`
  satisfies and the code does not ask for;
- `ProtectionHolds`, `TraversedStays`: the first needs what the planner knows of
  protected directories when the list is carried out, the second traversable links,
  which `TidyHost` excludes;
- `MergeInfo`: its functions are folds over texts, and what a fold computes for every
  text is an induction over data.

## 5. Not modelled

- parsing of the command line, output, verbosity, colours, `debug.cpp`;
- the text of relative links, regular expressions and wildcards as such;
- that `keep_dir` also looks an entry that is no absolute path up in the directory
  the program is started in, to compare inodes (tree.cpp:1176);
- the names that `Node::scan` puts on the protect list: they depend on the
  directory the program is started in;
- the syntax check of configuration files, which only prints warnings;
- `check-stow.sh` of the documentation;
- other processes that remove or change something while a plan is carried out,
  and two xstow processes at once: the code has no lock and promises nothing. What
  is modelled is a user who adds something;
- a merge-info killed between truncating its output and printing it;
- exec permission of directories apart from read, file modes of copies.

## 6. Plan

Done, in this order: `FileSys`, `Setup`, `TreeCheck`, `TreeExec`, `XStow`,
`XStowAbs` with its refinement, type and no-change theorems, `SetupIni`;
`NIgnore` with its theorem, the busy user, `MergeInfo`, the rules of `SetupIni`.

Proved since: `PlanInv`, `Tidy`, `Fresh`, `Whole`, `Clean`, `Others`, `Outcome`,
`Restow` with their theorems, the safety half of the refinement among them; the walk of
`SetupIni`.

What stays model-checked only is in section 4, with the reasons.
