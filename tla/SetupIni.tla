----------------------------- MODULE SetupIni ------------------------------
(***************************************************************************)
(* Setup::read_ini of src/src/setup.cpp: the walk over the configuration   *)
(* files.  The list it walks is itself a configuration value: every file   *)
(* that is read may name further files, and the flags of [config-files]    *)
(* ask for those of the home, the stow and the other stow directories.     *)
(* A file is appended once (VecStringValue::operator+= of                  *)
(* src/src/setup_config.cpp), so that the walk ends, also when files name  *)
(* each other.                                                             *)
(*                                                                         *)
(* Of a file what the walk depends on is kept, the flags, the lists of     *)
(* files and stow directories; the traversable links, whose targets are    *)
(* put on the keep and protect lists after each file; and the exec and     *)
(* nignore rules, which are appended whenever a file is read.              *)
(***************************************************************************)
EXTENDS Naturals, Sequences, FiniteSets, SequencesExt

CONSTANTS
    File,       \* names of configuration files
    Dir,        \* stow directories
    Link,       \* traversable links, all to existing directories
    Command,    \* what a key of an exec section may say, "" when it is missing
    Rule,       \* names of nignore sub-rules
    Contents,   \* what a configuration file may hold
    StowDir,    \* working_dir
    IniOf,      \* the xstow.ini of each stow directory
    HomeFiles,  \* .xstow.ini and xstow.ini of $HOME, none when it is not set
    Asked       \* command lines: files, flags, stow directories and links

Flag == {"keep-targets", "target-add-traversable-links",
         "in-home", "in-stow-dir", "in-other-stow-dirs"}

\* The flags that have an option on the command line.
Switch == {"keep-targets", "target-add-traversable-links"}

Exec == [match : Command, exec : Command]

\* The settings a file or a command line makes; "flags" has those it names,
\* "nignore" the rules, "sections" the sub-rules that have a section.  A rule
\* without sub-rules is left out: its chain is empty and dropped.
Settings == [files : Seq(File), dirs : Seq(Dir), links : SUBSET Link,
             flags : UNION {[S -> BOOLEAN] : S \in SUBSET Flag},
             exec : Seq(Exec), nignore : Seq(Seq(Rule) \ {<<>>}), sections : SUBSET Rule]

\* A sub-rule without a section has no directories.
NIgnore == [name : Rule, empty : BOOLEAN]

ASSUME IniAssumption ==
    /\ Contents \subseteq Settings /\ Asked \subseteq Settings
    /\ \A a \in Asked : /\ a.exec = <<>> /\ a.nignore = <<>>
                        /\ DOMAIN a.flags \subseteq Switch
    /\ StowDir \in Dir /\ IniOf \in [Dir -> File] /\ HomeFiles \in Seq(File)

VARIABLES
    disk,       \* what can be read: a function from the files that are there
    files,      \* config_files.files
    next,       \* the index of the loop
    flags,      \* the BoolValues
    links,      \* traversable_links.links
    stow_dirs,  \* stow_dirs.dirs
    kept,       \* the links whose target is in keep_dirs.dirs
    targets,    \* the links whose target is in protect_dirs.targets
    exec,       \* the exec rules
    nignores    \* the nignore chains

rules == <<exec, nignores>>
vars == <<disk, files, next, flags, links, stow_dirs, kept, targets, rules>>

IniTypeOK ==
    /\ disk \in UNION {[S -> Contents] : S \in SUBSET File}
    /\ files \in Seq(File) /\ next \in 1..(Len(files) + 1)
    /\ flags \in [Flag -> BOOLEAN]
    /\ links \subseteq Link /\ kept \subseteq Link /\ targets \subseteq Link
    /\ stow_dirs \in Seq(Dir)
    /\ exec \in Seq(Exec) /\ nignores \in Seq(Seq(NIgnore))
-----------------------------------------------------------------------------
\* Mutant of AddAll: match_only_once is not set.
AddAllAgain(s, v) == s \o v

\* With match_only_once what is in the list is not appended again.
AddOne(list, x) == IF x \in ToSet(list) THEN list ELSE Append(list, x)

\* The list s and what operator+= makes of it element by element.
Additions(s, v) ==
    LET list[n \in 0..Len(v)] == IF n = 0 THEN s ELSE AddOne(list[n - 1], v[n])
    IN  list

AddAll(s, v) == Additions(s, v)[Len(v)]

\* A BoolValue takes the value of each file that has its key.
Overwrite(new) == [f \in Flag |-> IF f \in DOMAIN new THEN new[f] ELSE flags[f]]

\* Mutant of handle_config_files: the other stow directories are left out.
handle_config_files_here(F, D) ==
    (IF F["in-home"] THEN HomeFiles ELSE <<>>)
        \o (IF F["in-stow-dir"] THEN <<IniOf[StowDir]>> ELSE <<>>)

\* What handle_config_files appends under flags F with stow directories D.
handle_config_files(F, D) ==
    (IF F["in-home"] THEN HomeFiles ELSE <<>>)
        \o (IF F["in-stow-dir"] THEN <<IniOf[StowDir]>> ELSE <<>>)
        \o (IF F["in-other-stow-dirs"] THEN [i \in DOMAIN D |-> IniOf[D[i]]] ELSE <<>>)

\* An exec rule needs a match and a command.
Told(e) == e.match # "" /\ e.exec # ""

\* The rules among the first n exec sections v, for each n.
ExecRules(v) ==
    LET rules_of[n \in 0..Len(v)] ==
            IF n = 0 THEN <<>>
            ELSE IF Told(v[n]) THEN Append(rules_of[n - 1], v[n]) ELSE rules_of[n - 1]
    IN  rules_of

read_exec(c) == ExecRules(c.exec)[Len(c.exec)]

\* The chains of a file, all of those that have rules: invalid is never set, as
\* valid() is always true, and empty() says that there are rules.  A sub-rule's
\* section is looked for in that file only, and a missing one is no error.
read_nignore(c) ==
    [i \in DOMAIN c.nignore |->
        [j \in DOMAIN c.nignore[i] |->
            [name |-> c.nignore[i][j], empty |-> c.nignore[i][j] \notin c.sections]]]

\* main() sets the command line's values, then appends the files it starts with.
Init ==
    /\ disk \in UNION {[S -> Contents] : S \in SUBSET File}
    /\ \E a \in Asked :
          /\ files = AddAll(<<>>, a.files)
          /\ stow_dirs = AddAll(<<StowDir>>, a.dirs)
          /\ links = a.links
          /\ flags = [f \in Flag |-> f \in DOMAIN a.flags /\ a.flags[f]]
    /\ next = 1 /\ kept = {} /\ targets = {} /\ exec = <<>> /\ nignores = <<>>

Current == files[next]

\* Mutant of Read: the keep and protect lists are extended before the file's
\* own links are there.
ReadEarly ==
    /\ next <= Len(files) /\ Current \in DOMAIN disk
    /\ LET c == disk[Current]
       IN  /\ flags' = Overwrite(c.flags)
           /\ links' = links \cup c.links
           /\ stow_dirs' = AddAll(stow_dirs, c.dirs)
           /\ files' = AddAll(files, c.files \o handle_config_files(flags', stow_dirs'))
           /\ exec' = exec \o read_exec(c)
           /\ nignores' = nignores \o read_nignore(c)
    /\ kept' = IF flags'["keep-targets"] THEN kept \cup links ELSE kept
    /\ targets' = IF flags'["target-add-traversable-links"] THEN targets \cup links ELSE targets
    /\ next' = next + 1
    /\ UNCHANGED disk

\* A file that can be read: all its sections, then the lists that depend on
\* the traversable links, then the further files.
Read ==
    /\ next <= Len(files) /\ Current \in DOMAIN disk
    /\ LET c == disk[Current]
       IN  /\ flags' = Overwrite(c.flags)
           /\ links' = links \cup c.links
           /\ stow_dirs' = AddAll(stow_dirs, c.dirs)
           /\ files' = AddAll(files, c.files \o handle_config_files(flags', stow_dirs'))
           /\ exec' = exec \o read_exec(c)
           /\ nignores' = nignores \o read_nignore(c)
    /\ kept' = IF flags'["keep-targets"] THEN kept \cup links' ELSE kept
    /\ targets' = IF flags'["target-add-traversable-links"] THEN targets \cup links' ELSE targets
    /\ next' = next + 1
    /\ UNCHANGED disk

\* Mutant of Pass: the loop does not advance.
PassAgain ==
    /\ next <= Len(files) /\ Current \notin DOMAIN disk
    /\ UNCHANGED vars

\* Mutant of Pass: the index is advanced in the body and in the loop's head.
PassTwice ==
    /\ next <= Len(files) /\ Current \notin DOMAIN disk
    /\ next' = next + 2
    /\ UNCHANGED <<disk, files, flags, links, stow_dirs, kept, targets, rules>>

\* One that cannot: nothing is done for it, not even for the command line.
Pass ==
    /\ next <= Len(files) /\ Current \notin DOMAIN disk
    /\ next' = next + 1
    /\ UNCHANGED <<disk, files, flags, links, stow_dirs, kept, targets, rules>>

Next == Read \/ Pass
Spec == Init /\ [][Next]_vars /\ WF_vars(Next)
-----------------------------------------------------------------------------
\* The places in the list of the files that have been read.
Seen == {i \in 1..(next - 1) : files[i] \in DOMAIN disk}

\* How often x is in s, and where the file f has the exec section e.
Places(s, x) == {i \in DOMAIN s : s[i] = x}
Times(s, x) == Cardinality(Places(s, x))
Sources(f, e) == {f} \X Places(disk[f].exec, e)

\* However the files name each other, the rules are those of the files that
\* have been read, once: none is missing, and none appears again because its
\* file is named again (match_only_once, read_exec, read_nignore).
ReadOnce ==
    LET read == {files[i] : i \in Seen}
    IN  /\ \A e \in (UNION {ToSet(disk[f].exec) : f \in read}) \cup ToSet(exec) :
              Times(exec, e) = IF Told(e) THEN Cardinality(UNION {Sources(f, e) : f \in read}) ELSE 0
        /\ Len(nignores) = Cardinality(UNION {{f} \X DOMAIN disk[f].nignore : f \in read})

\* What the files that have been read ask for will be read: the files they
\* name, and those of the directories their flags ask for, also of a stow
\* directory that was named before the flag was set or after it
\* (handle_config_files).
FilesClosed ==
    /\ \A i \in Seen : ToSet(disk[files[i]].files) \subseteq ToSet(files)
    /\ flags["in-home"] => ToSet(HomeFiles) \subseteq ToSet(files)
    /\ flags["in-stow-dir"] => IniOf[StowDir] \in ToSet(files)
    /\ flags["in-other-stow-dirs"] => {IniOf[d] : d \in ToSet(stow_dirs)} \subseteq ToSet(files)

\* Once a file has been read the keep and protect lists have the targets of
\* all links named so far, by whichever file or the command line, when the
\* flag of the moment says so (xstow.ini.pod, keep-targets).
TargetsAdded ==
    Seen # {} =>
        /\ flags["keep-targets"] => links \subseteq kept
        /\ flags["target-add-traversable-links"] => links \subseteq targets

\* The walk comes to an end although the list grows while it is walked.
IniTerminates == <>(next > Len(files))
=============================================================================
