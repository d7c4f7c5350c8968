------------------------------ MODULE FileSys ------------------------------
(***************************************************************************)
(* The file system XStow works on: what the POSIX calls of src/src/tree.cpp *)
(* and src/src/copy.cpp (symlink, unlink, mkdir, rmdir, fopen, system) and *)
(* the CppDir wrapper of the cpputils submodule do.  None of this is XStow *)
(* code: it is modelled from the way the code under src/ uses it.          *)
(*                                                                         *)
(* A path is the sequence of its names from the root, <<>> is the root.    *)
(* The state of the disk is a function from the paths that exist to nodes. *)
(* "ref" is what a link resolves to (an absolute path: with -a the code    *)
(* stores it so, otherwise make_relative_links stores the relative form of *)
(* the same place), and for a file it names the content: the path the      *)
(* content was first seen at, <<>> for content no package or user wrote    *)
(* (an empty file, the output of an exec command).  "read" and "write" are  *)
(* what the user may do with a directory.                                  *)
(***************************************************************************)
EXTENDS Naturals, Sequences, FiniteSets, SequencesExt

CONSTANT Name   \* the names of files, directories and packages

ASSUME NameAssumption == IsFiniteSet(Name)

VARIABLE fs     \* the disk

Path == Seq(Name)
Node == [kind : {"dir", "file", "link"}, ref : Path, read : BOOLEAN, write : BOOLEAN]

Dir     == [kind |-> "dir", ref |-> <<>>, read |-> TRUE, write |-> TRUE]
Link(p) == [kind |-> "link", ref |-> p, read |-> TRUE, write |-> TRUE]
File(p) == [kind |-> "file", ref |-> p, read |-> TRUE, write |-> TRUE]

(***************************************************************************)
(* Reading.  Loc(F, p) is where the node named p is: links among the       *)
(* directories of p are followed, p itself is not.  Two hops are enough    *)
(* where every link leads to a place reached through at most one more      *)
(* link; packages hold no live links.                                      *)
(***************************************************************************)
IsLink(F, p) == p \in DOMAIN F /\ F[p].kind = "link"
IsFile(F, p) == p \in DOMAIN F /\ F[p].kind = "file"
IsDir(F, p)  == p \in DOMAIN F /\ F[p].kind = "dir"

LinksAbove(F, p) == {i \in 1..(Len(p) - 1) : IsLink(F, SubSeq(p, 1, i))}

Hop(F) == [p \in Path |->
    IF LinksAbove(F, p) = {} THEN p
    ELSE LET i == CHOOSE i \in LinksAbove(F, p) : TRUE
         IN  F[SubSeq(p, 1, i)].ref \o SubSeq(p, i + 1, Len(p))]

Follow(F) == [p \in Path |-> IF IsLink(F, p) THEN F[p].ref ELSE p]

Loc(F, p)  == Hop(F)[Hop(F)[p]]
Lead(F, p) == Follow(F)[Loc(F, p)]      \* where the link p leads, if it is one
Stat(F, p) == Loc(F, Lead(F, Lead(F, p)))

\* CppDir::File: "file" is what lstat finds, "!file" is a failed stat.
Lexists(F, p)  == Loc(F, p) \in DOMAIN F
LinkAt(F, p)   == IsLink(F, Loc(F, p))
LinkBuf(F, p)  == F[Loc(F, p)].ref
DirAt(F, p)    == IsDir(F, Stat(F, p))
Valid(F, p)    == DirAt(F, p) \/ IsFile(F, Stat(F, p))
Readable(F, p) == DirAt(F, p) /\ F[Stat(F, p)].read
Writable(F, p) == DirAt(F, p) /\ F[Stat(F, p)].write

\* CppDir::Directory::get_files without "." and "..".
Entries(F, p) ==
    LET d == Stat(F, p)
    IN  {n \in Name : Append(d, n) \in DOMAIN F}

IsInDir(p, d) == IsPrefix(d, p)           \* CppDir::is_in_dir

\* What follows the name d in the name p of something in directory d.
After(p, d) == SubSeq(p, Len(d) + 1, Len(p))

(***************************************************************************)
(* Writing.  Each call has the condition under which it succeeds and the   *)
(* disk it leaves.                                                         *)
(***************************************************************************)
Drop(F, p) == [q \in DOMAIN F \ {Loc(F, p)} |-> F[q]]
Put(F, l, n) == [q \in DOMAIN F \cup {l} |-> IF q = l THEN n ELSE F[q]]

Parent(p) == SubSeq(p, 1, Len(p) - 1)     \* path part of CppDir::split_name

\* The user may change the entry at l of the directory that holds it.
Changeable(F, l) ==
    /\ l # <<>>
    /\ IsDir(F, Parent(l))
    /\ F[Parent(l)].write

CanMake(F, p)   == Changeable(F, Loc(F, p)) /\ ~Lexists(F, p)
CanUnlink(F, p) == Changeable(F, Loc(F, p)) /\ Lexists(F, p) /\ ~IsDir(F, Loc(F, p))
CanRmdir(F, p)  == /\ Changeable(F, Loc(F, p))
                   /\ IsDir(F, Loc(F, p))
                   /\ \A q \in DOMAIN F : ~IsStrictPrefix(Loc(F, p), q)

\* fopen(p, "w+b") follows links: it truncates the file p leads to, or makes
\* one at that place.
CanOpenW(F, p) ==
    \/ IsFile(F, Stat(F, p))
    \/ Stat(F, p) \notin DOMAIN F /\ Changeable(F, Stat(F, p))

Write(F, p, content) == Put(F, Stat(F, p), File(content))

(***************************************************************************)
(* A disk the kernel can show: a tree of directories with links and files  *)
(* as leaves.                                                              *)
(***************************************************************************)
Disk(F) ==
    /\ DOMAIN F \subseteq Path
    /\ \A p \in DOMAIN F : F[p] \in Node
    /\ IsDir(F, <<>>)
    /\ \A p \in DOMAIN F : \A i \in 0..(Len(p) - 1) : IsDir(F, SubSeq(p, 1, i))
=============================================================================
