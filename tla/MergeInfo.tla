----------------------------- MODULE MergeInfo -----------------------------
(***************************************************************************)
(* merge-info, src/src/merge_info.cpp: the program an exec rule calls to   *)
(* merge the Info index file "dir" of a package into the target's, or to   *)
(* take it out again.  It reads two files, changes the sections of the     *)
(* first and prints them.                                                  *)
(*                                                                         *)
(* A text is a sequence of atoms: the characters newline and 037, and the  *)
(* pieces of a line that its first character tells apart.  What a line is  *)
(* depends on its first atom only, as it does in the code.                 *)
(***************************************************************************)
EXTENDS Naturals, Sequences, FiniteSets, SequencesExt

CONSTANTS
    Word,       \* headings in upper case, names and packages of entries
    Form,       \* the letters of a heading, upper or lower; what an entry says
    Dirs,       \* the files to begin with, by name
    Hidden,     \* files that cannot be opened for reading
    ReadOnly,   \* files that cannot be opened for writing
    Commands    \* command lines

\* "dir" is a line that begins with "File: dir", "menu" with "* Menu:", "item"
\* with another star, "more" with a blank.
Atom == [kind : {"nl", "037", "dir", "menu", "item", "more", "text"}, word : Word, form : Form]

Command == [unmerge : BOOLEAN, duplicate : BOOLEAN, a : DOMAIN Dirs, b : DOMAIN Dirs,
            out : DOMAIN Dirs \cup {"stdout"}]

ASSUME MergeAssumption ==
    /\ \A f \in DOMAIN Dirs : Dirs[f] \in Seq(Atom)
    /\ Commands \subseteq Command

VARIABLES
    file,       \* the contents of the files
    rc          \* the exit code of the last call

vars == <<file, rc>>
-----------------------------------------------------------------------------
Is(line, kinds) == line # <<>> /\ line[1].kind \in kinds
Star(line) == Is(line, {"menu", "item"})

\* getline until the end of the file: what follows the last newline is a line
\* too, also when it is empty.
Lines(text) ==
    FoldLeft(LAMBDA ls, x : IF x.kind = "nl" THEN Append(ls, <<>>)
                            ELSE [ls EXCEPT ![Len(ls)] = Append(@, x)],
             <<<<>>>>, text)

NL == [kind |-> "nl", word |-> "", form |-> ""]
US == [kind |-> "037", word |-> "", form |-> ""]

\* toupper of a heading.
Upper(text) == [i \in DOMAIN text |-> [text[i] EXCEPT !.form = ""]]

\* get_name and get_package of an entry, in upper case.
KeyOf(item) == <<item[1].kind, item[1].word>>
item_cmp(x, y) == KeyOf(x) = KeyOf(y)

Has(items, x) == \E i \in DOMAIN items : item_cmp(items[i], x)
-----------------------------------------------------------------------------
(***************************************************************************)
(* Reading and printing.                                                   *)
(***************************************************************************)
NewSection(pre, text) == [pre_blabla |-> pre, description |-> text, items |-> <<>>]

\* A blank line lengthens the description, even when it comes after the items.
BlankLine(s) ==
    IF s.current.description = <<>> THEN s
    ELSE [s EXCEPT !.current.description = Append(@, NL)]

\* Mutant of StarLine: the menu is not noticed.
StarLineOnly(s, line) == [s EXCEPT !.current.items = Append(@, line)]

StarLine(s, line) ==
    [s EXCEPT !.current.items = Append(@, line), !.menu_found = @ \/ Is(line, {"menu"})]

MoreLine(s, line) ==
    LET n == Len(s.current.items)
    IN  IF n > 0 THEN [s EXCEPT !.current.items[n] = @ \o <<NL>> \o line]
        ELSE [s EXCEPT !.current.description = @ \o <<NL>> \o line]

TextLine(s, line) ==
    IF s.current.items # <<>>
    THEN [s EXCEPT !.sections = Append(@, s.current), !.current = NewSection(~s.menu_found, line)]
    ELSE [s EXCEPT !.current.description = @ \o (IF @ = <<>> THEN <<>> ELSE <<NL>>) \o line]

ReadLine(s, line) ==
    IF line = <<>> THEN BlankLine(s)
    ELSE IF Star(line) THEN StarLine(s, line)
    ELSE IF Is(line, {"more"}) THEN MoreLine(s, line)
    ELSE TextLine(s, line)

Sections(text) ==
    LET s == FoldLeft(ReadLine,
                 [sections |-> <<>>, current |-> NewSection(TRUE, <<>>), menu_found |-> FALSE],
                 Lines(text))
    IN  IF s.current.description # <<>> \/ s.current.items # <<>>
        THEN Append(s.sections, s.current) ELSE s.sections

Marks(text) == {i \in DOMAIN text : text[i] = US}

\* Without the character 037 the text begins at a line "File: dir" that no
\* line with a star comes before.
Starts(text) ==
    {i \in DOMAIN text :
        /\ text[i].kind = "dir" /\ (i = 1 \/ text[i - 1] = NL)
        /\ \A l \in ToSet(Lines(SubSeq(text, 1, i - 1))) : ~Star(l)}

IsInfo(text) == Marks(text) \cup Starts(text) # {}

First(S) == CHOOSE i \in S : \A j \in S : i <= j

parse_file(text) ==
    LET m == IF Marks(text) # {} THEN First(Marks(text)) ELSE First(Starts(text))
        n == IF Marks(text) # {} THEN m + 1 ELSE m
    IN  [pre_text |-> SubSeq(text, 1, m - 1), sections |-> Sections(SubSeq(text, n, Len(text)))]

\* Mutant of SectionText: every section, the last one too, ends with an empty line.
SectionTextLong(info, i) ==
    LET s == info.sections[i]
    IN  s.description \o FlattenSeq([k \in DOMAIN s.items |-> Append(s.items[k], NL)]) \o <<NL>>

\* The description is printed as it is, its newlines included.
SectionText(info, i) ==
    LET s == info.sections[i]
    IN  s.description \o FlattenSeq([k \in DOMAIN s.items |-> Append(s.items[k], NL)])
            \o (IF i < Len(info.sections) THEN <<NL>> ELSE <<>>)

print_info(info) ==
    info.pre_text \o <<US, NL>>
        \o FlattenSeq([i \in DOMAIN info.sections |-> SectionText(info, i)])
-----------------------------------------------------------------------------
(***************************************************************************)
(* Merging.                                                                *)
(***************************************************************************)
SameHeading(s, t) == Upper(s.description) = Upper(t.description)

\* The sections of u with the heading of s.
Headed(u, s) == {i \in DOMAIN u : SameHeading(u[i], s)}

AddItem(items, x) == IF Has(items, x) THEN items ELSE Append(items, x)

\* A section of b goes into the first one with its heading; one of b's own
\* becomes a section of a unless it is from before the menu.
MergeSection(u, s) ==
    IF Headed(u, s) # {}
    THEN [u EXCEPT ![First(Headed(u, s))].items = FoldLeft(AddItem, @, s.items)]
    ELSE IF s.pre_blabla THEN u ELSE Append(u, s)

merge_files(a, b) == [a EXCEPT !.sections = FoldLeft(MergeSection, @, b.sections)]

\* An entry of section s is kept: under s's heading, at the first place.
Keep(u, s, x) ==
    IF Headed(u, s) # {} THEN [u EXCEPT ![First(Headed(u, s))].items = Append(@, x)]
    ELSE Append(u, [s EXCEPT !.items = <<x>>])

\* Mutant of Left: what b has is kept, the rest goes.
LeftOver(s, t) == SelectSeq(s.items, LAMBDA x : Has(t.items, x))

\* The entries of s that section t of b does not have.
Left(s, t) == SelectSeq(s.items, LAMBDA x : ~Has(t.items, x))

\* Every section of b with the heading of s leaves its own rest of s.
UnmergeSection(u, s, b) ==
    LET same == SelectSeq(b.sections, LAMBDA t : SameHeading(s, t) /\ ~t.pre_blabla)
        made == [s EXCEPT !.pre_blabla = FALSE]
    IN  IF same = <<>> THEN Append(u, s)
        ELSE FoldLeft(LAMBDA v, x : Keep(v, made, x), u,
                      FlattenSeq([j \in DOMAIN same |-> Left(s, same[j])]))

unmerge_files(a, b) ==
    [a EXCEPT !.sections = FoldLeft(LAMBDA u, s : UnmergeSection(u, s, b), <<>>, @)]

\* Mutant of UniqueSection: an entry is looked for under its own heading only.
UniqueHeading(u, s) ==
    IF s.pre_blabla THEN Append(u, s)
    ELSE FoldLeft(LAMBDA v, x : IF \E i \in Headed(v, s) : Has(v[i].items, x) THEN v
                                ELSE Keep(v, s, x), u, s.items)

UniqueSection(u, s) ==
    IF s.pre_blabla THEN Append(u, s)
    ELSE FoldLeft(LAMBDA v, x : IF \E i \in DOMAIN v : Has(v[i].items, x) THEN v
                                ELSE Keep(v, s, x), u, s.items)

remove_duplicates(a) == [a EXCEPT !.sections = FoldLeft(UniqueSection, <<>>, @)]
-----------------------------------------------------------------------------
(***************************************************************************)
(* main: both files are read before the output is opened, so that it may   *)
(* be one of them.                                                         *)
(***************************************************************************)
Init == file = Dirs /\ rc = 0

Opened(c) == {c.a, c.b} \cap Hidden = {}
Readable(c) == Opened(c) /\ IsInfo(file[c.a]) /\ IsInfo(file[c.b])

Result(c) ==
    LET a == parse_file(file[c.a])
        b == parse_file(file[c.b])
        m == IF c.unmerge THEN unmerge_files(a, b) ELSE merge_files(a, b)
    IN  print_info(IF c.duplicate THEN remove_duplicates(m) ELSE m)

RunUnopened(c) == ~Opened(c) /\ rc' = 2 /\ UNCHANGED file

RunUnreadable(c) == Opened(c) /\ ~Readable(c) /\ rc' = 3 /\ UNCHANGED file

RunUnwritable(c) == Readable(c) /\ c.out \in ReadOnly /\ rc' = 4 /\ UNCHANGED file

RunPrinted(c) == Readable(c) /\ c.out = "stdout" /\ rc' = 0 /\ UNCHANGED file

RunWritten(c) ==
    /\ Readable(c) /\ c.out \in DOMAIN file \ ReadOnly
    /\ file' = [file EXCEPT ![c.out] = Result(c)]
    /\ rc' = 0

Run(c) == RunUnopened(c) \/ RunUnreadable(c) \/ RunUnwritable(c) \/ RunPrinted(c) \/ RunWritten(c)

Next == \E c \in Commands : Run(c)
Spec == Init /\ [][Next]_vars
-----------------------------------------------------------------------------
(***************************************************************************)
(* What the tool promises, read off the texts and not off the sections     *)
(* the parser makes of them.                                               *)
(***************************************************************************)
\* An entry stands below the last line before it that is none.
Entries(text) ==
    LET ls == Lines(text)
        heads == {h \in DOMAIN ls : Is(ls[h], {"dir", "text"})}
        items == {i \in DOMAIN ls : Is(ls[i], {"item"})}
        Above(i) == {h \in heads : h < i}
    IN  {<<IF Above(i) = {} THEN "" ELSE ls[Max(Above(i))][1].word, ls[i][1].word>> : i \in items}

ItemLines(text) == SelectSeq(Lines(text), LAMBDA l : Is(l, {"item"}))

\* The entries a call is to leave.
Asked(c) == IF c.unmerge THEN Entries(file[c.a]) \ Entries(file[c.b])
            ELSE Entries(file[c.a]) \cup Entries(file[c.b])

\* What is printed does not depend on where it goes.
Calls == {[c EXCEPT !.out = "stdout"] : c \in {d \in Commands : Readable(d)}}

\* A merged text has the entries of both files, each under its heading, and
\* no other: the parser, merge_files and the printing together.
EntriesMerged ==
    \A c \in Calls : ~c.unmerge /\ ~c.duplicate => Entries(Result(c)) = Asked(c)

\* An unmerged text has the entries of the first file that the second does not
\* have under the same heading, whatever they say and however they are spelt.
EntriesUnmerged ==
    \A c \in Calls : c.unmerge /\ ~c.duplicate => Entries(Result(c)) = Asked(c)

\* With -d every entry asked for stays once, whatever its heading: none is
\* lost with its duplicates (remove_duplicates).
DuplicatesRemoved ==
    \A c \in Calls :
        c.duplicate =>
            LET out == Result(c)
                names == {e[2] : e \in Asked(c)}
            IN  /\ Entries(out) \subseteq Asked(c)
                /\ {e[2] : e \in Entries(out)} = names
                /\ Len(ItemLines(out)) = Cardinality(names)

\* Merging a package's file and taking it out again gives back the text that
\* was there, letter for letter, when it had none of the package's entries.
RoundTrip ==
    \A x, y \in DOMAIN file :
        Marks(file[x]) # {} /\ IsInfo(file[y]) /\ Entries(file[x]) \cap Entries(file[y]) = {} =>
        LET there == print_info(merge_files(parse_file(file[x]), parse_file(file[y])))
        IN  print_info(unmerge_files(parse_file(there), parse_file(file[y]))) = file[x]
=============================================================================
