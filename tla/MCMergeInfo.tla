---------------------------- MODULE MCMergeInfo ----------------------------
(***************************************************************************)
(* The merge-info tool on small index files: the target's, two packages'   *)
(* that share headings with it and with each other, one of them without    *)
(* the mark, and a file that is no index.                                  *)
(***************************************************************************)
EXTENDS MergeInfo

MCWord == {"", "dir", "UTILS", "SHELL", "MAIL", "diff", "ls", "bash", "mutt"}
MCForm == {"", "small", "other"}

Of(kind, word, form) == [kind |-> kind, word |-> word, form |-> form]
Caps(word) == Of("text", word, "")
Small(word) == Of("text", word, "small")
Item(word) == <<Of("item", word, ""), NL>>
Told(word) == <<Of("item", word, "other"), NL, Of("more", "", ""), NL>>

Menu == <<Of("dir", "dir", ""), NL, NL, Of("menu", "", ""), NL>>
Top == <<US, NL>> \o Menu

Old == Top \o <<NL, Caps("UTILS"), NL>> \o Item("ls") \o Told("bash")
           \o <<NL, Caps("MAIL"), NL>> \o Item("mutt")
New == Top \o <<NL, Small("UTILS"), NL>> \o Item("diff") \o Item("bash")
           \o <<NL, Caps("SHELL"), NL>> \o Item("bash")
Plain == Menu \o <<NL, Caps("MAIL"), NL>> \o Item("mutt") \o Item("diff")
Junk == <<Caps("MAIL"), NL>> \o Item("mutt")

\* No blank line between the entries and the next heading.
Tight == Top \o <<NL, Caps("UTILS"), NL>> \o Item("diff") \o <<Caps("MAIL"), NL>> \o Item("mutt")

MCDirs == [old |-> Old, new |-> New, plain |-> Plain, junk |-> Junk, locked |-> Top, hidden |-> Top]
TightDirs == [old |-> Old, tight |-> Tight]

MCHidden == {"hidden"}
MCReadOnly == {"locked"}

\* The first file is the second, or the result, in some calls.
MCCommands ==
    [unmerge : BOOLEAN, duplicate : BOOLEAN, a : {"old"}, b : {"old", "new", "plain"}, out : {"old"}]
    \cup [unmerge : {FALSE}, duplicate : {FALSE}, a : {"new"}, b : {"plain", "old"}, out : {"new"}]
    \cup [unmerge : {FALSE}, duplicate : {FALSE}, a : {"old", "junk", "hidden"}, b : {"new"},
          out : {"locked", "stdout"}]
TightCommands ==
    [unmerge : {FALSE}, duplicate : {FALSE}, a : {"old"}, b : {"tight"}, out : {"old"}]
=============================================================================
