------------------------------ MODULE NIgnore ------------------------------
(***************************************************************************)
(* The nignore rules of src/src/nignore.cpp: chains of rules that name the *)
(* directories of a package whose contents are installed.  Node::scan asks *)
(* them about the directory it reads, the package's own directory too.     *)
(*                                                                         *)
(* The code compares and cuts text: with "dir = /lib" a directory /lib64   *)
(* begins like one of the rule's.  So paths are texts here too.            *)
(***************************************************************************)
EXTENDS Setup

\* getFullPathName: each name after a slash.
TextOf(path) == FlattenSeq([i \in DOMAIN path |-> <<"/">> \o Spelling[path[i]]])

\* text.substr(n), which is left out when nothing would remain.
Cut(text, n) ==
    IF 0 < n /\ n < Len(text) THEN SubSeq(text, n + 1, Len(text)) ELSE text

\* What a rule compares: without as many characters as the package directory
\* has, whatever they are, and without those of the strip text.
PathOf(full, strip) == Cut(Cut(full, Len(TextOf(package))), Len(strip))

Begins(r, path) == {d \in r.dir : IsPrefix(d, path)}

\* NIgnore::match_dir is TRUE, or REQUIRE_NEXT; otherwise it is FALSE.
Accepts(r, path) ==
    \/ path \in r.dir \/ path \in r.glob
    \/ r.follow /\ Begins(r, path) # {}
RequiresNext(r, path) == ~Accepts(r, path) /\ Begins(r, path) # {}

\* The longest directory that begins the path is what the next rule strips.
Strip(r, path) ==
    CHOOSE d \in Begins(r, path) \cup {<<>>} : \A e \in Begins(r, path) : Len(e) <= Len(d)

\* Every rule strips what its predecessor found, from the whole path again.
StripAfter(chain, full) ==
    LET strip[i \in DOMAIN chain] ==
            Strip(chain[i], PathOf(full, IF i = 1 THEN <<>> ELSE strip[i - 1]))
    IN  strip

\* Mutant of SeenBy: the second rule sees the path the first one saw.
SeenByAll(chain, full, i) == PathOf(full, <<>>)

SeenBy(chain, full, i) ==
    PathOf(full, IF i = 1 THEN <<>> ELSE StripAfter(chain, full)[i - 1])

\* NIgnoreChain::match: the first rule that does not ask for the next one
\* decides, a chain that only asks does not match.
Matches(chain, full) ==
    \E i \in DOMAIN chain :
        /\ Accepts(chain[i], SeenBy(chain, full, i))
        /\ \A j \in 1..(i - 1) : RequiresNext(chain[j], SeenBy(chain, full, j))

\* A directory whose contents Node::scan keeps.
Passes(dir) ==
    Config.nignores # <<>> =>
        \E i \in DOMAIN Config.nignores : Matches(Config.nignores[i], TextOf(dir))
=============================================================================
