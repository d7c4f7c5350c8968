------------------------------- MODULE Restow -------------------------------
(***************************************************************************)
(* Why the stow half of -R meets no conflict: what check saw in the unstow *)
(* half at the names of the package is a directory it can go into again,   *)
(* or it is on the list to be removed, and nothing else comes there.       *)
(***************************************************************************)
EXTENDS Clean

(***************************************************************************)
(* A host where that can be relied on: the stow directory stands below the *)
(* target, so that no unstow removes the target (run v_restow); everything *)
(* may be installed everywhere, since unstow does not ask what stow will;  *)
(* -R is carried out, without -f, and nobody else changes the disk.        *)
(***************************************************************************)
RestowHost(h) ==
    /\ TidyHost(h) /\ Hosts[h].edits = {} /\ Hosts[h].conf.protectTargets = {}
    /\ IsInDir(StowDir, Target)
    /\ \A c \in Hosts[h].commands :
          c.opt.restow => ~c.opt.force /\ ~c.opt.simulate /\ ~c.opt.no_changes
-----------------------------------------------------------------------------
\* What check looks at, in the package at hand.
Nodes ==
    {q \in DOMAIN fs :
        /\ IsStrictPrefix(package, q)
        /\ IsDir(fs, q) \/ ~(match_ignore(q[Len(q)]) \/ match_ignore_file_in_dir(package, q))}

\* check can go into directory d, if it is one.
Usual(d) == IsDir(fs, d) => fs[d].read /\ fs[d].write

\* Nothing at the place of q is a conflict: there is nothing, or it is none of
\* XStow's links and check passes it over or goes into it.
Free(q) ==
    Dest(q) \in DOMAIN fs =>
        \/ /\ IsDir(fs, q) /\ ~IsLink(fs, Dest(q))
           /\ ~match_protect_dirs(Dest(q)) /\ Usual(Dest(q))
        \/ ~IsDir(fs, q) /\ match_ignore_file_in_dir(Parent(q), q)

\* Nor will there be when list L is done.
Settled(L, q) ==
    /\ Made(L, Dest(q)) => ~match_protect_dirs(Dest(q))
    /\ Free(q) \/ (IsLink(fs, Dest(q)) /\ ToUnlink(L, q))

\* What list L makes at a place of the package is a directory for a directory.
DirForDir(L) ==
    \A j \in DOMAIN L : \A q \in Nodes :
        ~Removes(L, j) /\ L[j].target = Dest(q) => L[j].act = "MKDIR" /\ IsDir(fs, q)

\* The directories it makes are seen where they are made, through links.
InView(L) == \A j \in DOMAIN L : L[j].act = "MKDIR" => DirAt(fs, L[j].target)

\* check goes on to q.
Entering(q) == phase \in {"deps", "dive"} /\ IsInDir(q, at.base)

\* The target stays.
Rooted == IsDir(fs, Target) /\ Usual(Target)

\* The unstow half.
Clearing ==
    /\ phase \in {"check", "deps", "dive", "exec", "done"} => Rooted
    /\ phase \in {"check", "deps", "dive"} =>
          /\ DirForDir(links) /\ InView(links)
          /\ \A q \in Nodes : Settled(links, q) \/ Coming(q) \/ Entering(q)
    /\ phase \in {"deps", "dive"} =>
          /\ ~match_protect_dirs(at.entry)
          /\ IsLink(fs, at.entry) => ToUnlink(links, at.base)
    /\ phase = "deps" =>
          \A k \in DOMAIN deps : \A n \in deps[k].rest : Append(deps[k].a, n) \notin Nodes
    /\ phase = "dive" =>
          IsDir(fs, at.base) /\ at.into = at.entry /\ (LinkAt(fs, at.entry) => DirAt(fs, at.entry))
    /\ phase = "exec" => DirForDir(todo) /\ \A q \in Nodes : Settled(todo, q)
    /\ phase = "done" => \A q \in Nodes : Free(q)

\* The stow half: check works in directories of the disk only.
Reinstalling ==
    /\ phase \notin {"deps", "refused"}
    /\ phase \in {"begin", "check", "dive"} => Rooted /\ \A q \in Nodes : Free(q)
    /\ phase \in {"check", "dive"} =>
          \A k \in DOMAIN stack :
              IsDir(fs, stack[k].dir) /\ \A n \in stack[k].kids : Append(stack[k].base, n) \in Nodes
    /\ phase = "dive" =>
          at.base \in Nodes /\ at.into = at.entry /\ at.entry \in DOMAIN fs /\ ~IsLink(fs, at.entry)

RestowInv ==
    /\ RestowHost(host) /\ ptargets = {}
    /\ again => opt.restow /\ opt.unstow
    /\ opt.restow => ~opt.force /\ ~opt.simulate /\ ~opt.no_changes
    /\ opt.restow /\ opt.unstow => Clearing
    /\ opt.restow /\ ~opt.unstow => Reinstalling
=============================================================================
