----------------------------- MODULE TreeExec ------------------------------
(***************************************************************************)
(* Tree::exec_list of src/src/tree.cpp and the copy functions of           *)
(* src/src/copy.cpp: the plan is carried out, one operation per step.      *)
(*                                                                         *)
(* "todo" is the std::list the loop walks: unstow appends to it while the  *)
(* loop runs.  A dir_copy is expanded where it stands: the calls it makes  *)
(* are put before the rest of the list with "sub" set, and all of them are *)
(* dropped when one fails, as every active dir_copy then returns false.    *)
(***************************************************************************)
EXTENDS TreeCheck

VARIABLE todo       \* what is left of the list

execVars == <<todo>>

ExecTypeOK ==
    /\ todo \in Seq(Op)
    /\ phase # "exec" => todo = <<>>

-----------------------------------------------------------------------------
Planned == phase = "check" /\ Top.kids = {} /\ Len(stack) = 1

\* Mutant of ExecBegin: -n and -c are forgotten.
ExecBeginAnyway ==
    /\ Planned
    /\ IF opt.simulate
       THEN phase' = "done" /\ UNCHANGED todo
       ELSE phase' = "exec" /\ todo' = links
    /\ stack' = <<>> /\ links' = <<>>
    /\ UNCHANGED <<deps, at, setupVars, fs>>

\* exec_list up to its loop: with -n, -c or simulate nothing is executed.
ExecBegin ==
    /\ Planned
    /\ IF opt.simulate \/ opt.no_changes
       THEN phase' = "done" /\ UNCHANGED todo
       ELSE phase' = "exec" /\ todo' = links
    /\ stack' = <<>> /\ links' = <<>>
    /\ UNCHANGED <<deps, at, setupVars, fs>>

Current == todo[1]
Rest == SubSeq(todo, 2, Len(todo))
Doing(act) == phase = "exec" /\ todo # <<>> /\ Current.act = act

Failed == phase' = "failed" /\ todo' = <<>> /\ UNCHANGED fs

\* An operation that works or ends the run with false.
Try(can, result) ==
    IF can THEN fs' = result /\ todo' = Rest /\ UNCHANGED phase ELSE Failed

Frame == UNCHANGED <<checkVars, setupVars>>

\* Mutants of ParentRemoval: empty directories are left, or the directory is
\* not looked into.
ParentStays(F, p) == <<>>
ParentRemovalUnseen(F, p) ==
    IF opt.unstow /\ ~keep_dir(F, p) /\ Readable(F, Parent(p))
    THEN <<RemoveOp(Parent(p))>> ELSE <<>>

\* unstow: the directory the entry was in follows when it is empty now.
ParentRemoval(F, p) ==
    IF /\ opt.unstow /\ ~keep_dir(F, p)
       /\ Readable(F, Parent(p)) /\ Entries(F, Parent(p)) = {}
    THEN <<RemoveOp(Parent(p))>> ELSE <<>>

Removed(p, F) ==
    /\ fs' = F
    /\ todo' = Rest \o ParentRemoval(F, p)
    /\ UNCHANGED phase

\* Mutant of ExecRemoveDir: the keep list is not looked at.
ExecRemoveAnyDir ==
    /\ Doing("REMOVE") /\ IsDir(fs, Loc(fs, Current.origin))
    /\ LET p == Current.origin
       IN  IF CanRmdir(fs, p) THEN Removed(p, Drop(fs, p)) ELSE Failed
    /\ Frame

\* A directory goes unless it is kept.
ExecRemoveDir ==
    /\ Doing("REMOVE") /\ IsDir(fs, Loc(fs, Current.origin))
    /\ LET p == Current.origin
       IN  IF keep_dir(fs, p) THEN Removed(p, fs)
           ELSE IF CanRmdir(fs, p) THEN Removed(p, Drop(fs, p))
           ELSE Failed
    /\ Frame

\* A link or a file; "!file" is also true of a link that leads nowhere.
ExecUnlink ==
    /\ Doing("REMOVE") /\ ~IsDir(fs, Loc(fs, Current.origin))
    /\ LET p == Current.origin
       IN  IF Valid(fs, p) /\ CanUnlink(fs, p) THEN Removed(p, Drop(fs, p)) ELSE Failed
    /\ Frame

ExecMkdir ==
    /\ Doing("MKDIR")
    /\ Try(CanMake(fs, Current.target), Put(fs, Loc(fs, Current.target), Dir))
    /\ Frame

\* Mutant of ExecSetLink: a file that has come to the place is replaced.
ExecSetLinkOver ==
    /\ Doing("SET_LINK")
    /\ LET l == Loc(fs, Current.target)
       IN  Try(Changeable(fs, l) /\ ~IsDir(fs, l), Put(fs, l, Link(Current.origin)))
    /\ Frame

ExecSetLink ==
    /\ Doing("SET_LINK")
    /\ Try(CanMake(fs, Current.target), Put(fs, Loc(fs, Current.target), Link(Current.origin)))
    /\ Frame
-----------------------------------------------------------------------------
(***************************************************************************)
(* Copies and commands: failures are reported and the loop goes on.        *)
(***************************************************************************)
Subs == {i \in DOMAIN todo : todo[i].sub}
DropSubs == SubSeq(todo, Cardinality(Subs) + 1, Len(todo))

\* file_copy fails: one more line of output, or the end of the dir_copy.
CopyFailed == todo' = (IF Current.sub THEN DropSubs ELSE Rest) /\ UNCHANGED <<fs, phase>>

CanCopy(o, t) == IsFile(fs, Stat(fs, o)) /\ CanOpenW(fs, t)

\* The target is truncated before the first read: a file copied onto itself
\* ends up empty.
Content(o, t) == IF Stat(fs, o) = Stat(fs, t) THEN <<>> ELSE fs[Stat(fs, o)].ref

file_copy ==
    /\ Doing("COPY")
    /\ IF CanCopy(Current.origin, Current.target)
       THEN /\ fs' = Write(fs, Current.target, Content(Current.origin, Current.target))
            /\ todo' = Rest
            /\ UNCHANGED phase
       ELSE CopyFailed
    /\ Frame

SubOp(o, t, n) ==
    [MkOp(IF IsDirNode(Append(o, n)) THEN "COPY_DIR" ELSE "COPY",
          Append(o, n), Append(t, n), "") EXCEPT !.sub = TRUE]

\* The calls dir_copy makes for the files of o, in an order readdir gives.
Calls(o, t) ==
    LET names == IF Readable(fs, o) THEN Entries(fs, o) ELSE {}
    IN  {[i \in DOMAIN s |-> SubOp(o, t, s[i])] : s \in SetToSeqs(names)}

\* Mutant of dir_copy: the directory is made, its files are not copied.
dir_copy_flat ==
    /\ Doing("COPY_DIR")
    /\ IF CanMake(fs, Current.target)
       THEN /\ fs' = Put(fs, Loc(fs, Current.target), Dir)
            /\ todo' = Rest
            /\ UNCHANGED phase
       ELSE CopyFailed
    /\ Frame

dir_copy ==
    /\ Doing("COPY_DIR")
    /\ LET o == Current.origin
           t == Current.target
       IN  IF Readable(fs, t) \/ CanMake(fs, t)
           THEN /\ fs' = (IF Readable(fs, t) THEN fs ELSE Put(fs, Loc(fs, t), Dir))
                /\ \E calls \in Calls(o, t) : todo' = calls \o Rest
                /\ UNCHANGED phase
           ELSE CopyFailed
    /\ Frame

\* system(): the command is the user's; it may fail and do nothing, or
\* rewrite its target as merge-info does, which opens it like file_copy.
ExecCommand ==
    /\ Doing("EXEC")
    /\ fs' \in {fs} \cup (IF CanOpenW(fs, Current.target)
                          THEN {Write(fs, Current.target, <<>>)} ELSE {})
    /\ todo' = Rest
    /\ UNCHANGED phase
    /\ Frame

ExecEnd ==
    /\ phase = "exec" /\ todo = <<>>
    /\ phase' = "done"
    /\ UNCHANGED <<fs, todo>>
    /\ Frame

ExecStep ==
    \/ ExecBegin \/ ExecRemoveDir \/ ExecUnlink \/ ExecMkdir \/ ExecSetLink
    \/ file_copy \/ dir_copy \/ ExecCommand \/ ExecEnd
=============================================================================
