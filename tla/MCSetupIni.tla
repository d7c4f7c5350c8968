---------------------------- MODULE MCSetupIni -----------------------------
(***************************************************************************)
(* An instance of SetupIni: any of four files may be missing or hold any   *)
(* of five contents, so they name each other, themselves and missing ones, *)
(* set flags and take them back.                                           *)
(***************************************************************************)
EXTENDS SetupIni

MCFile == {"etc", "here", "home", "other"}
MCDir  == {"stow", "stow2"}
MCLink == {"l", "m"}

MCCommand == {"", "*/info", "install-info"}
MCRule    == {"systree", "man"}

MCIniOf == [d \in MCDir |-> IF d = "stow" THEN "here" ELSE "other"]
MCHome  == <<"home">>

None == [f \in {} |-> TRUE]
Sets(f, v) == [g \in {f} |-> v]
Empty == [files |-> <<>>, dirs |-> <<>>, links |-> {}, flags |-> None,
          exec |-> <<>>, nignore |-> <<>>, sections |-> {}]

Rules == <<[match |-> "*/info", exec |-> "install-info"], [match |-> "*/info", exec |-> ""]>>

MCContents ==
    {[Empty EXCEPT !.files = <<"home", "etc">>, !.exec = Rules,
                   !.flags = Sets("in-other-stow-dirs", TRUE)],
     [Empty EXCEPT !.links = {"l"}, !.flags = Sets("keep-targets", TRUE)],
     [Empty EXCEPT !.dirs = <<"stow2">>,
                   !.flags = Sets("in-home", TRUE) @@ Sets("keep-targets", FALSE)],
     [Empty EXCEPT !.links = {"m"}, !.files = <<"other", "other">>,
                   !.flags = Sets("target-add-traversable-links", TRUE) @@ Sets("in-stow-dir", TRUE)],
     [Empty EXCEPT !.dirs = <<"stow2", "stow">>, !.exec = Rules,
                   !.nignore = <<<<"systree", "man">>>>, !.sections = {"systree"},
                   !.flags = Sets("in-other-stow-dirs", FALSE)]}

\* No options; -tkt -tr l -if with no system file; -pta -tr l,m -sd stow2.
MCAsked ==
    {[Empty EXCEPT !.files = <<"etc", "here">>],
     [Empty EXCEPT !.files = <<"here", "other">>, !.links = {"l"},
                   !.flags = Sets("keep-targets", TRUE)],
     [Empty EXCEPT !.files = <<"etc", "here", "home">>, !.links = {"l", "m"}, !.dirs = <<"stow2">>,
                   !.flags = Sets("target-add-traversable-links", TRUE)]}
=============================================================================
