---------------------------- MODULE MCFolderMoves ----------------------------
EXTENDS FolderMoves

MCFolders == {<<"S">>, <<"N">>, <<"P">>, <<"P", "S">>, <<"P", "N">>, <<"S", "I">>, <<"N", "I">>}
MCFileNames == {"f", "g", "copy"}
MCCopyOf == [x \in MCFileNames |-> IF x = "copy" THEN Nil ELSE "copy"]
MCTexts == {"a", "A", "b", "c"}
MCFileOf == [t \in MCTexts |-> IF t = "A" THEN "a" ELSE t]
MCSmall == {"b"}
MCShares == {"s"}
MCStart ==
    << [path |-> <<"S">>, text |-> Nil, share |-> "s", root |-> TRUE],
       [path |-> <<"S", "f">>, text |-> "a", share |-> "s", root |-> FALSE],
       [path |-> <<"P">>, text |-> Nil, share |-> Nil, root |-> FALSE],
       [path |-> <<"S", "I">>, text |-> Nil, share |-> "s", root |-> FALSE],
       [path |-> <<"S", "I", "g">>, text |-> "b", share |-> "s", root |-> FALSE] >>
=============================================================================
