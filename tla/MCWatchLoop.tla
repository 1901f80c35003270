---------------------------- MODULE MCWatchLoop ----------------------------
(* WatchLoop on a root with two subdirectories and three files, for TLC. *)
EXTENDS WatchLoop, TLC

CONSTANTS root, d1, d2, a, b, backup

MCEntries == {root, d1, d2, a, b, backup}
MCDirs == {root, d1, d2}
MCParent == d1 :> root @@ d2 :> root @@ a :> d1 @@ b :> root @@ backup :> root
MCInitial == {root, d1, a}
AllChanges == {"create", "write", "delete", "move"}
MCIgnored == {backup}
=============================================================================
