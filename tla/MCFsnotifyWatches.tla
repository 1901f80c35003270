------------------------- MODULE MCFsnotifyWatches -------------------------
(***************************************************************************)
(* A directory with a file in it and one more that may be made, two of     *)
(* which can be watched while a read may fail; and two directories, one in *)
(* the other, which can be watched as the root can.                        *)
(***************************************************************************)
EXTENDS FsnotifyWatches

CONSTANTS up, down, file

MCDirs == {up, down}
MCFiles == {file}
MCNames == {"a", "ab", "c", "x", "y"}
MCRest == <<"ab", "a">> :> "b"
In(folder, name) == [in |-> folder, name |-> name]
MCStarts ==
  { [tree |-> up :> In(Root, "a") @@ down :> New @@ file :> In(up, "x"), used |-> {"a", "x", "y"},
     calls |-> 2, changes |-> 2, faults |-> 1],
    [tree |-> up :> In(Root, "a") @@ down :> In(up, "x") @@ file :> Gone, used |-> {"a", "x"},
     calls |-> 3, changes |-> 2, faults |-> 0] }
=============================================================================
