--------------------------- MODULE MCInotifyBackend ---------------------------
(***************************************************************************)
(* Instances of InotifyBackend for TLC.                                    *)
(***************************************************************************)
EXTENDS InotifyBackend

CONSTANTS a, b

Letters == {a, b}
Root == <<>>
OnlyRoot == {Root}

\* The first watch is on the root, the second on a directory found below it.
NestedRoots == [i \in Ids |-> IF i = 1 THEN Root ELSE <<a>>]
DirsForAll == [i \in Ids |-> {"dir", "file"}]

\* A directory in a directory.
Chain == {Root, <<a>>, <<a, b>>}
NoFiles == {}
=============================================================================
