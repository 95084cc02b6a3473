-------------------------- MODULE MCWindowsBackend --------------------------
(***************************************************************************)
(* Instances of WindowsBackend for TLC.                                    *)
(***************************************************************************)
EXTENDS WindowsBackend

CONSTANTS a, b

\* The first watch is on a directory, the second on the file b.
DirectoryAndFile == [id \in Ids |-> IF id = 1 THEN NoName ELSE b]
NoWatch == {}
\* A rename, of which a watch on the file b maps the second record alone.
OneRename == {Moved(a, b)}
=============================================================================
