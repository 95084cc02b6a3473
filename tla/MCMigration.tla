----------------------------- MODULE MCMigration -----------------------------
(***************************************************************************)
(* An instance of MigrationExecution for TLC.                              *)
(***************************************************************************)
EXTENDS MigrationExecution

CONSTANTS self, x, new, old, absent

A(kind, from, to) == [kind |-> kind, from |-> from, to |-> to, dangerous |-> IsMoveAction(kind), elevation |-> FALSE]
Elevated(a) == [a EXCEPT !.elevation = TRUE]
File(content) == [kind |-> "file", files |-> [e \in Entries |-> IF e = self THEN content ELSE absent]]
Directory(content) == [kind |-> "directory", files |-> [e \in Entries |-> content]]
Link == [kind |-> "link", files |-> [e \in Entries |-> absent]]

\* A directory is moved over another, which is copied; a file is copied and
\* renamed; a directory is copied with more rights and moved; a registry action is not executed.
SomePlans == {
  <<A("move_directory", 1, 2), A("copy_directory", 2, 3)>>,
  <<A("copy_file", 1, 2), A("rename_file", 1, 3)>>,
  <<Elevated(A("copy_directory", 1, 2)), A("move_directory", 1, 3)>>,
  <<A("registry", 1, 2)>> }

\* The source is a directory, a file or a link; the targets are free or taken.
SomeTrees ==
  { [l \in Locations |-> IF l = 1 THEN source ELSE IF l = 2 THEN second ELSE Nothing] :
      source \in {Directory(new), File(new), Link},
      second \in {Nothing, Directory(old), File(old)} }

AllOptions == [dryRun : BOOLEAN, overwriteExisting : BOOLEAN, allowDangerous : BOOLEAN,
               allowElevation : BOOLEAN, createParents : BOOLEAN]
=============================================================================
