------------------------------- MODULE Filters -------------------------------
(***************************************************************************)
(* The erase-remove idiom: std::erase_if of the inotify backend's queues,  *)
(* std::remove_if of the desktop ids in mimeapps.list.                     *)
(***************************************************************************)
EXTENDS Naturals, Sequences

\* What is left of a sequence when only the elements of a set stay.
KeepIn(s, S) ==
  LET kept[i \in 0 .. Len(s)] ==
        IF i = 0 THEN <<>>
        ELSE IF s[i] \in S THEN Append(kept[i - 1], s[i]) ELSE kept[i - 1]
  IN kept[Len(s)]
=============================================================================
