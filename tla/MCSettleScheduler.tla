------------------------- MODULE MCSettleScheduler -------------------------
(***************************************************************************)
(* Instances of SettleScheduler for TLC: a busy file that must be stable,  *)
(* under a watch with room for one path, and quiet files that are only     *)
(* debounced, under a watch with room for two.                             *)
(***************************************************************************)
EXTENDS SettleScheduler

CONSTANTS busy, quiet, calm, w1, w2

OneFileEach == [k \in Keys |-> IF k = busy THEN w1 ELSE w2]
Limits == [w \in Watches |-> IF w = w1 THEN 1 ELSE 2]
DebounceFor == [w \in Watches |-> IF w = w1 THEN 0 ELSE 1]
Stability == [w \in Watches |-> IF w = w1 THEN 1 ELSE 0]
Events == [k \in Keys |-> IF k = busy THEN 2 ELSE 1]
Writes == [k \in Keys |-> IF k = busy THEN 1 ELSE 0]
=============================================================================
