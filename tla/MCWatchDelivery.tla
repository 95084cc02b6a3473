--------------------------- MODULE MCWatchDelivery ---------------------------
(***************************************************************************)
(* Instances of WatchDelivery for TLC.                                     *)
(***************************************************************************)
EXTENDS WatchDelivery

CONSTANTS c1, c2, cb1

\* Either application threads shut the watcher down, or its callback does.
ClientsOrCallback == {Clients, {"delivery"}}

\* An application thread shuts the watcher down while its callback does.
ClientsAndCallback == {Clients \cup {"delivery"}}
=============================================================================
