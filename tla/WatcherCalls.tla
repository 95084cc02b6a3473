---------------------------- MODULE WatcherCalls ----------------------------
(***************************************************************************)
(* The calls of the watcher facade (watch.cpp, watcher::impl) as a backend *)
(* sees them: which caller is inside the backend, with which command, and  *)
(* what the facade records of it.  add_watch and remove_watch hold the     *)
(* facade's mutex through the whole backend call; stop() only takes it to  *)
(* set the flag and calls the backend outside it.                          *)
(*                                                                         *)
(* LibuvBackend and WindowsBackend extend this module with what happens    *)
(* between "inside" and "answered".                                        *)
(***************************************************************************)
EXTENDS Naturals

CONSTANTS
  Callers,       \* the threads that use the facade
  NoOne,         \* nobody holds the mutex
  MaxWatches,    \* bound: watch identifiers handed out
  MaxCalls       \* bound: calls made

ASSUME CallsAssumption ==
  /\ NoOne \notin Callers
  /\ MaxWatches \in Nat \ {0}
  /\ MaxCalls \in Nat

VARIABLES
  outer,         \* mutex_ of the facade: its holder
  registered,    \* watches_ of the facade
  closing,       \* stopped_ of the facade
  nextId,        \* next_id_
  made,          \* calls made so far
  call           \* each caller's call

facade == <<outer, registered, closing, nextId, made, call>>

Ids == 1 .. MaxWatches
Operations == {"add", "remove", "stop"}
Places == {"idle", "inside", "answered", "joining"}
NoCall == [op |-> "stop", id |-> 0, at |-> "idle", ok |-> FALSE]

FacadeInit ==
  /\ outer = NoOne
  /\ registered = {}
  /\ closing = FALSE
  /\ nextId = 1
  /\ made = 0
  /\ call = [c \in Callers |-> NoCall]

FacadeTypeOK ==
  /\ outer \in Callers \cup {NoOne}
  /\ registered \subseteq Ids
  /\ closing \in BOOLEAN
  /\ nextId \in 1 .. MaxWatches + 1
  /\ made \in 0 .. MaxCalls
  /\ call \in [Callers -> [op : Operations, id : Ids \cup {0}, at : Places, ok : BOOLEAN]]

\* Caller c makes its next call: it goes to place `at` with (op, id).
Calls(c, op, id, at) ==
  /\ call[c].at = "idle"
  /\ made < MaxCalls
  /\ made' = made + 1
  /\ call' = [call EXCEPT ![c] = [op |-> op, id |-> id, at |-> at, ok |-> FALSE]]

\* The mutex is released before the backend is called (mutant).
AddWatchUnlocked(c) ==
  /\ outer = NoOne
  /\ ~closing
  /\ nextId <= MaxWatches
  /\ Calls(c, "add", nextId, "inside")
  /\ nextId' = nextId + 1
  /\ UNCHANGED <<outer, registered, closing>>

\* add_watch: refused after a stop (nothing changes then), else in the
\* backend with a fresh identifier and with the mutex held.
AddWatch(c) ==
  /\ outer = NoOne
  /\ ~closing
  /\ nextId <= MaxWatches
  /\ Calls(c, "add", nextId, "inside")
  /\ outer' = c
  /\ nextId' = nextId + 1
  /\ UNCHANGED <<registered, closing>>

\* remove_watch: any identifier ever handed out; the stop flag is not asked.
RemoveWatch(c) ==
  /\ outer = NoOne
  /\ \E id \in 1 .. nextId - 1 : Calls(c, "remove", id, "inside")
  /\ outer' = c
  /\ UNCHANGED <<registered, closing, nextId>>

\* The first stop() goes on to stop the backend, a later one only to join.
Stop(c) ==
  /\ outer = NoOne
  /\ Calls(c, "stop", 0, IF closing THEN "joining" ELSE "inside")
  /\ closing' = TRUE
  /\ UNCHANGED <<outer, registered, nextId>>

\* The backend answers the call of c.
Answer(c, ok) == call' = [call EXCEPT ![c].at = "answered", ![c].ok = ok]

\* add_watch and remove_watch record the answer, unlock and return.
Record(c) ==
  /\ call[c].at = "answered"
  /\ call[c].op # "stop"
  /\ registered' = IF ~call[c].ok THEN registered
                   ELSE IF call[c].op = "add" THEN registered \cup {call[c].id}
                   ELSE registered \ {call[c].id}
  /\ outer' = NoOne
  /\ call' = [call EXCEPT ![c] = NoCall]
  /\ UNCHANGED <<closing, nextId, made>>

\* stop() goes on to join the worker that reads the backend's events ...
StopBackendDone(c) ==
  /\ call[c].at = "answered"
  /\ call[c].op = "stop"
  /\ call' = [call EXCEPT ![c].at = "joining"]
  /\ UNCHANGED <<outer, registered, closing, nextId, made>>

\* ... and returns when that worker has ended.
StopReturns(c, workerEnded) ==
  /\ call[c].at = "joining"
  /\ workerEnded
  /\ call' = [call EXCEPT ![c] = NoCall]
  /\ UNCHANGED <<outer, registered, closing, nextId, made>>

\* watch_is_active: what the worker asks of an event before it passes it on.
WatchIsActive(id) == ~closing /\ id \in registered
=============================================================================
