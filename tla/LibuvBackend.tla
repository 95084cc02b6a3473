---------------------------- MODULE LibuvBackend ----------------------------
(***************************************************************************)
(* watch_libuv.cpp: callers hand commands to the thread that runs the      *)
(* event loop and wait on a condition variable inside each command; the    *)
(* loop thread owns the watches and the handles, and queues events for the *)
(* facade's worker.                                                        *)
(*                                                                         *)
(* One action per section under the backend's mutex, and one for each      *)
(* unlocked step between two of them.  The loop's own promises (a signal   *)
(* sent to an open async handle is answered by a later callback, a closed  *)
(* handle is freed by a later turn, uv_run ends when no handle is left)    *)
(* are libuv's.                                                            *)
(***************************************************************************)
EXTENDS WatcherCalls, Sequences, FiniteSets

CONSTANTS
  MaxEvents,     \* bound: file system events that reach the loop
  Spurious       \* whether a condition variable may wake without a notify

ASSUME LibuvAssumption == MaxEvents \in Nat /\ Spurious \in BOOLEAN

VARIABLES
  commands,      \* pending_commands_: the callers whose command is queued
  signalled,     \* the async handle has a signal that is not yet answered
  alive,         \* callers whose command object is allocated
  completed,     \* ... and marked completed
  notified,      \* ... and whose wait has been notified
  leaving,       \* callers of stop() that join the loop thread
  loopAt,        \* where the loop thread is
  serving,       \* the caller whose command it processes
  granted,       \* commands whose result.ok is set
  watches,       \* watches_: the identifiers with an open handle
  freeing,       \* handles closed and not yet freed by the loop
  asyncOpen,     \* the async handle is not closed
  stopped,       \* stopped_
  ready,         \* ready_events_: the watch of each event
  emitted,       \* events so far
  raw,           \* the facade's worker: where it is,
  held,          \* the event in its hands
  outcome        \* and what became of the last one

loop == <<signalled, loopAt, serving, granted, watches, freeing, asyncOpen>>
memory == <<alive, completed, notified>>
worker == <<raw, held, outcome>>
vars == <<facade, commands, loop, memory, leaving, stopped, ready, emitted, worker>>

LoopPlaces == {"polling", "popping", "running", "closing", "finishing", "notifying", "pushed", "ended"}

Init ==
  /\ FacadeInit
  /\ commands = <<>> /\ signalled = FALSE
  /\ alive = {} /\ completed = {} /\ notified = {} /\ leaving = {}
  /\ loopAt = "polling" /\ serving = NoOne /\ granted = {}
  /\ watches = {} /\ freeing = 0 /\ asyncOpen = TRUE
  /\ stopped = FALSE /\ ready = <<>> /\ emitted = 0
  /\ raw = "asking" /\ held = 0 /\ outcome = "none"

\* Every variable keeps its type; a handle is closed once, so that no more
\* are open or waiting to be freed than identifiers were handed out.
TypeOK ==
  /\ FacadeTypeOK
  /\ commands \in Seq(Callers) /\ Len(commands) <= MaxCalls
  /\ alive \subseteq Callers /\ completed \subseteq Callers /\ notified \subseteq Callers /\ leaving \subseteq Callers
  /\ loopAt \in LoopPlaces /\ serving \in Callers \cup {NoOne}
  /\ {signalled, asyncOpen, stopped} \subseteq BOOLEAN /\ granted \subseteq Callers
  /\ watches \subseteq Ids /\ freeing + Cardinality(watches) \in 0 .. MaxWatches
  /\ ready \in Seq(Ids) /\ emitted \in 0 .. MaxEvents
  /\ raw \in {"asking", "parked", "holding", "quitting", "ended"} /\ held \in Ids \cup {0}
  /\ outcome \in {"none", "reported", "dropped"}
-----------------------------------------------------------------------------
(* A caller inside the backend *)

\* The caller is inside and has not handed over a command.
AtSubmit(c) == call[c].at = "inside" /\ c \notin alive \cup leaving

\* add_watch: the path is missing, is no file or directory, or asks for a
\* recursion that the platform has not: answered without a command.
RefusePath(c) ==
  /\ AtSubmit(c) /\ call[c].op = "add"
  /\ Answer(c, FALSE)
  /\ UNCHANGED <<outer, registered, closing, nextId, made, commands, loop, memory, leaving, stopped, ready, emitted, worker>>

\* submit() when the backend is stopped: only a stop command is taken then.
RefuseStopped(c) ==
  /\ AtSubmit(c) /\ stopped /\ call[c].op # "stop"
  /\ Answer(c, FALSE)
  /\ UNCHANGED <<outer, registered, closing, nextId, made, commands, loop, memory, leaving, stopped, ready, emitted, worker>>

\* submit() that does not ask for the stop flag (mutant).
SubmitUnasked(c) ==
  /\ AtSubmit(c)
  /\ commands' = Append(commands, c)
  /\ alive' = alive \cup {c}
  /\ signalled' = (signalled \/ asyncOpen)
  /\ UNCHANGED <<facade, loopAt, serving, granted, watches, freeing, asyncOpen, completed, notified, leaving, stopped, ready, emitted, worker>>

\* submit(): allocate the command, queue it, signal the loop and wait; the
\* lock is held from the question about stopped_ until the wait.
Submit(c) ==
  /\ AtSubmit(c)
  /\ stopped => call[c].op = "stop"
  /\ commands' = Append(commands, c)
  /\ alive' = alive \cup {c}
  /\ signalled' = (signalled \/ asyncOpen)
  /\ UNCHANGED <<facade, loopAt, serving, granted, watches, freeing, asyncOpen, completed, notified, leaving, stopped, ready, emitted, worker>>

\* The wait ends: the predicate holds, the result is moved out and the
\* command is deleted.  stop() goes on to join the loop thread.
TakeResult(c) ==
  /\ c \in alive /\ c \in completed
  /\ c \in notified \/ Spurious
  /\ alive' = alive \ {c} /\ completed' = completed \ {c} /\ notified' = notified \ {c}
  /\ granted' = granted \ {c}
  /\ IF call[c].op = "stop"
     THEN leaving' = leaving \cup {c} /\ UNCHANGED call
     ELSE Answer(c, c \in granted) /\ UNCHANGED leaving
  /\ UNCHANGED <<outer, registered, closing, nextId, made, commands, signalled, loopAt, serving, watches, freeing, asyncOpen, stopped, ready, emitted, worker>>

\* stop() of the backend: the loop thread has been joined, the loop is closed.
JoinLoop(c) ==
  /\ c \in leaving /\ loopAt = "ended"
  /\ leaving' = leaving \ {c}
  /\ Answer(c, TRUE)
  /\ UNCHANGED <<outer, registered, closing, nextId, made, commands, loop, memory, stopped, ready, emitted, worker>>

CallerStep(c) ==
  \/ RefusePath(c) \/ RefuseStopped(c) \/ Submit(c) \/ TakeResult(c) \/ JoinLoop(c)
  \/ /\ Record(c) \/ StopBackendDone(c) \/ StopReturns(c, raw = "ended")
     /\ UNCHANGED <<commands, loop, memory, leaving, stopped, ready, emitted, worker>>

NewCall(c) ==
  /\ AddWatch(c) \/ RemoveWatch(c) \/ Stop(c)
  /\ UNCHANGED <<commands, loop, memory, leaving, stopped, ready, emitted, worker>>
-----------------------------------------------------------------------------
(* The loop thread *)

\* The async callback: process_commands starts.
AnswerSignal ==
  /\ loopAt = "polling" /\ signalled /\ asyncOpen
  /\ signalled' = FALSE
  /\ loopAt' = "popping"
  /\ UNCHANGED <<facade, commands, serving, granted, watches, freeing, asyncOpen, memory, leaving, stopped, ready, emitted, worker>>

\* process_commands: the next command, or back to the loop.
Pop ==
  /\ loopAt = "popping"
  /\ IF commands = <<>>
     THEN loopAt' = "polling" /\ serving' = NoOne /\ UNCHANGED commands
     ELSE loopAt' = "running" /\ serving' = Head(commands) /\ commands' = Tail(commands)
  /\ UNCHANGED <<facade, signalled, granted, watches, freeing, asyncOpen, memory, leaving, stopped, ready, emitted, worker>>

\* add_watch_on_loop: init fails (nothing is left), start fails (its handle
\* is closed), or the watch is recorded.
AddOnLoop ==
  /\ loopAt = "running" /\ call[serving].op = "add"
  /\ \/ UNCHANGED <<granted, watches, freeing>>
     \/ freeing' = freeing + 1 /\ UNCHANGED <<granted, watches>>
     \/ granted' = granted \cup {serving} /\ watches' = watches \cup {call[serving].id} /\ UNCHANGED freeing
  /\ loopAt' = "finishing"
  /\ UNCHANGED <<facade, commands, signalled, serving, asyncOpen, memory, leaving, stopped, ready, emitted, worker>>

\* remove_watch_on_loop: an unknown identifier is answered with false.
RemoveOnLoop ==
  /\ loopAt = "running" /\ call[serving].op = "remove"
  /\ granted' = IF call[serving].id \in watches THEN granted \cup {serving} ELSE granted
  /\ watches' = watches \ {call[serving].id}
  /\ freeing' = IF call[serving].id \in watches THEN freeing + 1 ELSE freeing
  /\ loopAt' = "finishing"
  /\ UNCHANGED <<facade, commands, signalled, serving, asyncOpen, memory, leaving, stopped, ready, emitted, worker>>

\* stop_on_loop, first half: the flag, under the lock.
StopOnLoop ==
  /\ loopAt = "running" /\ call[serving].op = "stop"
  /\ stopped' = TRUE
  /\ loopAt' = "closing"
  /\ UNCHANGED <<facade, commands, signalled, serving, granted, watches, freeing, asyncOpen, memory, leaving, ready, emitted, worker>>

\* A notify wakes the worker if it is parked.
WakeWorker == raw' = IF raw = "parked" THEN "asking" ELSE raw

\* stop_on_loop, second half: every handle is closed, then the wake-up.
CloseHandles ==
  /\ loopAt = "closing"
  /\ freeing' = freeing + Cardinality(watches)
  /\ watches' = {}
  /\ asyncOpen' = FALSE
  /\ signalled' = FALSE
  /\ granted' = granted \cup {serving}
  /\ loopAt' = "finishing"
  /\ WakeWorker
  /\ UNCHANGED <<facade, commands, serving, memory, leaving, stopped, ready, emitted, held, outcome>>

\* The command is marked completed under the lock ...
Complete ==
  /\ loopAt = "finishing"
  /\ completed' = completed \cup {serving}
  /\ loopAt' = "notifying"
  /\ UNCHANGED <<facade, commands, signalled, serving, granted, watches, freeing, asyncOpen, alive, notified, leaving, stopped, ready, emitted, worker>>

\* ... and its condition variable is notified after the lock is released.
Notify ==
  /\ loopAt = "notifying"
  /\ notified' = notified \cup ({serving} \cap alive)
  /\ loopAt' = "popping"
  /\ UNCHANGED <<facade, commands, signalled, serving, granted, watches, freeing, asyncOpen, alive, completed, leaving, stopped, ready, emitted, worker>>

\* A later turn of the loop frees a closed handle.
FreeHandle ==
  /\ loopAt = "polling" /\ freeing > 0
  /\ freeing' = freeing - 1
  /\ UNCHANGED <<facade, commands, signalled, loopAt, serving, granted, watches, asyncOpen, memory, leaving, stopped, ready, emitted, worker>>

\* uv_run returns: no handle is open or waiting to be freed.
LoopEnds ==
  /\ loopAt = "polling"
  /\ watches = {} /\ freeing = 0 /\ ~asyncOpen
  /\ loopAt' = "ended"
  /\ UNCHANGED <<facade, commands, signalled, serving, granted, watches, freeing, asyncOpen, memory, leaving, stopped, ready, emitted, worker>>

\* on_event and push_event: an event (or an error, which degrades the
\* stream) of a watch whose kind of file is wanted is queued under the lock;
\* the wake-up follows outside it.
OnEvent(id) ==
  /\ loopAt = "polling" /\ id \in watches
  /\ emitted < MaxEvents
  /\ emitted' = emitted + 1
  /\ ready' = Append(ready, id)
  /\ loopAt' = "pushed"
  /\ UNCHANGED <<facade, commands, signalled, serving, granted, watches, freeing, asyncOpen, memory, leaving, stopped, worker>>

PushNotifies ==
  /\ loopAt = "pushed"
  /\ WakeWorker
  /\ loopAt' = "polling"
  /\ UNCHANGED <<facade, commands, signalled, serving, granted, watches, freeing, asyncOpen, memory, leaving, stopped, ready, emitted, held, outcome>>

LoopStep ==
  \/ AnswerSignal \/ Pop \/ AddOnLoop \/ RemoveOnLoop \/ StopOnLoop \/ CloseHandles
  \/ Complete \/ Notify \/ FreeHandle \/ LoopEnds \/ PushNotifies
-----------------------------------------------------------------------------
(* The facade's worker, in wait_event and in run() *)

WaitEvent ==
  /\ raw = "asking"
  /\ IF ready # <<>>
     THEN raw' = "holding" /\ held' = Head(ready) /\ ready' = Tail(ready)
     ELSE raw' = (IF stopped THEN "quitting" ELSE "parked") /\ UNCHANGED <<held, ready>>
  /\ UNCHANGED <<facade, commands, loop, memory, leaving, stopped, emitted, outcome>>

\* watch_is_active takes the facade's mutex.
Filter ==
  /\ raw = "holding" /\ outer = NoOne
  /\ outcome' = IF WatchIsActive(held) THEN "reported" ELSE "dropped"
  /\ raw' = "asking" /\ held' = 0
  /\ UNCHANGED <<facade, commands, loop, memory, leaving, stopped, ready, emitted>>

\* No event came: run() returns if the facade is stopped, else asks again.
Quit ==
  /\ raw = "quitting" /\ outer = NoOne
  /\ raw' = IF closing THEN "ended" ELSE "asking"
  /\ UNCHANGED <<facade, commands, loop, memory, leaving, stopped, ready, emitted, held, outcome>>

WorkerStep == WaitEvent \/ Filter \/ Quit

Next ==
  \/ \E c \in Callers : NewCall(c) \/ CallerStep(c)
  \/ LoopStep
  \/ \E id \in Ids : OnEvent(id)
  \/ WorkerStep

\* Threads that can run do run; nothing forces a new call or an event.
Fairness ==
  /\ \A c \in Callers : WF_vars(CallerStep(c))
  /\ WF_vars(LoopStep)
  /\ WF_vars(WorkerStep)

Spec == Init /\ [][Next]_vars /\ Fairness
-----------------------------------------------------------------------------
(* Properties *)

\* An event of a watch the loop still has is passed on unless a stop has
\* begun: the worker cannot look between the loop's registration and the
\* facade's, because add_watch holds the mutex throughout.
ActiveEventsReported ==
  [][raw = "holding" /\ raw' = "asking" /\ held \in watches /\ ~closing => outcome' = "reported"]_vars

\* Every call returns: no command is left in the queue of a loop that has
\* ended, no stop waits for a loop that a late handle keeps running.
CallsReturn == \A c \in Callers : call[c].at # "idle" ~> call[c].at = "idle"
=============================================================================
