--------------------------- MODULE WindowsBackend ---------------------------
(***************************************************************************)
(* watch_windows.cpp: one worker thread per watch reads the directory's    *)
(* changes through an overlapped read and an event object; callers stop    *)
(* and join it.  The kernel buffers the changes of an open handle from its *)
(* first read on, and may give them up for an empty completion.            *)
(*                                                                         *)
(* The handle and the event object of a worker are opened and closed       *)
(* together and are one thing here.                                        *)
(***************************************************************************)
EXTENDS WatcherCalls, Sequences

CONSTANTS
  Names,         \* names of entries in a watched directory
  NoName,
  FileOf,        \* the name a watch on a single file filters for, or NoName
  Picky,         \* watches that want only files or only directories
  Happenings,    \* what may happen in a directory: the renames Moved(a, b)
  MaxChanges,    \* bound: changes in the directories
  MaxMishaps     \* bound: overflows and failed calls of the system

\* What the kernel may say of an entry: that it is the old name of a rename,
\* its new name with the one it replaces, or something else.
Entries == [action : {"old", "new", "other"}, name : Names, was : Names \cup {NoName}]

ASSUME HappeningsAssumption == Happenings \subseteq Seq(Entries)
ASSUME WindowsAssumption ==
  /\ NoName \notin Names
  /\ FileOf \in [Ids -> Names \cup {NoName}]
  /\ Picky \subseteq Ids
  /\ MaxChanges \in Nat /\ MaxMishaps \in Nat

VARIABLES
  workers,       \* workers_
  at,            \* where each worker's thread is
  stopping,      \* workers whose stopping flag is set
  signal,        \* workers whose event object is signalled
  io,            \* the overlapped read of each worker
  open,          \* workers whose handle and event object are open
  kernel,        \* changes the kernel holds for the next read
  overflowed,    \* handles whose changes the kernel gave up
  batch,         \* the records of the buffer still to be mapped
  renamed,       \* pending_rename
  isReady,       \* workers that have issued their first read
  inside,        \* where each caller is in the backend: step and workers left
  stopped,       \* stopped_
  ready,         \* ready_events_
  raw, held,     \* the facade's worker and the event in its hands
  reported,      \* what it told of losses, per watch
  owed,          \* watches with an overflow that no event tells yet
  changes, mishaps

threads == <<at, stopping, signal, io, open, batch, renamed, isReady>>
system == <<kernel, overflowed, changes, mishaps>>
worker == <<raw, held, reported>>
vars == <<facade, workers, threads, system, inside, stopped, ready, worker, owed>>

ThreadPlaces == {"none", "deciding", "resetting", "issuing", "waiting", "collecting", "mapping", "ended"}
Reads == {"none", "pending", "complete", "empty", "failed", "aborted"}
Nowhere == [step |-> "begin", left |-> {}]
\* A record of the kernel: its action, the entry, and for the new name of a
\* rename the name it replaces.
Entry(action, name, was) == [action |-> action, name |-> name, was |-> was]
Event(id, kind, rename) == [id |-> id, kind |-> kind, rename |-> rename]
NoRename == [paired |-> FALSE, old |-> NoName, was |-> NoName]
NoEvent == Event(0, "none", NoRename)
Kinds == {"change", "overflow", "error"}

Init ==
  /\ FacadeInit
  /\ workers = {} /\ at = [id \in Ids |-> "none"]
  /\ stopping = {} /\ signal = {} /\ open = {} /\ isReady = {}
  /\ io = [id \in Ids |-> "none"]
  /\ kernel = [id \in Ids |-> <<>>] /\ overflowed = {}
  /\ batch = [id \in Ids |-> <<>>] /\ renamed = [id \in Ids |-> NoName]
  /\ inside = [c \in Callers |-> Nowhere]
  /\ stopped = FALSE /\ ready = <<>>
  /\ raw = "asking" /\ held = NoEvent /\ reported = [id \in Ids |-> {}]
  /\ owed = {} /\ changes = 0 /\ mishaps = 0

\* Every variable keeps its type.
TypeOK ==
  /\ FacadeTypeOK
  /\ workers \subseteq open /\ open \subseteq Ids /\ isReady \subseteq Ids
  /\ at \in [Ids -> ThreadPlaces] /\ io \in [Ids -> Reads]
  /\ stopping \subseteq Ids /\ signal \subseteq Ids /\ overflowed \subseteq Ids /\ owed \subseteq Ids
  /\ \A id \in Ids : Len(kernel[id]) <= 2 * MaxChanges /\ Len(batch[id]) <= 2 * MaxChanges
  /\ renamed \in [Ids -> Names \cup {NoName}]
  /\ inside \in [Callers -> [step : {"begin", "starting", "flag", "cancel", "signal", "join", "wake"}, left : SUBSET Ids]]
  /\ stopped \in BOOLEAN
  /\ \A i \in DOMAIN ready : ready[i].id \in Ids /\ ready[i].kind \in Kinds
  /\ raw \in {"asking", "parked", "holding", "quitting", "ended"}
  /\ reported \in [Ids -> SUBSET {"overflow", "error"}]
  /\ changes \in 0 .. MaxChanges /\ mishaps \in 0 .. MaxMishaps
-----------------------------------------------------------------------------
(* A caller inside the backend *)

AtStep(c, op, step) == call[c].at = "inside" /\ call[c].op = op /\ inside[c].step = step
GoTo(c, step, left) == inside' = [inside EXCEPT ![c] = [step |-> step, left |-> left]]
CallerOnly == UNCHANGED <<outer, registered, closing, nextId, made>>

\* add_watch: the path is unusable or a handle cannot be opened (what was
\* opened is closed again).
RefuseAdd(c) ==
  /\ AtStep(c, "add", "begin")
  /\ Answer(c, FALSE) /\ CallerOnly
  /\ UNCHANGED <<workers, threads, system, inside, stopped, ready, worker, owed>>

\* add_watch: the worker is published and its thread started.  stop() cannot
\* come between the two: it waits for the facade's mutex.
StartWorker(c) ==
  LET id == call[c].id IN
  /\ AtStep(c, "add", "begin") /\ ~stopped
  /\ workers' = workers \cup {id} /\ open' = open \cup {id}
  /\ at' = [at EXCEPT ![id] = "deciding"]
  /\ GoTo(c, "starting", {})
  /\ UNCHANGED <<facade, stopping, signal, io, batch, renamed, isReady, system, stopped, ready, worker, owed>>

\* wait_until_ready: until the first read is issued, or two seconds.
AddDone(c) ==
  /\ AtStep(c, "add", "starting")
  /\ GoTo(c, "begin", {})
  /\ Answer(c, TRUE) /\ CallerOnly
  /\ UNCHANGED <<workers, threads, system, stopped, ready, worker, owed>>

\* remove_watch and stop take the workers out of the map under the lock.
TakeWorker(c) ==
  LET id == call[c].id IN
  /\ AtStep(c, "remove", "begin")
  /\ workers' = workers \ {id}
  /\ IF id \in workers
     THEN GoTo(c, "flag", {id}) /\ UNCHANGED call
     ELSE Answer(c, FALSE) /\ UNCHANGED inside
  /\ CallerOnly
  /\ UNCHANGED <<threads, system, stopped, ready, worker, owed>>

TakeAll(c) ==
  /\ AtStep(c, "stop", "begin")
  /\ IF stopped
     THEN Answer(c, TRUE) /\ UNCHANGED <<inside, workers>>
     ELSE GoTo(c, IF workers = {} THEN "wake" ELSE "flag", workers) /\ workers' = {} /\ UNCHANGED call
  /\ stopped' = TRUE
  /\ CallerOnly
  /\ UNCHANGED <<threads, system, ready, worker, owed>>

\* stop_worker, one step per call: the flag,
RaiseFlag(c, id) ==
  /\ inside[c].step = "flag" /\ id \in inside[c].left
  /\ stopping' = stopping \cup {id}
  /\ GoTo(c, "cancel", inside[c].left)
  /\ UNCHANGED <<facade, workers, at, signal, io, open, batch, renamed, isReady, system, stopped, ready, worker, owed>>

\* the worker being stopped is the flagged one whose handle is still open,
Target(c) == CHOOSE id \in inside[c].left \cap stopping : TRUE

\* CancelIoEx,
CancelRead(c) ==
  LET id == Target(c) IN
  /\ inside[c].step = "cancel"
  /\ IF io[id] = "pending"
     THEN io' = [io EXCEPT ![id] = "aborted"] /\ signal' = signal \cup {id}
     ELSE UNCHANGED <<io, signal>>
  /\ GoTo(c, "signal", inside[c].left)
  /\ UNCHANGED <<facade, workers, at, stopping, open, batch, renamed, isReady, system, stopped, ready, worker, owed>>

\* SetEvent,
SignalEvent(c) ==
  /\ inside[c].step = "signal"
  /\ signal' = signal \cup {Target(c)}
  /\ GoTo(c, "join", inside[c].left)
  /\ UNCHANGED <<facade, workers, at, stopping, io, open, batch, renamed, isReady, system, stopped, ready, worker, owed>>

\* stop() goes on with the next worker, then wakes the facade's worker.
After(c, id) ==
  LET rest == inside[c].left \ {id} IN
  IF call[c].op = "remove"
  THEN GoTo(c, "begin", {}) /\ Answer(c, TRUE)
  ELSE GoTo(c, IF rest = {} THEN "wake" ELSE "flag", rest) /\ UNCHANGED call

\* and the join, after which the handles are closed.
JoinWorker(c) ==
  LET id == Target(c) IN
  /\ inside[c].step = "join"
  /\ at[id] = "ended"
  /\ open' = open \ {id}
  /\ After(c, id) /\ CallerOnly
  /\ UNCHANGED <<workers, at, stopping, signal, io, batch, renamed, isReady, system, stopped, ready, worker, owed>>

WakeReader(c) ==
  /\ AtStep(c, "stop", "wake")
  /\ raw' = IF raw = "parked" THEN "asking" ELSE raw
  /\ GoTo(c, "begin", {})
  /\ Answer(c, TRUE) /\ CallerOnly
  /\ UNCHANGED <<workers, threads, system, stopped, ready, held, reported, owed>>

CallerStep(c) ==
  \/ RefuseAdd(c) \/ StartWorker(c) \/ AddDone(c) \/ TakeWorker(c) \/ TakeAll(c)
  \/ \E id \in Ids : RaiseFlag(c, id)
  \/ CancelRead(c) \/ SignalEvent(c) \/ JoinWorker(c) \/ WakeReader(c)
  \/ /\ Record(c) \/ StopBackendDone(c) \/ StopReturns(c, raw = "ended")
     /\ UNCHANGED <<workers, threads, system, inside, stopped, ready, worker, owed>>

NewCall(c) ==
  /\ AddWatch(c) \/ RemoveWatch(c) \/ Stop(c)
  /\ UNCHANGED <<workers, threads, system, inside, stopped, ready, worker, owed>>
-----------------------------------------------------------------------------
(* A watch's worker thread *)

Goes(id, place) == at' = [at EXCEPT ![id] = place]

\* push: refused once the backend is stopped; wakes the facade's worker.
Push(event) ==
  IF stopped THEN UNCHANGED <<ready, raw>>
  ELSE /\ ready' = Append(ready, event)
       /\ raw' = IF raw = "parked" THEN "asking" ELSE raw
PushError(id) == Push(Event(id, "error", NoRename))
PushNothing == UNCHANGED <<ready, raw>>

\* The head of run()'s loop.
Decide(id) ==
  /\ at[id] = "deciding"
  /\ Goes(id, IF id \in stopping THEN "ended" ELSE "resetting")
  /\ UNCHANGED <<facade, workers, stopping, signal, io, open, batch, renamed, isReady, system, inside, stopped, ready, worker, owed>>

\* ResetEvent: it may take back the signal of a stop_worker that came since.
Reset(id) ==
  /\ at[id] = "resetting"
  /\ Goes(id, "issuing")
  /\ signal' = signal \ {id}
  /\ UNCHANGED <<facade, workers, stopping, io, open, batch, renamed, isReady, system, inside, stopped, ready, worker, owed>>

Issue(id) ==
  /\ at[id] = "issuing"
  /\ io' = [io EXCEPT ![id] = "pending"]
  /\ isReady' = isReady \cup {id}
  /\ Goes(id, "waiting")
  /\ UNCHANGED <<facade, workers, stopping, signal, open, batch, renamed, system, inside, stopped, ready, worker, owed>>

\* ReadDirectoryChangesW fails: told unless the watch is being stopped.
IssueFails(id) ==
  /\ at[id] = "issuing" /\ mishaps < MaxMishaps
  /\ mishaps' = mishaps + 1
  /\ isReady' = isReady \cup {id}
  /\ Goes(id, "ended")
  /\ IF id \in stopping THEN PushNothing ELSE PushError(id)
  /\ UNCHANGED <<facade, workers, stopping, signal, io, open, batch, renamed, kernel, overflowed, changes, inside, stopped, held, reported, owed>>

\* Only the event object ends the wait (mutant).
AwaitUnasked(id) ==
  /\ at[id] = "waiting" /\ id \in signal
  /\ Goes(id, "collecting")
  /\ UNCHANGED <<facade, workers, stopping, signal, io, open, batch, renamed, isReady, system, inside, stopped, ready, worker, owed>>

\* WaitForSingleObject in steps of 100 ms: ends on the event object, or on
\* the flag between two waits.
Await(id) ==
  /\ at[id] = "waiting" /\ id \in signal \cup stopping
  /\ Goes(id, "collecting")
  /\ UNCHANGED <<facade, workers, stopping, signal, io, open, batch, renamed, isReady, system, inside, stopped, ready, worker, owed>>

WaitFails(id) ==
  /\ at[id] = "waiting" /\ mishaps < MaxMishaps
  /\ mishaps' = mishaps + 1
  /\ Goes(id, "ended")
  /\ PushError(id)
  /\ UNCHANGED <<facade, workers, stopping, signal, io, open, batch, renamed, isReady, kernel, overflowed, changes, inside, stopped, held, reported, owed>>

\* An empty completion is taken for "nothing happened" (mutant).
CollectQuietly(id) ==
  /\ at[id] = "collecting" /\ id \notin stopping
  /\ io' = [io EXCEPT ![id] = "none"]
  /\ CASE io[id] \in {"empty", "complete"} -> Goes(id, "mapping") /\ PushNothing
       [] io[id] = "aborted" -> Goes(id, "ended") /\ PushNothing
       [] OTHER -> Goes(id, "ended") /\ PushError(id)
  /\ UNCHANGED <<facade, workers, stopping, signal, open, batch, renamed, isReady, system, inside, stopped, held, reported, owed>>

\* GetOverlappedResult: a failure ends the thread and is told unless the
\* read was cancelled; no bytes are an overflow; else the records are mapped.
Collect(id) ==
  /\ at[id] = "collecting" /\ id \notin stopping
  /\ io' = [io EXCEPT ![id] = "none"]
  /\ owed' = IF io[id] = "empty" THEN owed \ {id} ELSE owed
  /\ CASE io[id] = "complete" -> Goes(id, "mapping") /\ PushNothing
       [] io[id] = "empty" -> Goes(id, "deciding") /\ Push(Event(id, "overflow", NoRename))
       [] io[id] = "aborted" -> Goes(id, "ended") /\ PushNothing
       [] OTHER -> Goes(id, "ended") /\ PushError(id)
  /\ UNCHANGED <<facade, workers, stopping, signal, open, batch, renamed, isReady, system, inside, stopped, held, reported>>

\* The flag is seen after the wait: the read is cancelled, the thread ends.
GiveUp(id) ==
  /\ at[id] = "collecting" /\ id \in stopping
  /\ io' = [io EXCEPT ![id] = "none"]
  /\ Goes(id, "ended")
  /\ UNCHANGED <<facade, workers, stopping, signal, open, batch, renamed, isReady, system, inside, stopped, ready, worker, owed>>

\* The kind a record is reported as, and the old name it is paired with.
Rename(id, r) ==
  IF r.action = "new"
  THEN [paired |-> renamed[id] # NoName, old |-> renamed[id], was |-> r.was]
  ELSE NoRename
\* pending_rename afterwards.
RenamedAfter(id, r) ==
  CASE r.action = "old" -> r.name [] r.action = "new" -> NoName [] OTHER -> renamed[id]

\* map_raw: a record of another file is skipped, and one of an unwanted type,
\* which is what the path is found to be at this moment.
MapRaw(id) ==
  LET r == Head(batch[id])
      other == FileOf[id] # NoName /\ r.name # FileOf[id]
  IN
  /\ at[id] = "mapping" /\ batch[id] # <<>>
  /\ batch' = [batch EXCEPT ![id] = Tail(@)]
  /\ \/ /\ other \/ id \in Picky
        /\ PushNothing /\ UNCHANGED renamed
     \/ /\ ~other
        /\ renamed' = [renamed EXCEPT ![id] = RenamedAfter(id, r)]
        /\ Push(Event(id, "change", Rename(id, r)))
  /\ UNCHANGED <<facade, workers, at, stopping, signal, io, open, isReady, system, inside, stopped, held, reported, owed>>

MapDone(id) ==
  /\ at[id] = "mapping" /\ batch[id] = <<>>
  /\ Goes(id, "deciding")
  /\ UNCHANGED <<facade, workers, stopping, signal, io, open, batch, renamed, isReady, system, inside, stopped, ready, worker, owed>>

ThreadStep(id) ==
  \/ Decide(id) \/ Reset(id) \/ Issue(id) \/ IssueFails(id) \/ Await(id) \/ WaitFails(id)
  \/ Collect(id) \/ GiveUp(id) \/ MapRaw(id) \/ MapDone(id)
-----------------------------------------------------------------------------
(* The kernel and the directories it watches *)

Watched(id) == id \in isReady \cap open

\* A file is renamed: its two records are added.
Moved(from, to) == <<Entry("old", from, NoName), Entry("new", to, from)>>
Change(id) ==
  /\ Watched(id) /\ changes < MaxChanges
  /\ changes' = changes + 1
  /\ \E happening \in Happenings : kernel' = [kernel EXCEPT ![id] = @ \o happening]
  /\ UNCHANGED <<facade, workers, threads, overflowed, mishaps, inside, stopped, ready, worker, owed>>

\* Too many changes: the kernel keeps none, the read completes empty.
Overflow(id) ==
  /\ Watched(id) /\ mishaps < MaxMishaps
  /\ mishaps' = mishaps + 1
  /\ kernel' = [kernel EXCEPT ![id] = <<>>]
  /\ overflowed' = overflowed \cup {id}
  /\ owed' = owed \cup {id}
  /\ UNCHANGED <<facade, workers, threads, changes, inside, stopped, ready, worker>>

\* A pending read completes with what there is, or fails.
Complete(id) ==
  /\ io[id] = "pending" /\ (kernel[id] # <<>> \/ id \in overflowed)
  /\ IF id \in overflowed
     THEN io' = [io EXCEPT ![id] = "empty"] /\ UNCHANGED <<batch, kernel>>
     ELSE /\ io' = [io EXCEPT ![id] = "complete"]
          /\ batch' = [batch EXCEPT ![id] = kernel[id]]
          /\ kernel' = [kernel EXCEPT ![id] = <<>>]
  /\ overflowed' = overflowed \ {id}
  /\ signal' = signal \cup {id}
  /\ UNCHANGED <<facade, workers, at, stopping, open, renamed, isReady, changes, mishaps, inside, stopped, ready, worker, owed>>

ReadFails(id) ==
  /\ io[id] = "pending" /\ mishaps < MaxMishaps
  /\ mishaps' = mishaps + 1
  /\ io' = [io EXCEPT ![id] = "failed"]
  /\ signal' = signal \cup {id}
  /\ UNCHANGED <<facade, workers, at, stopping, open, batch, renamed, isReady, kernel, overflowed, changes, inside, stopped, ready, worker, owed>>

Environment(id) == Overflow(id) \/ ReadFails(id) \/ Change(id)
-----------------------------------------------------------------------------
(* The facade's worker *)

WaitEvent ==
  /\ raw = "asking"
  /\ IF ready # <<>>
     THEN raw' = "holding" /\ held' = Head(ready) /\ ready' = Tail(ready)
     ELSE raw' = (IF stopped THEN "quitting" ELSE "parked") /\ UNCHANGED <<held, ready>>
  /\ UNCHANGED <<facade, workers, threads, system, inside, stopped, reported, owed>>

Filter ==
  /\ raw = "holding" /\ outer = NoOne
  /\ reported' = IF WatchIsActive(held.id) /\ held.kind # "change"
                 THEN [reported EXCEPT ![held.id] = @ \cup {held.kind}]
                 ELSE reported
  /\ raw' = "asking" /\ held' = NoEvent
  /\ UNCHANGED <<facade, workers, threads, system, inside, stopped, ready, owed>>

Quit ==
  /\ raw = "quitting" /\ outer = NoOne
  /\ raw' = IF closing THEN "ended" ELSE "asking"
  /\ UNCHANGED <<facade, workers, threads, system, inside, stopped, ready, held, reported, owed>>

ReaderStep == WaitEvent \/ Filter \/ Quit

Next ==
  \/ \E c \in Callers : NewCall(c) \/ CallerStep(c)
  \/ \E id \in Ids : ThreadStep(id) \/ Complete(id) \/ Environment(id)
  \/ ReaderStep

Fairness ==
  /\ \A c \in Callers : WF_vars(CallerStep(c))
  /\ \A id \in Ids : WF_vars(ThreadStep(id)) /\ WF_vars(Complete(id))
  /\ WF_vars(ReaderStep)

Spec == Init /\ [][Next]_vars /\ Fairness
-----------------------------------------------------------------------------
(* Properties *)

\* What a watch in use loses is told: changes the kernel gave up are followed
\* by an overflow event, and a worker that ends on its own leaves an error
\* event, either of them queued or passed on to the consumer.
Tells(id, kind) ==
  \/ kind \in reported[id]
  \/ held.id = id /\ held.kind = kind
  \/ \E i \in DOMAIN ready : ready[i].id = id /\ ready[i].kind = kind
InUse(id) == id \in workers /\ ~closing
LossIsTold ==
  \A id \in Ids : InUse(id) =>
    /\ at[id] = "ended" => Tells(id, "error")
    /\ id \in owed => id \in overflowed \/ io[id] = "empty" \/ at[id] = "ended"

\* add_watch, remove_watch and stop return although they join threads that
\* wait for the kernel.
CallsReturn == \A c \in Callers : call[c].at # "idle" ~> call[c].at = "idle"
=============================================================================
