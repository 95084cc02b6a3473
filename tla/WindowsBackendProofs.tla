------------------------- MODULE WindowsBackendProofs -------------------------
(***************************************************************************)
(* Theorems about WindowsBackend, for any number of callers, watches,      *)
(* calls, changes and failures: what a watch in use loses is told.         *)
(***************************************************************************)
EXTENDS WindowsBackend, TLAPS

\* Where threads, flags and reads are before their watch is added.
Started(id) == at[id] # "none"
ThreadInv ==
  /\ at \in [Ids -> ThreadPlaces] /\ io \in [Ids -> Reads]
  /\ workers \cup stopping \cup isReady \cup owed \subseteq {id \in Ids : Started(id)}
  /\ \A id \in Ids : at[id] \in {"none", "deciding", "resetting", "issuing", "mapping"} => io[id] = "none"
  /\ stopped => workers = {}

\* A worker in use is not being stopped, so that its read is not cancelled.
StopperInv == workers \cap stopping = {} /\ \A id \in workers : io[id] # "aborted"

\* What a caller is at, and the workers in its hands.
Left(c) == inside[c].left
Stopping(c) == inside[c].step \in {"flag", "cancel", "signal", "join"}
Locking(c) == call[c].at \in {"inside", "answered"} /\ call[c].op \in {"add", "remove"}
CallerInv(c) ==
  /\ Left(c) \subseteq {id \in Ids : Started(id)} \ workers
  /\ Stopping(c) /\ inside[c].step # "flag" => Left(c) \cap stopping # {}
  /\ call[c].at # "inside" => inside[c].step = "begin"
  /\ inside[c].step = "starting" => call[c].op = "add"
  /\ Stopping(c) => call[c].op \in {"remove", "stop"}
  /\ Locking(c) => outer = c /\ call[c].id \in Ids /\ call[c].id < nextId
  /\ call[c].at = "inside" /\ call[c].op = "add" /\ inside[c].step = "begin" => ~Started(call[c].id)
  /\ Locking(c) /\ call[c].op = "remove" /\ (call[c].at = "answered" \/ Stopping(c)) =>
       call[c].id \notin workers
Calling == [op : Operations, id : Ids \cup {0}, at : Places, ok : BOOLEAN]
Within == [step : {"begin", "starting", "flag", "cancel", "signal", "join", "wake"}, left : SUBSET Ids]
CallInv ==
  /\ call \in [Callers -> Calling] /\ inside \in [Callers -> Within]
  /\ nextId \in 1 .. MaxWatches + 1 /\ \A id \in Ids : id >= nextId => ~Started(id)
  /\ \A c \in Callers : CallerInv(c)

\* Until add_watch has recorded its watch it holds the mutex of the facade.
Recording(c, id) ==
  /\ call[c].op = "add" /\ call[c].id = id
  /\ \/ call[c].at = "inside" /\ inside[c].step = "starting"
     \/ call[c].at = "answered" /\ call[c].ok
RecordInv == \A id \in workers : id \in registered \/ \E c \in Callers : Recording(c, id)

\* The queue of events, and the one in the hands of the facade's worker.
OldName == [paired : BOOLEAN, old : Names \cup {NoName}, was : Names \cup {NoName}]
Happened == [id : Ids, kind : Kinds, rename : OldName]
ReaderInv ==
  /\ ready \in Seq(Happened) /\ reported \in [Ids -> SUBSET {"overflow", "error"}]
  /\ raw = "holding" => held \in Happened
  /\ raw # "holding" => held = NoEvent

\* What the kernel has for a thread.
SystemInv ==
  /\ kernel \in [Ids -> Seq(Entries)] /\ batch \in [Ids -> Seq(Entries)]
  /\ renamed \in [Ids -> Names \cup {NoName}]

CallersInv == StopperInv /\ CallInv /\ RecordInv
LossInv == ThreadInv /\ CallersInv /\ ReaderInv /\ SystemInv /\ LossIsTold

LEMMA InitLoss == Init => LossInv
<1> SUFFICES ASSUME Init PROVE LossInv
  OBVIOUS
<1> USE DEF Init, FacadeInit
<1>1. ThreadInv
  BY DEF ThreadInv, ThreadPlaces, Reads
<1>2. StopperInv
  BY DEF StopperInv
<1>3. CallInv
  <2>1. call \in [Callers -> Calling] /\ inside \in [Callers -> Within] /\ nextId \in 1 .. MaxWatches + 1
    BY CallsAssumption DEF Nowhere, NoCall, Calling, Within, Operations, Places
  <2>2. \A c \in Callers : CallerInv(c)
    BY DEF CallerInv, Left, Nowhere, NoCall, Stopping, Locking
  <2> QED BY <2>1, <2>2 DEF CallInv, Started
<1>4. RecordInv /\ LossIsTold
  BY DEF RecordInv, LossIsTold, InUse
<1>5. ReaderInv /\ SystemInv
  BY DEF ReaderInv, SystemInv
<1> QED BY <1>1, <1>2, <1>3, <1>4, <1>5 DEF LossInv, CallersInv

-----------------------------------------------------------------------------
(* Events are queued, taken and passed on: none is forgotten on the way.    *)

LEMMA PushTells ==
  ASSUME ReaderInv, NEW e \in Happened, Push(e), UNCHANGED <<held, reported>>
  PROVE  /\ ReaderInv'
         /\ \A id, kind : Tells(id, kind) => Tells(id, kind)'
         /\ ~stopped => Tells(e.id, e.kind)'
<1>1. raw' = raw \/ (raw = "parked" /\ raw' = "asking")
  BY DEF Push
<1>2. CASE stopped
  BY <1>1, <1>2 DEF Push, ReaderInv, Tells
<1>3. CASE ~stopped
  <2>1. ready' = Append(ready, e) /\ ready \in Seq(Happened) /\ ready' \in Seq(Happened)
    BY <1>3 DEF Push, ReaderInv
  <2>2. /\ \A i \in DOMAIN ready : i \in DOMAIN ready' /\ ready'[i] = ready[i]
        /\ Len(ready) + 1 \in DOMAIN ready' /\ ready'[Len(ready) + 1] = e
    BY <2>1
  <2>3. ReaderInv'
    BY <1>1, <2>1 DEF ReaderInv
  <2> QED BY <2>2, <2>3 DEF Tells
<1> QED BY <1>2, <1>3

LEMMA PushErrorTells ==
  ASSUME ReaderInv, NEW id \in Ids, PushError(id), UNCHANGED <<held, reported>>
  PROVE  /\ ReaderInv'
         /\ \A i, kind : Tells(i, kind) => Tells(i, kind)'
         /\ ~stopped => Tells(id, "error")'
<1>1. Event(id, "error", NoRename) \in Happened
  BY DEF Event, NoRename, Happened, OldName, Kinds
<1>2. Event(id, "error", NoRename).id = id /\ Event(id, "error", NoRename).kind = "error"
  BY DEF Event
<1> QED BY <1>1, <1>2, PushTells DEF PushError

LEMMA QuietTells ==
  ASSUME ReaderInv, UNCHANGED <<ready, raw, held, reported>>
  PROVE  ReaderInv' /\ \A id, kind : Tells(id, kind) => Tells(id, kind)'
BY DEF ReaderInv, Tells

\* An event that is filtered is of a watch that the facade does not know, or knows
\* no more: while a watch is added and not recorded yet, the mutex is taken.
LEMMA ReaderTells ==
  ASSUME LossInv, ReaderStep
  PROVE  LossInv'
<1>1. UNCHANGED <<facade, workers, threads, system, inside, stopped, owed>>
  BY DEF ReaderStep, WaitEvent, Filter, Quit
<1>2. ThreadInv' /\ SystemInv'
  BY <1>1 DEF LossInv, ThreadInv, SystemInv, Started, threads, system
<1>3. StopperInv'
  BY <1>1 DEF LossInv, CallersInv, StopperInv, threads
<1>4. CallInv' /\ RecordInv'
  BY <1>1 DEF LossInv, CallersInv, CallInv, CallerInv, Left, RecordInv, Recording, Locking, Stopping,
                  Started, facade, threads
<1>5. ReaderInv' /\ \A id \in workers : ~closing /\ Tells(id, "error") => Tells(id, "error")'
  <2>1. CASE WaitEvent /\ ready # <<>>
    <3>1. /\ raw' = "holding" /\ held' = Head(ready) /\ ready' = Tail(ready) /\ reported' = reported
          /\ ready \in Seq(Happened) /\ held = NoEvent
      BY <2>1 DEF WaitEvent, LossInv, ReaderInv
    <3>2. Head(ready) = ready[1] /\ Head(ready) \in Happened /\ Tail(ready) \in Seq(Happened)
      BY <2>1, <3>1
    <3>3. \A i \in DOMAIN ready : i = 1 \/ (i - 1 \in DOMAIN ready' /\ ready'[i - 1] = ready[i])
      BY <2>1, <3>1
    <3>4. ReaderInv'
      BY <3>1, <3>2 DEF LossInv, ReaderInv
    <3>5. held.kind # "error"
      BY <3>1 DEF NoEvent, Event
    <3> QED BY <3>1, <3>2, <3>3, <3>4, <3>5 DEF Tells
  <2>2. CASE WaitEvent /\ ready = <<>>
    BY <2>2 DEF WaitEvent, LossInv, ReaderInv, Tells
  <2>3. CASE Filter
    <3>1. /\ held \in Happened /\ held.id \in Ids /\ held.kind \in Kinds /\ reported \in [Ids -> SUBSET {"overflow", "error"}]
          /\ held' = NoEvent /\ raw' = "asking" /\ ready' = ready /\ outer = NoOne
      BY <2>3 DEF Filter, LossInv, ReaderInv, Happened
    <3>2. reported' = IF WatchIsActive(held.id) /\ held.kind # "change"
                      THEN [reported EXCEPT ![held.id] = @ \cup {held.kind}] ELSE reported
      BY <2>3 DEF Filter
    <3>3. reported' \in [Ids -> SUBSET {"overflow", "error"}] /\ \A i \in Ids : reported[i] \subseteq reported'[i]
      BY <3>1, <3>2 DEF Kinds
    <3>4. ReaderInv'
      BY <3>1, <3>3 DEF LossInv, ReaderInv
    <3>5. \A id \in workers : id \in registered
      BY <3>1, CallsAssumption DEF LossInv, CallersInv, RecordInv, Recording, CallInv, CallerInv, Locking
    <3>6. workers \subseteq Ids
      BY DEF LossInv, ThreadInv
    <3>7. ASSUME NEW id \in workers, ~closing, Tells(id, "error") PROVE Tells(id, "error")'
      <4>1. CASE held.id = id /\ held.kind = "error"
        <5>1. "error" \in reported'[id]
          BY <3>1, <3>2, <3>5, <3>7, <4>1 DEF WatchIsActive
        <5> QED BY <5>1 DEF Tells
      <4>2. CASE ~(held.id = id /\ held.kind = "error")
        BY <3>1, <3>3, <3>6, <3>7, <4>2 DEF Tells
      <4> QED BY <4>1, <4>2
    <3> QED BY <3>4, <3>7
  <2>4. CASE Quit
    BY <2>4 DEF Quit, LossInv, ReaderInv, Tells
  <2> QED BY <2>1, <2>2, <2>3, <2>4 DEF ReaderStep
<1>6. LossIsTold'
  BY <1>1, <1>5 DEF LossInv, LossIsTold, InUse, facade, threads, system
<1> QED BY <1>2, <1>3, <1>4, <1>5, <1>6 DEF LossInv, CallersInv

-----------------------------------------------------------------------------
(* Threads and the kernel.  No step of theirs starts or stops a worker.     *)

LEMMA CallersStay ==
  ASSUME LossInv, UNCHANGED <<facade, workers, stopping, inside, stopped>>, NEW w \in Ids,
         at[w] # "none", NEW s \in ThreadPlaces \ {"none"}, at' = [at EXCEPT ![w] = s],
         NEW x \in Reads \ {"aborted"}, io' = [io EXCEPT ![w] = x] \/ io' = io
  PROVE  CallersInv'
<1>1. at \in [Ids -> ThreadPlaces] /\ io \in [Ids -> Reads] /\ workers \subseteq Ids
  BY DEF LossInv, ThreadInv
<1>2. \A id \in Ids : Started(id)' = Started(id)
  BY <1>1 DEF Started
<1>3. \A id \in Ids : io'[id] = "aborted" => io[id] = "aborted"
  BY <1>1
<1>4. StopperInv'
  BY <1>1, <1>2, <1>3 DEF LossInv, CallersInv, StopperInv
<1>5. CallInv'
  BY <1>2 DEF LossInv, CallersInv, CallInv, CallerInv, Left, Locking, Stopping, facade
<1>6. RecordInv'
  BY DEF LossInv, CallersInv, RecordInv, Recording, facade
<1> QED BY <1>4, <1>5, <1>6 DEF CallersInv

\* A thread in use that ends on its own queues an error first.
LEMMA ThreadTells ==
  ASSUME LossInv, NEW w \in Ids, ThreadStep(w)
  PROVE  LossInv'
<1> DEFINE Keeps == ReaderInv' /\ \A id, kind : Tells(id, kind) => Tells(id, kind)'
<1>1. /\ at \in [Ids -> ThreadPlaces] /\ io \in [Ids -> Reads] /\ ReaderInv /\ SystemInv
      /\ UNCHANGED <<facade, workers, stopping, inside, stopped, held, reported, kernel, overflowed>>
      /\ at[w] # "none"
  BY DEF LossInv, ThreadInv, ThreadStep, Decide, Reset, Issue, IssueFails, Await, WaitFails, Collect,
         GiveUp, MapRaw, MapDone, worker, system
<1>2. w \in workers => w \notin stopping /\ ~stopped /\ io[w] # "aborted"
  BY DEF LossInv, ThreadInv, CallersInv, StopperInv
<1>3. PICK s \in ThreadPlaces \ {"none"} : at' = [at EXCEPT ![w] = s]
  <2>1. CASE Decide(w) \/ Reset(w) \/ Issue(w) \/ IssueFails(w) \/ Await(w) \/ WaitFails(w)
             \/ GiveUp(w) \/ MapDone(w)
    BY <2>1 DEF Decide, Reset, Issue, IssueFails, Await, WaitFails, GiveUp, MapDone, Goes, ThreadPlaces
  <2>2. CASE Collect(w)
    BY <2>2 DEF Collect, Goes, ThreadPlaces
  <2>3. CASE MapRaw(w)
    BY <1>1, <2>3 DEF MapRaw
  <2> QED BY <2>1, <2>2, <2>3 DEF ThreadStep
<1>4. PICK x \in {"none", "pending"} : io' = [io EXCEPT ![w] = x] \/ io' = io
  BY DEF ThreadStep, Decide, Reset, Issue, IssueFails, Await, WaitFails, Collect, GiveUp, MapRaw, MapDone
<1>5. CallersInv'
  BY <1>1, <1>3, <1>4, CallersStay DEF Reads
<1>6. at'[w] = s /\ \A id \in Ids \ {w} : at'[id] = at[id] /\ io'[id] = io[id]
  BY <1>1, <1>3, <1>4
<1>7. s \in {"deciding", "resetting", "issuing", "mapping"} => io'[w] = "none"
  BY <1>1, <1>6 DEF LossInv, ThreadInv, ThreadStep, Decide, Reset, Issue, IssueFails, Await, WaitFails,
                    Collect, GiveUp, MapRaw, MapDone, Goes
<1>8. ThreadInv'
  <2>1. io' \in [Ids -> Reads] /\ at' \in [Ids -> ThreadPlaces]
    BY <1>1, <1>3, <1>4 DEF Reads
  <2>2. \A id \in Ids : at'[id] \in {"none", "deciding", "resetting", "issuing", "mapping"} => io'[id] = "none"
    BY <1>6, <1>7 DEF LossInv, ThreadInv
  <2>3. \A id \in Ids : Started(id)' = Started(id)
    BY <1>1, <1>3, <1>6 DEF Started
  <2>4. isReady' \subseteq isReady \cup {w} /\ owed' \subseteq owed /\ Started(w)
    BY <1>1 DEF ThreadStep, Decide, Reset, Issue, IssueFails, Await, WaitFails, Collect, GiveUp, MapRaw,
                MapDone, Started
  <2> QED BY <1>1, <2>1, <2>2, <2>3, <2>4 DEF LossInv, ThreadInv
<1>9. Keeps /\ (s = "ended" /\ w \in workers /\ at[w] # "ended" => Tells(w, "error")')
  <2>1. CASE UNCHANGED <<ready, raw>>
    <3>1. s = "ended" /\ w \in workers /\ at[w] # "ended" => FALSE
      <4>1. CASE Decide(w) \/ GiveUp(w)
        BY <1>1, <1>2, <1>3, <1>6, <4>1 DEF Decide, GiveUp, Goes
      <4>2. CASE IssueFails(w) \/ WaitFails(w) \/ Collect(w)
        <5>1. w \in workers => ~PushError(w)
          <6>1. Append(ready, Event(w, "error", NoRename)) # ready
            <7>1. Event(w, "error", NoRename) \in Happened
              BY DEF Event, NoRename, Happened, OldName, Kinds
            <7> QED BY <1>1, <7>1 DEF ReaderInv
          <6> QED BY <1>2, <2>1, <6>1 DEF PushError, Push
        <5>2. CASE IssueFails(w) \/ WaitFails(w)
          BY <1>2, <5>1, <5>2 DEF IssueFails, WaitFails
        <5>3. CASE Collect(w)
          <6>1. CASE io[w] \in {"complete", "empty"}
            BY <1>1, <1>6, <5>3, <6>1 DEF Collect, Goes
          <6>2. CASE io[w] \notin {"complete", "empty"}
            BY <1>2, <5>1, <5>3, <6>2 DEF Collect
          <6> QED BY <6>1, <6>2
        <5> QED BY <4>2, <5>2, <5>3
      <4>3. CASE Reset(w) \/ Issue(w) \/ Await(w) \/ MapRaw(w) \/ MapDone(w)
        BY <1>1, <1>6, <4>3 DEF Reset, Issue, Await, MapRaw, MapDone, Goes
      <4> QED BY <4>1, <4>2, <4>3 DEF ThreadStep
    <3> QED BY <1>1, <2>1, <3>1, QuietTells
  <2>2. CASE PushError(w)
    <3>1. s = "ended" /\ w \in workers => ~stopped
      BY <1>2
    <3> QED BY <1>1, <2>2, <3>1, PushErrorTells
  <2>3. CASE Collect(w) /\ io[w] = "empty"
    <3>1. Push(Event(w, "overflow", NoRename)) /\ s # "ended"
      BY <1>1, <1>6, <2>3 DEF Collect, Goes
    <3>2. Event(w, "overflow", NoRename) \in Happened
      BY DEF Event, NoRename, Happened, OldName, Kinds
    <3> QED BY <1>1, <3>1, <3>2, PushTells
  <2>4. CASE MapRaw(w)
    <3>1. s = at[w]
      BY <1>1, <1>6, <2>4 DEF MapRaw
    <3>2. Head(batch[w]) \in Entries
      BY <1>1, <2>4 DEF MapRaw, SystemInv
    <3>3. Event(w, "change", Rename(w, Head(batch[w]))) \in Happened
      BY <1>1, <3>2 DEF Event, Rename, NoRename, Happened, OldName, Kinds, Entries, SystemInv
    <3>4. CASE Push(Event(w, "change", Rename(w, Head(batch[w]))))
      BY <1>1, <3>1, <3>3, <3>4, PushTells
    <3> QED BY <2>1, <2>4, <3>4 DEF MapRaw, PushNothing
  <2> QED BY <2>1, <2>2, <2>3, <2>4
          DEF ThreadStep, Decide, Reset, Issue, IssueFails, Await, WaitFails, Collect, GiveUp, MapDone,
              worker, PushNothing
<1>10. SystemInv'
  <2>1. CASE MapRaw(w)
    <3>1. Head(batch[w]) \in Entries /\ Tail(batch[w]) \in Seq(Entries)
      BY <1>1, <2>1 DEF MapRaw, SystemInv
    <3>2. RenamedAfter(w, Head(batch[w])) \in Names \cup {NoName}
      BY <1>1, <3>1 DEF RenamedAfter, Entries, SystemInv
    <3> QED BY <1>1, <2>1, <3>1, <3>2 DEF MapRaw, SystemInv
  <2>2. CASE ~MapRaw(w)
    BY <1>1, <2>2 DEF ThreadStep, Decide, Reset, Issue, IssueFails, Await, WaitFails, Collect, GiveUp,
                      MapDone, SystemInv
  <2> QED BY <2>1, <2>2
<1>11. \A id \in Ids : id \in owed' => id \in owed /\ (id = w => io[w] # "empty" \/ io'[w] = "empty" \/ s = "ended")
  BY <1>1, <1>6 DEF ThreadStep, Decide, Reset, Issue, IssueFails, Await, WaitFails, Collect, GiveUp, MapRaw,
                    MapDone, Goes, LossInv, ThreadInv
<1>12. LossIsTold'
  <2> SUFFICES ASSUME NEW id \in Ids, InUse(id)'
               PROVE  /\ at'[id] = "ended" => Tells(id, "error")'
                      /\ id \in owed' => id \in overflowed' \/ io'[id] = "empty" \/ at'[id] = "ended"
    BY DEF LossIsTold
  <2>1. InUse(id)
    BY <1>1 DEF InUse, facade
  <2>2. at[w] # "ended" \/ MapRaw(w)
    BY DEF ThreadStep, Decide, Reset, Issue, IssueFails, Await, WaitFails, Collect, GiveUp, MapDone
  <2>3. at[w] # "ended"
    BY <2>2 DEF MapRaw
  <2>4. at'[id] = "ended" => Tells(id, "error")'
    BY <1>6, <1>9, <2>1, <2>3 DEF LossInv, LossIsTold, InUse
  <2>5. id \in owed' => id \in overflowed' \/ io'[id] = "empty" \/ at'[id] = "ended"
    BY <1>1, <1>6, <1>11, <2>1, <2>3 DEF LossInv, LossIsTold
  <2> QED BY <2>4, <2>5
<1> QED BY <1>5, <1>8, <1>9, <1>10, <1>12 DEF LossInv

LEMMA KernelTells ==
  ASSUME LossInv, NEW w \in Ids, Complete(w) \/ Environment(w)
  PROVE  LossInv'
<1>1. /\ at \in [Ids -> ThreadPlaces] /\ io \in [Ids -> Reads] /\ ReaderInv /\ SystemInv
      /\ UNCHANGED <<facade, workers, stopping, inside, stopped, ready, raw, held, reported, at, renamed>>
  BY DEF LossInv, ThreadInv, Complete, Environment, Overflow, ReadFails, Change, worker, threads
<1>2. io' = io \/ (io[w] = "pending" /\ \E x \in {"empty", "complete", "failed"} : io' = [io EXCEPT ![w] = x])
  BY DEF Complete, Environment, Overflow, ReadFails, Change, threads
<1>3. \A id \in Ids : io'[id] = io[id] \/ (io[id] = "pending" /\ io'[id] \in {"empty", "complete", "failed"})
  BY <1>1, <1>2
<1>4. ThreadInv'
  <2>1. io' \in [Ids -> Reads]
    BY <1>1, <1>2 DEF Reads
  <2>2. isReady' = isReady /\ (owed' = owed \/ (owed' = owed \cup {w} /\ w \in isReady))
    BY DEF Complete, Environment, Overflow, ReadFails, Change, Watched, threads
  <2> QED BY <1>1, <1>3, <2>1, <2>2 DEF LossInv, ThreadInv, Started
<1>5. StopperInv'
  BY <1>1, <1>3 DEF LossInv, CallersInv, StopperInv, ThreadInv, Started
<1>6. CallInv' /\ RecordInv'
  BY <1>1 DEF LossInv, CallersInv, CallInv, CallerInv, Left, RecordInv, Recording, Locking, Stopping,
              Started, facade
<1>7. SystemInv'
  <2>1. CASE Complete(w)
    <3>1. kernel[w] \in Seq(Entries) /\ <<>> \in Seq(Entries) /\ renamed' = renamed
      BY <1>1 DEF SystemInv
    <3>2. \/ UNCHANGED <<batch, kernel>>
          \/ batch' = [batch EXCEPT ![w] = kernel[w]] /\ kernel' = [kernel EXCEPT ![w] = <<>>]
      BY <2>1 DEF Complete
    <3> QED BY <1>1, <3>1, <3>2 DEF SystemInv
  <2>2. CASE Overflow(w)
    BY <1>1, <2>2 DEF Overflow, threads, SystemInv
  <2>3. CASE ReadFails(w)
    BY <1>1, <2>3 DEF ReadFails, SystemInv
  <2>4. CASE Change(w)
    <3>1. PICK happening \in Happenings : kernel' = [kernel EXCEPT ![w] = @ \o happening]
      BY <2>4 DEF Change
    <3>2. happening \in Seq(Entries)
      BY HappeningsAssumption
    <3>3. kernel[w] \o happening \in Seq(Entries) /\ kernel' = [kernel EXCEPT ![w] = kernel[w] \o happening]
      BY <1>1, <3>1, <3>2 DEF SystemInv
    <3>4. batch' = batch /\ renamed' = renamed
      BY <2>4 DEF Change, threads
    <3> QED BY <1>1, <3>3, <3>4 DEF SystemInv
  <2> QED BY <2>1, <2>2, <2>3, <2>4 DEF Environment
<1>8. ReaderInv' /\ \A id, kind : Tells(id, kind) => Tells(id, kind)'
  BY <1>1, QuietTells
<1>9. \A id \in Ids : id \in owed' =>
        \/ id \in overflowed' \/ io'[id] = "empty"
        \/ id \in owed /\ id \notin overflowed /\ (io[id] = "empty" => io'[id] = "empty")
  BY <1>1 DEF Complete, Environment, Overflow, ReadFails, Change, threads
<1>10. LossIsTold'
  <2> SUFFICES ASSUME NEW id \in Ids, InUse(id)'
               PROVE  /\ at'[id] = "ended" => Tells(id, "error")'
                      /\ id \in owed' => id \in overflowed' \/ io'[id] = "empty" \/ at'[id] = "ended"
    BY DEF LossIsTold
  <2>1. InUse(id)
    BY <1>1 DEF InUse, facade
  <2> QED BY <1>1, <1>8, <1>9, <2>1 DEF LossInv, LossIsTold
<1> QED BY <1>4, <1>5, <1>6, <1>7, <1>8, <1>10 DEF LossInv, CallersInv

-----------------------------------------------------------------------------
(* Callers.  What threads, the kernel and the reader have stays as it is,   *)
(* but for the flag, the cancelled read and the worker that is started.     *)

\* A caller that starts no worker, and cancels only the read of one not in use.
LEMMA CallerTells ==
  ASSUME LossInv, UNCHANGED <<at, isReady, batch, renamed, kernel, overflowed, ready, held, reported, owed>>,
         raw' = raw \/ (raw = "parked" /\ raw' = "asking"), closing => closing',
         stopping' \subseteq stopping \cup {id \in Ids : Started(id)},
         workers' \subseteq workers, stopped' => stopped \/ workers' = {},
         io' = io \/ \E id \in Ids : id \notin workers /\ io[id] = "pending" /\ io' = [io EXCEPT ![id] = "aborted"]
  PROVE  ThreadInv' /\ ReaderInv' /\ SystemInv' /\ LossIsTold'
<1>1. at \in [Ids -> ThreadPlaces] /\ io \in [Ids -> Reads] /\ workers \subseteq Ids
  BY DEF LossInv, ThreadInv
<1>2. io' \in [Ids -> Reads]
  BY <1>1 DEF Reads
<1>3. \A id \in Ids : io'[id] = io[id] \/ (id \notin workers /\ io[id] = "pending" /\ io'[id] = "aborted")
  BY <1>1
<1>4. ThreadInv'
  BY <1>1, <1>2, <1>3 DEF LossInv, ThreadInv, Started
<1>5. ReaderInv' /\ SystemInv'
  BY DEF LossInv, ReaderInv, SystemInv
<1>6. \A id \in Ids : InUse(id)' => InUse(id) /\ io'[id] = io[id]
  BY <1>3 DEF InUse
<1>7. LossIsTold'
  BY <1>6 DEF LossInv, LossIsTold, Tells
<1> QED BY <1>4, <1>5, <1>7

\* Others are not disturbed by a caller that starts no worker.
LEMMA OthersUndisturbed ==
  ASSUME LossInv, NEW c \in Callers, at' = at, workers' \subseteq workers, stopping \subseteq stopping',
         call' \in [Callers -> Calling], inside' \in [Callers -> Within],
         \A d \in Callers \ {c} : call'[d] = call[d] /\ inside'[d] = inside[d],
         nextId' \in 1 .. MaxWatches + 1, nextId <= nextId',
         \A d \in Callers \ {c} : Locking(d) => outer' = outer,
         CallerInv(c)'
  PROVE  CallInv'
<1>1. /\ nextId \in Nat /\ nextId' \in Nat /\ Ids \subseteq Nat
      /\ \A d \in Callers : CallerInv(d)
      /\ \A id \in Ids : Started(id)' = Started(id)
  BY CallsAssumption DEF LossInv, CallersInv, CallInv, Ids, Started
<1>2. ASSUME NEW d \in Callers \ {c} PROVE CallerInv(d)'
  <2>1. CallerInv(d) /\ call'[d] = call[d] /\ inside'[d] = inside[d] /\ (Locking(d) => outer' = outer)
    BY <1>1
  <2>2. Left(d)' = Left(d) /\ (Stopping(d)' <=> Stopping(d)) /\ (Locking(d)' <=> Locking(d))
    BY <2>1 DEF Left, Stopping, Locking
  <2>3. Left(d)' \subseteq {id \in Ids : Started(id)'} \ workers'
    BY <1>1, <2>1, <2>2 DEF CallerInv
  <2>4. Stopping(d)' /\ inside'[d].step # "flag" => Left(d)' \cap stopping' # {}
    BY <2>1, <2>2 DEF CallerInv
  <2>5. Locking(d) => outer' = d /\ call[d].id \in Ids /\ call[d].id < nextId
    BY <2>1 DEF CallerInv
  <2>6. Locking(d) => call[d].id < nextId'
    <3>1. ASSUME Locking(d) PROVE call[d].id < nextId'
      <4>1. call[d].id \in Nat /\ call[d].id < nextId
        BY <1>1, <2>5, <3>1
      <4>2. \A a, b, e \in Nat : a < b /\ b <= e => a < e
        OBVIOUS
      <4> QED BY <1>1, <4>1, <4>2
    <3> QED BY <3>1
  <2>7. call[d].at = "inside" /\ call[d].op = "add" /\ inside[d].step = "begin" => ~Started(call[d].id)'
    <3>1. call[d].at = "inside" /\ call[d].op = "add" => Locking(d)
      BY DEF Locking
    <3> QED BY <1>1, <2>1, <2>5, <3>1 DEF CallerInv
  <2>8. /\ call[d].at # "inside" => inside[d].step = "begin"
        /\ inside[d].step = "starting" => call[d].op = "add"
        /\ Stopping(d) => call[d].op \in {"remove", "stop"}
        /\ Locking(d) /\ call[d].op = "remove" /\ (call[d].at = "answered" \/ Stopping(d)) =>
             call[d].id \notin workers'
    BY <2>1 DEF CallerInv
  <2> QED BY <2>1, <2>2, <2>3, <2>4, <2>5, <2>6, <2>7, <2>8 DEF CallerInv
<1>3. \A id \in Ids : id >= nextId' => ~Started(id)'
  BY <1>1 DEF LossInv, CallersInv, CallInv
<1> QED BY <1>2, <1>3 DEF CallInv

LEMMA RecordsKept ==
  ASSUME RecordInv, workers' \subseteq workers,
         \A id \in workers' : id \in registered => id \in registered',
         \A c \in Callers : \A id \in workers' : Recording(c, id) => Recording(c, id)' \/ id \in registered'
  PROVE  RecordInv'
BY DEF RecordInv


LEMMA Answered ==
  ASSUME LossInv, NEW c \in Callers, NEW ok \in BOOLEAN, Answer(c, ok)
  PROVE  /\ call' \in [Callers -> Calling] /\ \A d \in Callers \ {c} : call'[d] = call[d]
         /\ call'[c] = [call[c] EXCEPT !.at = "answered", !.ok = ok]
         /\ call'[c].op = call[c].op /\ call'[c].id = call[c].id
         /\ call'[c].at = "answered" /\ call'[c].ok = ok
BY DEF LossInv, CallersInv, CallInv, Calling, Places, Answer

LEMMA Gone ==
  ASSUME LossInv, NEW c \in Callers, NEW left \in SUBSET Ids, NEW step, GoTo(c, step, left),
         step \in {"begin", "starting", "flag", "cancel", "signal", "join", "wake"}
  PROVE  /\ inside' \in [Callers -> Within] /\ \A d \in Callers \ {c} : inside'[d] = inside[d]
         /\ inside'[c].step = step /\ inside'[c].left = left
BY DEF LossInv, CallersInv, CallInv, Within, GoTo

\* Calls that begin and end at the facade.
LEMMA FacadeTells ==
  ASSUME LossInv, NEW c \in Callers,
         RefuseAdd(c) \/ NewCall(c) \/ Record(c) \/ StopBackendDone(c) \/ StopReturns(c, raw = "ended"),
         UNCHANGED <<workers, threads, system, inside, stopped, ready, worker, owed>>
  PROVE  LossInv'
<1>1. closing => closing'
  BY DEF RefuseAdd, CallerOnly, NewCall, AddWatch, RemoveWatch, Stop, Record, StopBackendDone, StopReturns
<1>2. ThreadInv' /\ ReaderInv' /\ SystemInv' /\ LossIsTold'
  BY <1>1, CallerTells DEF threads, system, worker
<1>3. StopperInv'
  BY DEF LossInv, CallersInv, StopperInv, threads
<1>4. /\ call \in [Callers -> Calling] /\ inside' = inside /\ inside \in [Callers -> Within]
      /\ CallerInv(c) /\ nextId \in 1 .. MaxWatches + 1 /\ workers' = workers
      /\ MaxWatches \in Nat /\ NoOne \notin Callers /\ at' = at /\ stopping' = stopping
      /\ \A id \in Ids : id >= nextId => ~Started(id)
  BY CallsAssumption DEF LossInv, CallersInv, CallInv, threads
<1>5. /\ Left(c)' = Left(c) /\ Stopping(c)' = Stopping(c)
      /\ \A id \in Ids : Started(id)' = Started(id)
  BY <1>4 DEF Left, Stopping, Started
<1>6. \A d \in Callers \ {c} : Locking(d) => outer = d
  BY DEF LossInv, CallersInv, CallInv, CallerInv
<1> DEFINE Facts == /\ call' \in [Callers -> Calling] /\ nextId' \in 1 .. MaxWatches + 1 /\ nextId <= nextId'
                    /\ \A d \in Callers \ {c} : call'[d] = call[d]
                    /\ \A d \in Callers \ {c} : Locking(d) => outer' = outer
                    /\ CallerInv(c)'
                    /\ \A id \in workers : id \in registered => id \in registered'
                    /\ \A id \in workers : Recording(c, id) => Recording(c, id)' \/ id \in registered'
<1>7. ASSUME RefuseAdd(c) PROVE Facts
  <2>1. /\ call[c].at = "inside" /\ call[c].op = "add" /\ inside[c].step = "begin"
        /\ UNCHANGED <<outer, registered, nextId>>
    BY <1>7 DEF RefuseAdd, AtStep, CallerOnly
  <2>2. /\ call' \in [Callers -> Calling] /\ \A d \in Callers \ {c} : call'[d] = call[d]
        /\ call'[c].op = "add" /\ call'[c].id = call[c].id /\ call'[c].at = "answered" /\ call'[c].ok = FALSE
    BY <1>7, <2>1, Answered DEF RefuseAdd
  <2>3. CallerInv(c)'
    BY <1>4, <1>5, <2>1, <2>2 DEF CallerInv, Locking, Stopping
  <2>4. \A id : ~Recording(c, id)
    BY <2>1 DEF Recording
  <2> QED BY <1>4, <2>1, <2>2, <2>3, <2>4
<1>8. ASSUME AddWatch(c) PROVE Facts
  <2>1. /\ outer = NoOne /\ outer' = c /\ nextId' = nextId + 1 /\ nextId <= MaxWatches
        /\ call[c].at = "idle" /\ registered' = registered
        /\ call' = [call EXCEPT ![c] = [op |-> "add", id |-> nextId, at |-> "inside", ok |-> FALSE]]
    BY <1>8 DEF AddWatch, Calls
  <2>2. nextId \in Ids /\ nextId' \in 1 .. MaxWatches + 1 /\ nextId <= nextId' /\ nextId < nextId'
    BY <1>4, <2>1 DEF Ids
  <2>3. /\ call' \in [Callers -> Calling] /\ \A d \in Callers \ {c} : call'[d] = call[d]
        /\ call'[c].op = "add" /\ call'[c].id = nextId /\ call'[c].at = "inside"
    BY <1>4, <2>1, <2>2 DEF Calling, Operations, Places
  <2>4. inside[c].step = "begin" /\ ~Stopping(c)
    BY <1>4, <2>1 DEF CallerInv, Stopping
  <2>5. at[nextId] = "none"
    BY <1>4, <2>2 DEF Started
  <2>6. CallerInv(c)'
    BY <1>4, <1>5, <2>1, <2>2, <2>3, <2>4, <2>5 DEF CallerInv, Locking, Started
  <2>7. \A id : ~Recording(c, id)
    BY <2>1 DEF Recording
  <2>8. \A d \in Callers \ {c} : ~Locking(d)
    BY <1>4, <1>6, <2>1
  <2> QED BY <2>1, <2>2, <2>3, <2>6, <2>7, <2>8
<1>9. ASSUME RemoveWatch(c) PROVE Facts
  <2>1. PICK id \in 1 .. nextId - 1 :
        /\ outer = NoOne /\ outer' = c /\ nextId' = nextId /\ call[c].at = "idle" /\ registered' = registered
        /\ call' = [call EXCEPT ![c] = [op |-> "remove", id |-> id, at |-> "inside", ok |-> FALSE]]
    BY <1>9 DEF RemoveWatch, Calls
  <2>2. id \in Ids /\ id < nextId'
    BY <1>4, <2>1 DEF Ids
  <2>3. /\ call' \in [Callers -> Calling] /\ \A d \in Callers \ {c} : call'[d] = call[d]
        /\ call'[c].op = "remove" /\ call'[c].id = id /\ call'[c].at = "inside"
    BY <1>4, <2>1, <2>2 DEF Calling, Operations, Places
  <2>4. inside[c].step = "begin" /\ ~Stopping(c)
    BY <1>4, <2>1 DEF CallerInv, Stopping
  <2>5. CallerInv(c)'
    BY <1>4, <1>5, <2>1, <2>2, <2>3, <2>4 DEF CallerInv, Locking
  <2>6. \A i : ~Recording(c, i)
    BY <2>1 DEF Recording
  <2>7. \A d \in Callers \ {c} : ~Locking(d)
    BY <1>4, <1>6, <2>1
  <2> QED BY <1>4, <2>1, <2>3, <2>5, <2>6, <2>7
<1>10. ASSUME Stop(c) PROVE Facts
  <2>1. /\ call[c].at = "idle" /\ UNCHANGED <<outer, registered, nextId>>
        /\ call' = [call EXCEPT ![c] =
             [op |-> "stop", id |-> 0, at |-> IF closing THEN "joining" ELSE "inside", ok |-> FALSE]]
    BY <1>10 DEF Stop, Calls
  <2>2. /\ call' \in [Callers -> Calling] /\ \A d \in Callers \ {c} : call'[d] = call[d]
        /\ call'[c].op = "stop"
    BY <1>4, <2>1 DEF Calling, Operations, Places
  <2>3. inside[c].step = "begin" /\ ~Stopping(c)
    BY <1>4, <2>1 DEF CallerInv, Stopping
  <2>4. CallerInv(c)'
    BY <1>4, <1>5, <2>1, <2>2, <2>3 DEF CallerInv, Locking
  <2>5. \A i : ~Recording(c, i)
    BY <2>1 DEF Recording
  <2> QED BY <1>4, <2>1, <2>2, <2>4, <2>5
<1>11. ASSUME Record(c) PROVE Facts
  <2>1. /\ call[c].at = "answered" /\ call[c].op # "stop" /\ outer' = NoOne /\ nextId' = nextId
        /\ registered' = IF ~call[c].ok THEN registered
                         ELSE IF call[c].op = "add" THEN registered \cup {call[c].id}
                         ELSE registered \ {call[c].id}
        /\ call' = [call EXCEPT ![c] = NoCall]
    BY <1>11 DEF Record
  <2>2. /\ call' \in [Callers -> Calling] /\ \A d \in Callers \ {c} : call'[d] = call[d]
        /\ call'[c].op = "stop" /\ call'[c].at = "idle"
    BY <1>4, <2>1 DEF Calling, Operations, Places, NoCall
  <2>3. inside[c].step = "begin" /\ ~Stopping(c)
    BY <1>4, <2>1 DEF CallerInv, Stopping
  <2>4. CallerInv(c)'
    BY <1>4, <1>5, <2>1, <2>2, <2>3 DEF CallerInv, Locking
  <2>5. Locking(c) /\ outer = c
    <3>1. call[c].op \in {"add", "remove"}
      BY <1>4, <2>1 DEF Calling, Operations
    <3> QED BY <1>4, <2>1, <3>1 DEF Locking, CallerInv
  <2>6. \A d \in Callers \ {c} : ~Locking(d)
    BY <1>6, <2>5
  <2>7. call[c].op = "add" \/ call[c].id \notin workers
    BY <1>4, <2>1, <2>5 DEF Locking, CallerInv
  <2>8. \A i \in workers : i \in registered => i \in registered'
    BY <2>1, <2>7
  <2>9. \A i \in workers : Recording(c, i) => i \in registered'
    BY <2>1 DEF Recording
  <2> QED BY <1>4, <2>1, <2>2, <2>4, <2>6, <2>8, <2>9
<1>12. ASSUME StopBackendDone(c) \/ StopReturns(c, raw = "ended") PROVE Facts
  <2>1. /\ call[c].at # "inside" /\ UNCHANGED <<outer, registered, nextId>>
        /\ \/ call[c].op = "stop" /\ call' = [call EXCEPT ![c].at = "joining"]
           \/ call[c].at = "joining" /\ call' = [call EXCEPT ![c] = NoCall]
    BY <1>12 DEF StopBackendDone, StopReturns
  <2>2. /\ call' \in [Callers -> Calling] /\ \A d \in Callers \ {c} : call'[d] = call[d]
        /\ call'[c].op = "stop" /\ call'[c].at # "inside"
    <3>1. CASE call[c].op = "stop" /\ call' = [call EXCEPT ![c].at = "joining"]
      BY <1>4, <3>1 DEF Calling, Places
    <3>2. CASE call' = [call EXCEPT ![c] = NoCall]
      BY <1>4, <3>2 DEF Calling, Operations, Places, NoCall
    <3> QED BY <2>1, <3>1, <3>2
  <2>3. inside[c].step = "begin" /\ ~Stopping(c)
    BY <1>4, <2>1 DEF CallerInv, Stopping
  <2>4. CallerInv(c)'
    BY <1>4, <1>5, <2>1, <2>2, <2>3 DEF CallerInv, Locking
  <2>5. \A i : ~Recording(c, i)
    BY <2>1 DEF Recording
  <2> QED BY <1>4, <2>1, <2>2, <2>4, <2>5
<1>13. Facts
  BY <1>7, <1>8, <1>9, <1>10, <1>11, <1>12 DEF NewCall
<1>14. CallInv'
  <2>1. inside' \in [Callers -> Within] /\ workers' \subseteq workers /\ stopping \subseteq stopping'
    BY <1>4
  <2> QED BY <1>4, <1>13, <2>1, OthersUndisturbed
<1>15. RecordInv'
  <2>1. \A d \in Callers \ {c} : \A id \in workers : Recording(d, id) => Recording(d, id)'
    BY <1>4, <1>13 DEF Recording
  <2> QED BY <1>4, <1>13, <2>1, RecordsKept DEF LossInv, CallersInv
<1> QED BY <1>2, <1>3, <1>14, <1>15 DEF LossInv, CallersInv

\* Calls in the backend that start no worker.
LEMMA InsideTells ==
  ASSUME LossInv, NEW c \in Callers,
         UNCHANGED <<outer, registered, closing, nextId, system, at, isReady, batch, renamed, ready, held, reported, owed>>,
         raw' = raw \/ (raw = "parked" /\ raw' = "asking"),
         workers' \subseteq workers, stopped' => stopped \/ workers' = {},
         stopping \subseteq stopping', stopping' \subseteq stopping \cup ({id \in Ids : Started(id)} \ workers),
         io' = io \/ \E id \in Ids : id \notin workers /\ io[id] = "pending" /\ io' = [io EXCEPT ![id] = "aborted"],
         call' \in [Callers -> Calling], inside' \in [Callers -> Within],
         \A d \in Callers \ {c} : call'[d] = call[d] /\ inside'[d] = inside[d],
         CallerInv(c)',
         \A id \in workers' : Recording(c, id) => Recording(c, id)'
  PROVE  LossInv'
<1>1. ThreadInv' /\ ReaderInv' /\ SystemInv' /\ LossIsTold'
  <2>1. closing => closing'
    OBVIOUS
  <2>2. UNCHANGED <<kernel, overflowed>>
    BY DEF system
  <2> QED BY <2>1, <2>2, CallerTells
<1>2. StopperInv'
  <2>1. io \in [Ids -> Reads] /\ workers \subseteq Ids /\ StopperInv
    BY DEF LossInv, ThreadInv, CallersInv
  <2>2. \A id \in workers' : io'[id] = io[id]
    BY <2>1
  <2> QED BY <2>1, <2>2 DEF StopperInv
<1>3. CallInv'
  <2>1. nextId' \in 1 .. MaxWatches + 1 /\ nextId <= nextId'
    BY CallsAssumption DEF LossInv, CallersInv, CallInv
  <2> QED BY <2>1, OthersUndisturbed
<1>4. RecordInv'
  <2>1. \A d \in Callers \ {c} : \A id \in workers' : Recording(d, id) => Recording(d, id)'
    BY DEF Recording
  <2> QED BY <2>1, RecordsKept DEF LossInv, CallersInv
<1> QED BY <1>1, <1>2, <1>3, <1>4 DEF LossInv, CallersInv

\* What is known of the caller.
LEMMA CallerKnown ==
  ASSUME LossInv, NEW c \in Callers
  PROVE  /\ call \in [Callers -> Calling] /\ inside \in [Callers -> Within] /\ CallerInv(c)
         /\ workers \subseteq {id \in Ids : Started(id)} /\ (stopped => workers = {})
         /\ Left(c) \subseteq Ids
BY DEF LossInv, CallersInv, CallInv, ThreadInv, CallerInv

LEMMA AddDoneTells ==
  ASSUME LossInv, NEW c \in Callers, AddDone(c)
  PROVE  LossInv'
<1>1. /\ call[c].at = "inside" /\ call[c].op = "add" /\ inside[c].step = "starting"
      /\ UNCHANGED <<outer, registered, closing, nextId, workers, threads, system, stopped, ready, worker, owed>>
  BY DEF AddDone, AtStep, CallerOnly
<1>2. /\ call' \in [Callers -> Calling] /\ \A d \in Callers \ {c} : call'[d] = call[d]
      /\ call'[c].op = "add" /\ call'[c].id = call[c].id /\ call'[c].at = "answered" /\ call'[c].ok = TRUE
  BY <1>1, Answered DEF AddDone
<1>3. /\ inside' \in [Callers -> Within] /\ \A d \in Callers \ {c} : inside'[d] = inside[d]
      /\ inside'[c].step = "begin" /\ inside'[c].left = {}
  BY Gone DEF AddDone
<1>4. CallerInv(c)'
  <2>1. CallerInv(c) /\ Locking(c)
    BY <1>1, CallerKnown DEF Locking
  <2> QED BY <1>1, <1>2, <1>3, <2>1 DEF CallerInv, Left, Stopping, Locking, threads
<1>5. \A id \in workers' : Recording(c, id) => Recording(c, id)'
  BY <1>2 DEF Recording
<1> QED BY <1>1, <1>2, <1>3, <1>4, <1>5, InsideTells DEF threads, worker

LEMMA TakeWorkerTells ==
  ASSUME LossInv, NEW c \in Callers, TakeWorker(c)
  PROVE  LossInv'
<1>1. /\ call[c].at = "inside" /\ call[c].op = "remove" /\ inside[c].step = "begin"
      /\ UNCHANGED <<outer, registered, closing, nextId, threads, system, stopped, ready, worker, owed>>
      /\ workers' = workers \ {call[c].id}
  BY DEF TakeWorker, AtStep, CallerOnly
<1>2. /\ CallerInv(c) /\ Locking(c) /\ call[c].id \in Ids /\ call \in [Callers -> Calling]
      /\ inside \in [Callers -> Within] /\ workers \subseteq {id \in Ids : Started(id)}
      /\ outer = c /\ call[c].id < nextId /\ Left(c) \subseteq {id \in Ids : Started(id)} \ workers
  BY <1>1, CallerKnown DEF Locking, CallerInv
<1> DEFINE Facts == /\ call' \in [Callers -> Calling] /\ inside' \in [Callers -> Within]
                    /\ \A d \in Callers \ {c} : call'[d] = call[d] /\ inside'[d] = inside[d]
                    /\ CallerInv(c)'
<1>3. ASSUME call[c].id \in workers PROVE Facts
  <2>1. GoTo(c, "flag", {call[c].id}) /\ call' = call
    BY <1>3 DEF TakeWorker
  <2>2. /\ inside' \in [Callers -> Within] /\ \A d \in Callers \ {c} : inside'[d] = inside[d]
        /\ inside'[c].step = "flag" /\ inside'[c].left = {call[c].id}
    BY <1>2, <2>1, Gone
  <2>3. CallerInv(c)'
    BY <1>1, <1>2, <1>3, <2>1, <2>2 DEF CallerInv, Left, Stopping, Locking, Started, threads
  <2> QED BY <1>2, <2>1, <2>2, <2>3
<1>4. ASSUME call[c].id \notin workers PROVE Facts
  <2>1. Answer(c, FALSE) /\ inside' = inside
    BY <1>4 DEF TakeWorker
  <2>2. /\ call' \in [Callers -> Calling] /\ \A d \in Callers \ {c} : call'[d] = call[d]
        /\ call'[c].op = "remove" /\ call'[c].id = call[c].id /\ call'[c].at = "answered"
    BY <1>1, <2>1, Answered
  <2>3. CallerInv(c)'
    BY <1>1, <1>2, <1>4, <2>1, <2>2 DEF CallerInv, Left, Stopping, Locking, Started, threads
  <2> QED BY <1>2, <2>1, <2>2, <2>3
<1>5. Facts
  BY <1>3, <1>4
<1>6. \A id : ~Recording(c, id)
  BY <1>1 DEF Recording
<1>7. workers' \subseteq workers /\ stopping \subseteq stopping'
      /\ stopping' \subseteq stopping \cup ({id \in Ids : Started(id)} \ workers)
  BY <1>1 DEF threads
<1> QED BY <1>1, <1>5, <1>6, <1>7, InsideTells DEF threads, worker

LEMMA TakeAllTells ==
  ASSUME LossInv, NEW c \in Callers, TakeAll(c)
  PROVE  LossInv'
<1>1. /\ call[c].at = "inside" /\ call[c].op = "stop" /\ inside[c].step = "begin" /\ stopped' = TRUE
      /\ UNCHANGED <<outer, registered, closing, nextId, threads, system, ready, worker, owed>>
  BY DEF TakeAll, AtStep, CallerOnly
<1>2. /\ CallerInv(c) /\ call \in [Callers -> Calling] /\ inside \in [Callers -> Within]
      /\ workers \subseteq {id \in Ids : Started(id)} /\ workers \in SUBSET Ids /\ (stopped => workers = {})
      /\ Left(c) \subseteq {id \in Ids : Started(id)} \ workers
  BY CallerKnown DEF CallerInv
<1> DEFINE Facts == /\ call' \in [Callers -> Calling] /\ inside' \in [Callers -> Within]
                    /\ \A d \in Callers \ {c} : call'[d] = call[d] /\ inside'[d] = inside[d]
                    /\ CallerInv(c)' /\ workers' = {}
<1>3. ASSUME stopped PROVE Facts
  <2>1. Answer(c, TRUE) /\ inside' = inside /\ workers' = workers
    BY <1>3 DEF TakeAll
  <2>2. /\ call' \in [Callers -> Calling] /\ \A d \in Callers \ {c} : call'[d] = call[d]
        /\ call'[c].op = "stop" /\ call'[c].at = "answered"
    BY <1>1, <2>1, Answered
  <2>3. CallerInv(c)'
    BY <1>1, <1>2, <2>1, <2>2 DEF CallerInv, Left, Stopping, Locking, Started, threads
  <2> QED BY <1>2, <1>3, <2>1, <2>2, <2>3
<1>4. ASSUME ~stopped PROVE Facts
  <2>1. PICK step \in {"wake", "flag"} : GoTo(c, step, workers) /\ call' = call /\ workers' = {}
    BY <1>4 DEF TakeAll
  <2>2. /\ inside' \in [Callers -> Within] /\ \A d \in Callers \ {c} : inside'[d] = inside[d]
        /\ inside'[c].step = step /\ inside'[c].left = workers
    BY <1>2, <2>1, Gone
  <2>3. CallerInv(c)'
    BY <1>1, <1>2, <2>1, <2>2 DEF CallerInv, Left, Stopping, Locking, Started, threads
  <2> QED BY <1>2, <2>1, <2>2, <2>3
<1>5. Facts
  BY <1>3, <1>4
<1>6. stopping \subseteq stopping' /\ stopping' \subseteq stopping \cup ({id \in Ids : Started(id)} \ workers)
  BY <1>1 DEF threads
<1> QED BY <1>1, <1>5, <1>6, InsideTells DEF threads, worker

LEMMA WakeReaderTells ==
  ASSUME LossInv, NEW c \in Callers, WakeReader(c)
  PROVE  LossInv'
<1>1. /\ call[c].at = "inside" /\ call[c].op = "stop"
      /\ (raw' = raw \/ (raw = "parked" /\ raw' = "asking"))
      /\ UNCHANGED <<outer, registered, closing, nextId, workers, threads, system, stopped, ready, held, reported, owed>>
  BY DEF WakeReader, AtStep, CallerOnly
<1>2. /\ call' \in [Callers -> Calling] /\ \A d \in Callers \ {c} : call'[d] = call[d]
      /\ call'[c].op = "stop" /\ call'[c].at = "answered"
  <2>1. Answer(c, TRUE)
    BY DEF WakeReader
  <2> QED BY <1>1, <2>1, Answered
<1>3. /\ inside' \in [Callers -> Within] /\ \A d \in Callers \ {c} : inside'[d] = inside[d]
      /\ inside'[c].step = "begin" /\ inside'[c].left = {}
  BY Gone DEF WakeReader
<1>4. CallerInv(c)'
  BY <1>2, <1>3 DEF CallerInv, Left, Stopping, Locking
<1>5. \A id : ~Recording(c, id)
  BY <1>1 DEF Recording
<1> QED BY <1>1, <1>2, <1>3, <1>4, <1>5, InsideTells DEF threads

\* The steps of stop_worker, on a worker that is in no caller's way.
LEMMA TargetKnown ==
  ASSUME LossInv, NEW c \in Callers, inside[c].step \in {"cancel", "signal", "join"}
  PROVE  Target(c) \in Left(c) \cap stopping /\ Target(c) \in Ids /\ Target(c) \notin workers
<1>1. Left(c) \cap stopping # {} /\ Left(c) \subseteq {id \in Ids : Started(id)} \ workers
  BY CallerKnown DEF CallerInv, Stopping
<1> QED BY <1>1 DEF Target, Left

LEMMA StopperKnown ==
  ASSUME LossInv, NEW c \in Callers, Stopping(c)
  PROVE  /\ call[c].at = "inside" /\ call[c].op \in {"remove", "stop"}
         /\ Left(c) \in SUBSET Ids /\ Left(c) \subseteq {id \in Ids : Started(id)} \ workers
         /\ \A id : ~Recording(c, id)
         /\ call[c].op = "remove" => Locking(c) /\ outer = c /\ call[c].id \in Ids \ workers /\ call[c].id < nextId
BY CallerKnown DEF CallerInv, Stopping, Locking, Recording

LEMMA RaiseFlagTells ==
  ASSUME LossInv, NEW c \in Callers, NEW id \in Ids, RaiseFlag(c, id)
  PROVE  LossInv'
<1>1. /\ Stopping(c) /\ id \in Left(c) /\ GoTo(c, "cancel", Left(c)) /\ stopping' = stopping \cup {id}
      /\ UNCHANGED <<facade, workers, at, io, batch, renamed, isReady, system, stopped, ready, worker, owed>>
  BY DEF RaiseFlag, Stopping, Left
<1>2. /\ inside' \in [Callers -> Within] /\ \A d \in Callers \ {c} : inside'[d] = inside[d]
      /\ inside'[c].step = "cancel" /\ inside'[c].left = Left(c)
  BY <1>1, StopperKnown, Gone
<1>3. CallerInv(c)'
  BY <1>1, <1>2, StopperKnown DEF CallerInv, Left, Stopping, Locking, Started, facade
<1>4. stopping \subseteq stopping' /\ stopping' \subseteq stopping \cup ({i \in Ids : Started(i)} \ workers)
  BY <1>1, StopperKnown
<1> QED BY <1>1, <1>2, <1>3, <1>4, StopperKnown, CallerKnown, InsideTells DEF facade, worker

LEMMA CancelReadTells ==
  ASSUME LossInv, NEW c \in Callers, CancelRead(c) \/ SignalEvent(c)
  PROVE  LossInv'
<1>1. PICK step \in {"signal", "join"} :
      /\ GoTo(c, step, Left(c))
      /\ Stopping(c) /\ inside[c].step # "flag" /\ inside[c].step \in {"cancel", "signal", "join"}
      /\ UNCHANGED <<facade, workers, at, stopping, batch, renamed, isReady, system, stopped, ready, worker, owed>>
      /\ io' = io \/ (io[Target(c)] = "pending" /\ io' = [io EXCEPT ![Target(c)] = "aborted"])
  <2>1. CASE CancelRead(c)
    BY <2>1 DEF CancelRead, Stopping, Left
  <2>2. CASE SignalEvent(c)
    BY <2>2 DEF SignalEvent, Stopping, Left
  <2> QED BY <2>1, <2>2
<1>2. /\ inside' \in [Callers -> Within] /\ \A d \in Callers \ {c} : inside'[d] = inside[d]
      /\ inside'[c].step = step /\ inside'[c].left = Left(c)
  BY <1>1, StopperKnown, Gone
<1>3. Target(c) \in Left(c) \cap stopping /\ Target(c) \in Ids /\ Target(c) \notin workers
  BY <1>1, TargetKnown
<1>4. CallerInv(c)'
  BY <1>1, <1>2, <1>3, StopperKnown DEF CallerInv, Left, Stopping, Locking, Started, facade
<1>5. io' = io \/ \E id \in Ids : id \notin workers /\ io[id] = "pending" /\ io' = [io EXCEPT ![id] = "aborted"]
  BY <1>1, <1>3
<1>6. \A id : ~Recording(c, id)
  BY <1>1, StopperKnown
<1> QED BY <1>1, <1>2, <1>4, <1>5, <1>6, CallerKnown, InsideTells DEF facade, worker

LEMMA JoinWorkerTells ==
  ASSUME LossInv, NEW c \in Callers, JoinWorker(c)
  PROVE  LossInv'
<1>1. /\ Stopping(c) /\ inside[c].step = "join" /\ After(c, Target(c))
      /\ UNCHANGED <<outer, registered, closing, nextId, workers, at, stopping, io, batch, renamed, isReady,
                     system, stopped, ready, worker, owed>>
  BY DEF JoinWorker, CallerOnly, Stopping
<1> DEFINE Facts == /\ call' \in [Callers -> Calling] /\ inside' \in [Callers -> Within]
                    /\ \A d \in Callers \ {c} : call'[d] = call[d] /\ inside'[d] = inside[d]
                    /\ CallerInv(c)'
<1>2. ASSUME call[c].op = "remove" PROVE Facts
  <2>1. GoTo(c, "begin", {}) /\ Answer(c, TRUE)
    BY <1>1, <1>2 DEF After
  <2>2. /\ call' \in [Callers -> Calling] /\ \A d \in Callers \ {c} : call'[d] = call[d]
        /\ call'[c].op = "remove" /\ call'[c].id = call[c].id /\ call'[c].at = "answered"
    BY <1>2, <2>1, Answered
  <2>3. /\ inside' \in [Callers -> Within] /\ \A d \in Callers \ {c} : inside'[d] = inside[d]
        /\ inside'[c].step = "begin" /\ inside'[c].left = {}
    BY <2>1, Gone
  <2>4. call[c].id \in Ids \ workers /\ outer = c /\ call[c].id < nextId
    BY <1>1, <1>2, StopperKnown
  <2>5. CallerInv(c)'
    BY <1>1, <2>2, <2>3, <2>4 DEF CallerInv, Left, Stopping, Locking
  <2> QED BY <2>2, <2>3, <2>5
<1>3. ASSUME call[c].op # "remove" PROVE Facts
  <2>1. PICK step \in {"wake", "flag"} : GoTo(c, step, Left(c) \ {Target(c)}) /\ call' = call
    BY <1>1, <1>3 DEF After, Left
  <2>2. /\ call \in [Callers -> Calling] /\ call[c].op = "stop" /\ call[c].at = "inside"
        /\ Left(c) \ {Target(c)} \in SUBSET Ids /\ Left(c) \subseteq {id \in Ids : Started(id)} \ workers
    BY <1>1, <1>3, StopperKnown, CallerKnown
  <2>3. /\ inside' \in [Callers -> Within] /\ \A d \in Callers \ {c} : inside'[d] = inside[d]
        /\ inside'[c].step = step /\ inside'[c].left = Left(c) \ {Target(c)}
    BY <2>1, <2>2, Gone
  <2>4. CallerInv(c)'
    BY <1>1, <2>1, <2>2, <2>3 DEF CallerInv, Left, Stopping, Locking, Started
  <2> QED BY <2>1, <2>2, <2>3, <2>4
<1>4. Facts /\ \A id : ~Recording(c, id)
  BY <1>1, <1>2, <1>3, StopperKnown
<1> QED BY <1>1, <1>4, InsideTells DEF worker

\* A worker is started for a fresh identifier, with nothing owed and nothing
\* pending, by the caller that holds the mutex until it has recorded it.
LEMMA StartWorkerTells ==
  ASSUME LossInv, NEW c \in Callers, StartWorker(c)
  PROVE  LossInv'
<1> DEFINE w == call[c].id
<1>1. /\ call[c].at = "inside" /\ call[c].op = "add" /\ inside[c].step = "begin" /\ ~stopped
      /\ workers' = workers \cup {w} /\ at' = [at EXCEPT ![w] = "deciding"] /\ GoTo(c, "starting", {})
      /\ UNCHANGED <<facade, stopping, io, batch, renamed, isReady, system, stopped, ready, worker, owed>>
  BY DEF StartWorker, AtStep
<1>2. /\ outer = c /\ w \in Ids /\ w < nextId /\ ~Started(w)
      /\ call \in [Callers -> Calling] /\ ThreadInv /\ CallInv
  BY <1>1, CallerKnown DEF CallerInv, Locking, LossInv, CallersInv
<1>3. at[w] = "none" /\ io[w] = "none" /\ w \notin workers \cup stopping \cup isReady \cup owed
  BY <1>2 DEF ThreadInv, Started
<1>4. at'[w] = "deciding" /\ \A id \in Ids \ {w} : at'[id] = at[id]
  BY <1>1, <1>2 DEF ThreadInv
<1>5. Started(w)' /\ \A id \in Ids \ {w} : Started(id)' = Started(id)
  BY <1>1, <1>4 DEF Started, facade
<1>6. /\ inside' \in [Callers -> Within] /\ \A d \in Callers \ {c} : inside'[d] = inside[d]
      /\ inside'[c].step = "starting" /\ inside'[c].left = {}
  BY <1>1, Gone
<1>7. ThreadInv'
  <2>1. at' \in [Ids -> ThreadPlaces] /\ io' \in [Ids -> Reads]
    BY <1>1, <1>2 DEF ThreadInv, ThreadPlaces
  <2>2. \A id \in Ids : at'[id] \in {"none", "deciding", "resetting", "issuing", "mapping"} => io'[id] = "none"
    BY <1>1, <1>2, <1>3, <1>4 DEF ThreadInv
  <2>3. workers' \cup stopping' \cup isReady' \cup owed' \subseteq {id \in Ids : Started(id)'}
    BY <1>1, <1>2, <1>3, <1>5 DEF ThreadInv, Started
  <2> QED BY <1>1, <2>1, <2>2, <2>3 DEF ThreadInv
<1>8. StopperInv'
  BY <1>1, <1>3 DEF LossInv, CallersInv, StopperInv
<1>9. CallInv'
  <2>1. CallerInv(c)'
    BY <1>1, <1>2, <1>6 DEF CallerInv, Left, Stopping, Locking, facade
  <2>2. ASSUME NEW d \in Callers \ {c} PROVE CallerInv(d)'
    <3>1. CallerInv(d) /\ call' = call /\ inside'[d] = inside[d] /\ stopping' = stopping
      BY <1>1, <1>2, <1>6 DEF CallInv, facade
    <3>2. ~Locking(d) /\ ~Locking(d)'
      BY <1>2, <3>1 DEF CallerInv, Locking
    <3>3. Left(d)' = Left(d) /\ Left(d) \subseteq {id \in Ids : Started(id)} \ workers
      BY <3>1 DEF CallerInv, Left
    <3>4. Left(d)' \subseteq {id \in Ids : Started(id)'} \ workers'
      BY <1>1, <1>2, <1>5, <3>3
    <3>5. ~(call'[d].at = "inside" /\ call'[d].op = "add" /\ inside'[d].step = "begin")
      BY <3>2 DEF Locking
    <3> QED BY <3>1, <3>2, <3>3, <3>4, <3>5 DEF CallerInv, Left, Stopping, Locking
  <2>3. \A id \in Ids : id >= nextId' => ~Started(id)'
    <3>1. nextId' = nextId /\ nextId \in Nat /\ Ids \subseteq Nat
      BY <1>1, <1>2, CallsAssumption DEF CallInv, Ids, facade
    <3>2. \A id \in Ids : id >= nextId => id # w
      BY <1>2, <3>1
    <3> QED BY <1>2, <1>5, <3>1, <3>2 DEF CallInv
  <2> QED BY <1>1, <1>2, <1>6, <2>1, <2>2, <2>3 DEF CallInv, facade
<1>10. RecordInv'
  <2>1. Recording(c, w)'
    BY <1>1, <1>6 DEF Recording, facade
  <2>2. \A id : ~Recording(c, id)
    BY <1>1 DEF Recording
  <2>3. \A d \in Callers \ {c} : \A id \in workers : Recording(d, id) => Recording(d, id)'
    BY <1>1, <1>6 DEF Recording, facade
  <2> QED BY <1>1, <2>1, <2>2, <2>3 DEF LossInv, CallersInv, RecordInv, facade
<1>11. ReaderInv' /\ SystemInv'
  BY <1>1 DEF LossInv, ReaderInv, SystemInv, worker, system
<1>12. LossIsTold'
  BY <1>1, <1>3, <1>4 DEF LossInv, LossIsTold, InUse, Tells, worker, system, facade
<1> QED BY <1>7, <1>8, <1>9, <1>10, <1>11, <1>12 DEF LossInv, CallersInv

LEMMA LossStep == LossInv /\ [Next]_vars => LossInv'
<1> SUFFICES ASSUME LossInv, [Next]_vars PROVE LossInv'
  OBVIOUS
<1>1. CASE UNCHANGED vars
  BY <1>1 DEF vars, LossInv, ThreadInv, Started, CallersInv, StopperInv, CallInv, CallerInv, Left, Stopping,
              Locking, RecordInv, Recording, ReaderInv, SystemInv, LossIsTold, InUse, Tells, facade,
              threads, system, worker
<1>2. ASSUME NEW c \in Callers, NewCall(c) \/ CallerStep(c) PROVE LossInv'
  <2>1. CASE NewCall(c)
    BY <2>1, FacadeTells DEF NewCall
  <2>2. CASE RefuseAdd(c)
    BY <2>2, FacadeTells DEF RefuseAdd
  <2>3. CASE /\ Record(c) \/ StopBackendDone(c) \/ StopReturns(c, raw = "ended")
             /\ UNCHANGED <<workers, threads, system, inside, stopped, ready, worker, owed>>
    BY <2>3, FacadeTells
  <2> QED BY <1>2, <2>1, <2>2, <2>3, StartWorkerTells, AddDoneTells, TakeWorkerTells, TakeAllTells, RaiseFlagTells,
             CancelReadTells, JoinWorkerTells, WakeReaderTells DEF CallerStep
<1> QED BY <1>1, <1>2, ThreadTells, KernelTells, ReaderTells DEF Next

\* What a watch in use loses is told, by an overflow or an error event that
\* is queued or was passed on.
THEOREM WindowsLossIsTold == Spec => []LossIsTold
<1>1. LossInv => LossIsTold
  BY DEF LossInv
<1> QED BY <1>1, InitLoss, LossStep, PTL DEF Spec
=============================================================================
