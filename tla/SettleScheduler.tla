--------------------------- MODULE SettleScheduler ---------------------------
(***************************************************************************)
(* The settled-file scheduler of watcher::impl (src/src/watch.cpp): events *)
(* of one file are coalesced into one task, the settle worker looks at the *)
(* file until its size and mtime are stable or a timeout passes, and then  *)
(* delivers one event.  Every critical section of mutex_ is one action; in *)
(* between the worker keeps the task in hand, out of the maps.             *)
(*                                                                         *)
(* A key names a path of one watch.  std::optional values are sets with at *)
(* most one element, the map of pending tasks is the set of its tasks, and *)
(* a key without an entry in settle_generations_ has generation 0, which   *)
(* is the value operator[] would create.  What stat reports of a file is   *)
(* a version that every write changes.                                     *)
(***************************************************************************)
EXTENDS Naturals, FiniteSets

CONSTANTS
  Keys, Watches, Owner,    \* Owner[k]: the watch a key belongs to
  Debounce,                \* debounce_for, by watch
  StableFor,               \* stable_for, by watch
  PollInterval,            \* poll_interval
  TimeoutAfter,            \* timeout_after, {} or {t}
  MaxPendingPaths,         \* max_pending_paths, by watch
  MaxEvents,               \* bound: events the raw worker brings, by key
  MaxWrites,               \* bound: writes and deletion, by key
  MaxTime                  \* bound: the clock

ASSUME KeysAssumption == IsFiniteSet(Keys) /\ Owner \in [Keys -> Watches]
ASSUME OptionsAssumption ==
  /\ Debounce \in [Watches -> Nat] /\ StableFor \in [Watches -> Nat]
  /\ PollInterval \in Nat \ {0}
  /\ TimeoutAfter \subseteq Nat /\ MaxPendingPaths \in [Watches -> Nat]
ASSUME BoundsAssumption == MaxEvents \in [Keys -> Nat] /\ MaxWrites \in [Keys -> Nat] /\ MaxTime \in Nat

VARIABLES
  watches,       \* keys of watches_
  stopped,       \* stopped_
  notified,      \* stop() has reached its notify_all
  generations,   \* settle_generations_
  pending,       \* pending_settle_tasks_
  deadlines,     \* settle_deadlines_
  pc,            \* where the settle worker is
  wakeAt,        \* the deadline it sleeps until
  hand,          \* the task it holds
  now,           \* steady_clock
  version,       \* external: version of each file, 0 when it is gone
  changedAt,     \* history: when it last changed
  accepted       \* history: events taken in, by key

scheduler == <<generations, pending, deadlines>>
worker == <<pc, wakeAt, hand>>
files == <<version, changedAt>>
life == <<watches, stopped, notified>>
vars == <<scheduler, worker, files, life, now, accepted>>

Reasons == {"", "debounced", "timeout", "unreadable", "ready"}
Task == [key: Keys, gen: Nat, seq: Nat, nextCheck: Nat, timeout: SUBSET Nat,
         seen: SUBSET Nat, stableSince: Nat, reason: Reasons]
Deadline == [at: Nat, key: Keys, gen: Nat]

DeadlineOf(t) == [at |-> t.nextCheck, key |-> t.key, gen |-> t.gen]
TasksOf(k) == {t \in pending : t.key = k}
IsCurrent(t) == generations[t.key] = t.gen
ActiveKeys == {k \in Keys : generations[k] > 0}

TypeOK ==
  /\ watches \subseteq Watches /\ stopped \in BOOLEAN /\ notified \in BOOLEAN
  /\ generations \in [Keys -> Nat]
  /\ pending \subseteq Task /\ deadlines \subseteq Deadline
  /\ pc \in {"scan", "sleep", "snooze", "check", "poll", "retry", "complete", "emit", "done"}
  /\ wakeAt \in Nat /\ hand \subseteq Task /\ now \in Nat
  /\ version \in [Keys -> Nat] /\ changedAt \in [Keys -> Nat]
  /\ accepted \in [Keys -> Nat]

Init ==
  /\ watches = Watches /\ stopped = FALSE /\ notified = FALSE
  /\ generations = [k \in Keys |-> 0] /\ pending = {} /\ deadlines = {}
  /\ pc = "scan" /\ wakeAt = 0 /\ hand = {}
  /\ now = 0
  /\ version = [k \in Keys |-> 1] /\ changedAt = [k \in Keys |-> 0]
  /\ accepted = [k \in Keys |-> 0]

\* Defect: settle_cv_ is not notified.
NotWoken == pc

\* settle_cv_.notify_all
Woken == IF pc \in {"sleep", "snooze"} THEN "scan" ELSE pc

-----------------------------------------------------------------------------
(* enqueue_for_settle, cancel_settle_tasks_for and stop, on other threads. *)

NewTask(k) ==
  [key |-> k, gen |-> generations[k] + 1, seq |-> accepted[k] + 1,
   nextCheck |-> now + Debounce[Owner[k]], timeout |-> {}, seen |-> {}, stableSince |-> 0,
   reason |-> ""]

\* Defects: the deadline of the superseded task stays; one path too many.
EnqueueKeepsDeadline(k) ==
  /\ ~ stopped /\ Owner[k] \in watches
  /\ accepted[k] < MaxEvents[k]
  /\ k \in ActiveKeys \/ Cardinality(ActiveKeys) < MaxPendingPaths[Owner[k]]
  /\ generations' = [generations EXCEPT ![k] = @ + 1]
  /\ pending' = (pending \ TasksOf(k)) \cup {NewTask(k)}
  /\ deadlines' = deadlines \cup {DeadlineOf(NewTask(k))}
  /\ accepted' = [accepted EXCEPT ![k] = @ + 1]
  /\ pc' = Woken
  /\ UNCHANGED <<wakeAt, hand, files, life, now>>

\* The raw worker brings an event of a file.  A key that is new needs room under
\* its own watch's limit, which counts the keys of all watches; a refused event
\* leaves the scheduler as it is (WatchDelivery!SettleOverflow).
EnqueueForSettle(k) ==
  /\ ~ stopped /\ Owner[k] \in watches
  /\ accepted[k] < MaxEvents[k]
  /\ k \in ActiveKeys \/ Cardinality(ActiveKeys) < MaxPendingPaths[Owner[k]]
  /\ generations' = [generations EXCEPT ![k] = @ + 1]
  /\ pending' = (pending \ TasksOf(k)) \cup {NewTask(k)}
  /\ deadlines' = (deadlines \ {DeadlineOf(t) : t \in TasksOf(k)}) \cup {DeadlineOf(NewTask(k))}
  /\ accepted' = [accepted EXCEPT ![k] = @ + 1]
  /\ pc' = Woken
  /\ UNCHANGED <<wakeAt, hand, files, life, now>>

\* Defect: the generations of a removed watch stay.
CancelKeepsGenerations(w) ==
  /\ w \in watches
  /\ watches' = watches \ {w}
  /\ deadlines' = {d \in deadlines : Owner[d.key] # w}
  /\ pending' = {t \in pending : Owner[t.key] # w}
  /\ pc' = Woken
  /\ UNCHANGED <<generations, stopped, notified, wakeAt, hand, files, now, accepted>>

CancelSettleTasksFor(w) ==
  /\ w \in watches
  /\ watches' = watches \ {w}
  /\ deadlines' = {d \in deadlines : Owner[d.key] # w}
  /\ generations' = [k \in Keys |-> IF Owner[k] = w THEN 0 ELSE generations[k]]
  /\ pending' = {t \in pending : Owner[t.key] # w}
  /\ pc' = Woken
  /\ UNCHANGED <<stopped, notified, wakeAt, hand, files, now, accepted>>

Stop ==
  /\ ~ stopped
  /\ stopped' = TRUE
  /\ UNCHANGED <<scheduler, worker, files, watches, notified, now, accepted>>

StopNotifies ==
  /\ stopped /\ ~ notified
  /\ notified' = TRUE
  /\ pc' = Woken
  /\ UNCHANGED <<scheduler, wakeAt, hand, files, watches, stopped, now, accepted>>

-----------------------------------------------------------------------------
(* run_settle *)

Earliest == {d \in deadlines : \A e \in deadlines : d.at <= e.at}

\* Waiting releases mutex_; the predicate is evaluated again after a wake-up.
Sleep ==
  /\ pc = "scan" /\ ~ stopped
  /\ pending = {}
  /\ pc' = "sleep"
  /\ UNCHANGED <<scheduler, wakeAt, hand, files, life, now, accepted>>

SnoozeUntilDeadline ==
  /\ pc = "scan" /\ ~ stopped
  /\ pending # {}
  /\ \E d \in Earliest : d.at > now /\ wakeAt' = d.at
  /\ pc' = "snooze"
  /\ UNCHANGED <<scheduler, hand, files, life, now, accepted>>

DeadlineWakes ==
  /\ pc = "snooze" /\ now >= wakeAt
  /\ pc' = "scan"
  /\ UNCHANGED <<scheduler, wakeAt, hand, files, life, now, accepted>>

\* A deadline whose task has gone or was rescheduled is only removed.
TakeDue ==
  /\ pc = "scan" /\ ~ stopped
  /\ pending # {}
  /\ \E d \in Earliest :
       /\ d.at <= now
       /\ deadlines' = deadlines \ {d}
       /\ hand' = {t \in pending : DeadlineOf(t) = d}
       /\ pending' = pending \ hand'
       /\ pc' = IF hand' = {} THEN "scan" ELSE "check"
  /\ UNCHANGED <<generations, wakeAt, files, life, now, accepted>>

\* current_settle_status
CheckCurrent ==
  /\ pc = "check"
  /\ IF stopped THEN pc' = "done" /\ hand' = {}
     ELSE IF \A t \in hand : IsCurrent(t) THEN pc' = "poll" /\ UNCHANGED hand
     ELSE pc' = "scan" /\ hand' = {}
  /\ UNCHANGED <<scheduler, wakeAt, files, life, now, accepted>>

Armed(t) == IF t.timeout = {} THEN {now + d : d \in TimeoutAfter} ELSE t.timeout

\* The next look at the file is not later than the timeout.
NextLook(timeout) ==
  IF \E e \in timeout : now + PollInterval > e
    THEN CHOOSE e \in timeout : TRUE
    ELSE now + PollInterval

Verdict(t, reason) == hand' = {[t EXCEPT !.reason = reason]} /\ pc' = "complete"

LookAgain(t, since) ==
  /\ hand' = {[t EXCEPT !.timeout = Armed(t), !.seen = {version[t.key]},
                        !.stableSince = since, !.nextCheck = NextLook(Armed(t))]}
  /\ pc' = "retry"

\* Defect: a change of the file does not restart the stable period.
PollKeepsStableSince ==
  /\ pc = "poll"
  /\ \E t \in hand :
       LET v == version[t.key]
           timedOut == \E e \in Armed(t) : now >= e
       IN IF Owner[t.key] \notin watches THEN pc' = "retry" /\ UNCHANGED hand
          ELSE IF StableFor[Owner[t.key]] = 0 THEN Verdict(t, "debounced")
          ELSE IF timedOut THEN Verdict(t, "timeout")
          ELSE IF v = 0 THEN Verdict(t, "unreadable")
          ELSE IF t.seen = {} THEN LookAgain(t, now)
          ELSE IF now < t.stableSince + StableFor[Owner[t.key]] THEN LookAgain(t, t.stableSince)
          ELSE Verdict(t, "ready")
  /\ UNCHANGED <<scheduler, wakeAt, files, life, now, accepted>>

\* poll_settle_task; a task whose watch is gone is skipped.  It runs outside
\* mutex_: that it reads the clock and the file within one tick is assumed.
PollSettleTask ==
  /\ pc = "poll"
  /\ \E t \in hand :
       LET v == version[t.key]
           timedOut == \E e \in Armed(t) : now >= e
       IN IF Owner[t.key] \notin watches THEN pc' = "retry" /\ UNCHANGED hand
          ELSE IF StableFor[Owner[t.key]] = 0 THEN Verdict(t, "debounced")
          ELSE IF timedOut THEN Verdict(t, "timeout")
          ELSE IF v = 0 THEN Verdict(t, "unreadable")
          ELSE IF t.seen # {v} THEN LookAgain(t, now)
          ELSE IF now < t.stableSince + StableFor[Owner[t.key]] THEN LookAgain(t, t.stableSince)
          ELSE Verdict(t, "ready")
  /\ UNCHANGED <<scheduler, wakeAt, files, life, now, accepted>>

\* Defect: the task is completed although a newer event superseded it.
CompleteStale ==
  /\ pc = "complete"
  /\ \E t \in hand :
       IF ~ stopped
         THEN /\ generations' = [generations EXCEPT ![t.key] = 0]
              /\ pending' = pending \ TasksOf(t.key)
              /\ pc' = "emit"
              /\ UNCHANGED <<deadlines, hand>>
         ELSE pc' = "scan" /\ hand' = {} /\ UNCHANGED scheduler
  /\ UNCHANGED <<wakeAt, files, life, now, accepted>>

\* complete_settle_task_if_current
Complete ==
  /\ pc = "complete"
  /\ \E t \in hand :
       IF ~ stopped /\ IsCurrent(t)
         THEN /\ generations' = [generations EXCEPT ![t.key] = 0]
              /\ pending' = pending \ TasksOf(t.key)
              /\ pc' = "emit"
              /\ UNCHANGED <<deadlines, hand>>
         ELSE pc' = "scan" /\ hand' = {} /\ UNCHANGED scheduler
  /\ UNCHANGED <<wakeAt, files, life, now, accepted>>

\* The event leaves for deliver(), which takes mutex_ again
\* (WatchDelivery!DeliverTaken).
Emit ==
  /\ pc = "emit"
  /\ pc' = "scan" /\ hand' = {}
  /\ UNCHANGED <<scheduler, wakeAt, files, life, now, accepted>>

\* The task goes back to the maps unless it was superseded or cancelled.
PutBack ==
  /\ pc = "retry"
  /\ IF ~ stopped /\ \A t \in hand : IsCurrent(t)
       THEN LET old == {t \in pending : \E h \in hand : t.key = h.key}
            IN /\ pending' = (pending \ old) \cup hand
               /\ deadlines' = (deadlines \ {DeadlineOf(t) : t \in old})
                               \cup {DeadlineOf(t) : t \in hand}
       ELSE UNCHANGED <<pending, deadlines>>
  /\ pc' = "scan" /\ hand' = {}
  /\ UNCHANGED <<generations, wakeAt, files, life, now, accepted>>

WorkerExits ==
  /\ pc = "scan" /\ stopped
  /\ pc' = "done"
  /\ UNCHANGED <<scheduler, wakeAt, hand, files, life, now, accepted>>

-----------------------------------------------------------------------------
(* External: the clock and the programs that write the files. *)

Tick ==
  /\ now < MaxTime
  /\ now' = now + 1
  /\ UNCHANGED <<scheduler, worker, files, life, accepted>>

Write(k) ==
  /\ version[k] \in 1 .. MaxWrites[k]
  /\ version' = [version EXCEPT ![k] = @ + 1]
  /\ changedAt' = [changedAt EXCEPT ![k] = now]
  /\ UNCHANGED <<scheduler, worker, life, now, accepted>>

Delete(k) ==
  /\ version[k] > 0 /\ MaxWrites[k] > 0
  /\ version' = [version EXCEPT ![k] = 0]
  /\ changedAt' = [changedAt EXCEPT ![k] = now]
  /\ UNCHANGED <<scheduler, worker, life, now, accepted>>

WorkerStep ==
  \/ Sleep \/ SnoozeUntilDeadline \/ DeadlineWakes \/ TakeDue \/ CheckCurrent
  \/ PollSettleTask \/ Complete \/ Emit \/ PutBack \/ WorkerExits

Next ==
  \/ WorkerStep
  \/ \E k \in Keys : EnqueueForSettle(k) \/ Write(k) \/ Delete(k)
  \/ \E w \in Watches : CancelSettleTasksFor(w)
  \/ Stop \/ StopNotifies
  \/ Tick

Spec == Init /\ [][Next]_vars

\* The settle worker runs when it can; a caller inside stop() goes on.
FairSpec == Spec /\ WF_vars(WorkerStep) /\ WF_vars(StopNotifies)

-----------------------------------------------------------------------------
(* Properties. *)

\* A task is in hand between being taken and being completed or put back.
Held == IF pc \in {"check", "poll", "retry", "complete"} THEN hand ELSE {}

\* The three maps tell one story: one pending task per key, of the current
\* generation, with exactly its own deadline in the set; so a due deadline never
\* turns out stale and putting a task back never finds the key taken.
MapsAgree ==
  /\ \A t, u \in pending : t.key = u.key => t = u
  /\ \A t \in pending : IsCurrent(t)
  /\ deadlines = {DeadlineOf(t) : t \in pending}
  /\ \A h \in Held : IsCurrent(h) => TasksOf(h.key) = {}

\* No slot leaks: a key counts against max_pending_paths only while a current
\* task for it is pending or in hand, unless stop() ended the worker with that
\* task in hand, and only while its watch is there
\* (complete_settle_task_if_current, cancel_settle_tasks_for).
NoSlotLeaks ==
  \A k \in ActiveKeys :
    /\ Owner[k] \in watches
    /\ stopped \/ \E t \in pending \cup Held : t.key = k /\ IsCurrent(t)

\* A settled event stands for the last event of its file: an event that arrives
\* while the task is in hand supersedes it, up to the completing section.
SettledIsLatest ==
  [][pc = "complete" /\ pc' = "emit" =>
       \A t \in hand : t.seq = accepted[t.key] /\ Owner[t.key] \in watches]_vars

\* "File size and mtime are stable" is said only of a file that nobody has
\* written for stable_for.
ReadyMeansQuiet ==
  [][pc = "poll" /\ pc' = "complete" =>
       \A t \in hand' : t.reason = "ready" => now >= changedAt[t.key] + StableFor[Owner[t.key]]]_vars

\* One slow path cannot block ready ones (docs/adr/0010): a task that is due is
\* taken, whatever the other files and the clock do.
DueTasksAreTaken ==
  \A k \in Keys :
    (\E t \in pending : t.key = k /\ t.nextCheck <= now)
      ~> (stopped \/ ~ \E t \in pending : t.key = k /\ t.nextCheck <= now)

=============================================================================
