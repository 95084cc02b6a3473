---------------------------- MODULE WatchDelivery ----------------------------
(***************************************************************************)
(* Event delivery and shutdown of watcher::impl (src/src/watch.cpp).       *)
(*                                                                         *)
(* Three worker threads run inside a watcher: "raw" takes events from the  *)
(* backend, "settle" completes settled-file tasks, "delivery" invokes the  *)
(* callback.  Clients, and the callback itself, call the public methods.   *)
(* Every critical section of mutex_ is one action; a value read in one     *)
(* section and used in the next is kept in taken, current or stopAt, so    *)
(* that other threads can step in between.  A thread in parked is blocked  *)
(* on a condition variable until somebody notifies it; a spurious wake-up  *)
(* only evaluates the predicate again and is left out.                     *)
(***************************************************************************)
EXTENDS EventQueue, FiniteSets

CONSTANTS
  Clients,                 \* application threads
  Callbacks,               \* callbacks they may install
  NoCallback,              \* the empty std::function
  MaxQueueDepth,           \* max_queue_depth
  MaxCallbackQueueDepth,   \* max_callback_queue_depth
  MaxWatches,              \* bound: watch ids handed out
  MaxEvents,               \* bound: events the producers take
  Severities,              \* whether the backend's own events may be degraded
  ShutdownPolicies         \* which sets of threads may call stop()

Producers == {"raw", "settle"}
Workers == Producers \cup {"delivery"}
Threads == Workers \cup Clients
WatchIds == 1 .. MaxWatches

ASSUME DepthsAssumption ==
  MaxQueueDepth \in Nat \ {0} /\ MaxCallbackQueueDepth \in Nat \ {0}
ASSUME BoundsAssumption == MaxWatches \in Nat /\ MaxEvents \in Nat
ASSUME ThreadsAssumption == Clients \cap Workers = {} /\ NoCallback \notin Callbacks
ASSUME SeveritiesAssumption == Severities \subseteq BOOLEAN
ASSUME PoliciesAssumption == ShutdownPolicies \subseteq SUBSET (Clients \cup {"delivery"})

VARIABLES
  pull,            \* queue_, queue_overflowed_, queue_overflow_drop_count_
  call,            \* callback_queue_ and its flag and count
  state,           \* state_
  stopped,         \* stopped_
  backendStopped,  \* backend_->stop() was called
  callback,        \* callback_
  watches,         \* keys of watches_
  nextId,          \* next_id_
  joinable,        \* workers whose std::thread is joinable
  lifecycle,       \* owner of lifecycle_mutex_
  pc,              \* where each thread is
  stopAt,          \* how far each thread is in stop()
  taken,           \* the event a producer holds between two critical sections
  current,         \* the event the delivery worker holds
  parked,          \* threads blocked on cv_ or delivery_cv_
  stoppers,        \* the threads that may call stop() in this run
  fate             \* history: what became of the events that reached a queue

queues == <<pull, call, state>>
shutdown == <<stopped, backendStopped, joinable, lifecycle, stopAt, stoppers>>
config == <<callback, watches, nextId>>
vars == <<queues, shutdown, config, fate, pc, taken, current, parked>>

Nobody == "nobody"
StopSteps == {"none", "backend", "notify", "lock", "returned"} \cup Workers
NothingTaken == [watch |-> 0, degraded |-> FALSE]
NoEvent == [kind |-> "ordinary", ids |-> {}, degraded |-> FALSE, drops |-> 0]
Fates == {"pending", "called", "pulled", "reported", "discarded"}

TypeOK ==
  /\ pull \in Queue /\ call \in Queue
  /\ state \in {"clean", "degraded", "stopped"}
  /\ stopped \in BOOLEAN /\ backendStopped \in BOOLEAN
  /\ callback \in Callbacks \cup {NoCallback}
  /\ watches \subseteq WatchIds
  /\ nextId \in 1 .. MaxWatches + 1
  /\ joinable \subseteq Workers
  /\ lifecycle \in Threads \cup {Nobody}
  /\ pc \in [Threads -> {"idle", "check", "deliver", "decide", "calling", "wait", "done"}]
  /\ stopAt \in [Threads -> StopSteps]
  /\ taken \in [Producers -> [watch: WatchIds \cup {0}, degraded: BOOLEAN]]
  /\ current \in Event
  /\ parked \subseteq Clients \cup {"delivery"}
  /\ stoppers \in ShutdownPolicies
  /\ fate \in Seq(Fates)

Init ==
  /\ pull = EmptyQueue /\ call = EmptyQueue
  /\ state = "clean"
  /\ stopped = FALSE /\ backendStopped = FALSE
  /\ callback = NoCallback
  /\ watches = {} /\ nextId = 1
  /\ joinable = Workers
  /\ lifecycle = Nobody
  /\ pc = [t \in Threads |-> "idle"]
  /\ stopAt = [t \in Threads |-> "none"]
  /\ taken = [p \in Producers |-> NothingTaken]
  /\ current = NoEvent
  /\ parked = {}
  /\ stoppers \in ShutdownPolicies
  /\ fate = <<>>

Goto(t, where) == pc' = [pc EXCEPT ![t] = where]

-----------------------------------------------------------------------------
(* Queues. *)

EnqueueCallbackSilently(e) ==
  /\ call' = Enqueue(call, e, MaxCallbackQueueDepth)
  /\ state' = IF e.degraded \/ Overflows(call, MaxCallbackQueueDepth)
                THEN "degraded" ELSE state
  /\ UNCHANGED <<pull, parked>>

EnqueueCallbackStaysClean(e) ==
  /\ call' = Enqueue(call, e, MaxCallbackQueueDepth)
  /\ state' = IF e.degraded THEN "degraded" ELSE state
  /\ parked' = IF call.overflowed THEN parked ELSE parked \ {"delivery"}
  /\ UNCHANGED pull

EnqueueLocked(e) ==
  /\ pull' = Enqueue(pull, e, MaxQueueDepth)
  /\ state' = IF e.degraded \/ Overflows(pull, MaxQueueDepth) THEN "degraded" ELSE state
  /\ parked' = IF pull.overflowed THEN parked ELSE parked \ Clients
  /\ UNCHANGED call

EnqueueCallbackLocked(e) ==
  /\ call' = Enqueue(call, e, MaxCallbackQueueDepth)
  /\ state' = IF e.degraded \/ Overflows(call, MaxCallbackQueueDepth)
                THEN "degraded" ELSE state
  /\ parked' = IF call.overflowed THEN parked ELSE parked \ {"delivery"}
  /\ UNCHANGED pull

\* Neither deliver() nor what it calls looks at stopped_.
Deliver(e) ==
  IF callback = NoCallback THEN EnqueueLocked(e) ELSE EnqueueCallbackLocked(e)

\* History: event e leaves the queues for the application.
HandOver(e, how) ==
  fate' = [n \in DOMAIN fate |->
             IF n \notin e.ids THEN fate[n] ELSE IF IsMarker(e) THEN "reported" ELSE how]

PopQueueFront ==
  /\ pull.events # <<>>
  /\ pull' = PopFront(pull)
  /\ HandOver(pull.events[1], "pulled")
  /\ UNCHANGED <<call, state>>

-----------------------------------------------------------------------------
(* The producers: run() and the end of run_settle(). *)

InFlight == {p \in Producers : pc[p] \in {"check", "deliver"}}

\* wait_event returns an event; or a settle task of watch w is found ready.
Take(p) ==
  /\ pc[p] = "idle"
  /\ IF p = "raw" THEN ~ backendStopped ELSE ~ stopped
  /\ Len(fate) + Cardinality(InFlight) < MaxEvents
  /\ \E w \in WatchIds, d \in Severities :
       /\ w < nextId
       /\ taken' = [taken EXCEPT ![p] = [watch |-> w, degraded |-> d]]
  /\ Goto(p, "check")
  /\ UNCHANGED <<queues, shutdown, config, fate, current, parked>>

\* watch_is_active for run(); complete_settle_task_if_current for run_settle(),
\* whose generation exists only while the watch does (SettleScheduler).
CheckActive(p) ==
  /\ pc[p] = "check"
  /\ IF ~ stopped /\ taken[p].watch \in watches
       THEN Goto(p, "deliver") /\ UNCHANGED taken
       ELSE Goto(p, "idle") /\ taken' = [taken EXCEPT ![p] = NothingTaken]
  /\ UNCHANGED <<queues, shutdown, config, fate, current, parked>>

Arrive(e) == Deliver(e) /\ fate' = Append(fate, "pending")

DeliverTaken(p) ==
  /\ pc[p] = "deliver"
  /\ Arrive([kind |-> "ordinary", ids |-> {Len(fate) + 1},
             degraded |-> taken[p].degraded, drops |-> 0])
  /\ Goto(p, "idle")
  /\ taken' = [taken EXCEPT ![p] = NothingTaken]
  /\ UNCHANGED <<shutdown, config, current>>

\* The event needs settling: enqueue_for_settle keeps it for SettleScheduler,
\* or drops it because the watch is gone.
GivenToSettle ==
  /\ pc["raw"] = "deliver"
  /\ Goto("raw", "idle")
  /\ taken' = [taken EXCEPT !["raw"] = NothingTaken]
  /\ UNCHANGED <<queues, shutdown, config, fate, current, parked>>

\* enqueue_for_settle finds no room for another path and reports that instead.
SettleOverflow ==
  /\ pc["raw"] = "deliver"
  /\ ~ stopped /\ taken["raw"].watch \in watches
  /\ Arrive(OverflowMarker({Len(fate) + 1}, 0))
  /\ Goto("raw", "idle")
  /\ taken' = [taken EXCEPT !["raw"] = NothingTaken]
  /\ UNCHANGED <<shutdown, config, current>>

\* run() sees the null event of a stopped backend; run_settle() sees stopped_.
ProducerExits(p) ==
  /\ pc[p] = "idle"
  /\ stopped /\ (p = "raw" => backendStopped)
  /\ Goto(p, "done")
  /\ parked' = IF p = "raw" THEN parked \ Clients ELSE parked
  /\ UNCHANGED <<queues, shutdown, config, fate, taken, current>>

-----------------------------------------------------------------------------
(* The delivery worker: run_delivery() and deliver_to_callback_or_queue(). *)

DeliveryAwake(where) == pc["delivery"] = where /\ "delivery" \notin parked

DeliveryParks ==
  /\ DeliveryAwake("idle")
  /\ ~ stopped /\ call.events = <<>>
  /\ parked' = parked \cup {"delivery"}
  /\ UNCHANGED <<queues, shutdown, config, fate, pc, taken, current>>

DeliveryExits ==
  /\ DeliveryAwake("idle")
  /\ stopped
  /\ Goto("delivery", "done")
  /\ UNCHANGED <<queues, shutdown, config, fate, taken, current, parked>>

PopCallbackQueue ==
  /\ DeliveryAwake("idle")
  /\ ~ stopped /\ call.events # <<>>
  /\ current' = call.events[1]
  /\ call' = PopFront(call)
  /\ Goto("delivery", "decide")
  /\ UNCHANGED <<pull, state, shutdown, config, fate, taken, parked>>

DropBecauseStopped ==
  /\ DeliveryAwake("decide")
  /\ stopped
  /\ HandOver(current, "discarded")
  /\ current' = NoEvent
  /\ Goto("delivery", "idle")
  /\ UNCHANGED <<queues, shutdown, config, taken, parked>>

\* Defect: an event that meets a cleared callback is dropped.
FallBackToNothing ==
  /\ DeliveryAwake("decide")
  /\ ~ stopped /\ callback = NoCallback
  /\ current' = NoEvent
  /\ Goto("delivery", "idle")
  /\ UNCHANGED <<queues, parked, shutdown, config, fate, taken>>

FallBackToQueue ==
  /\ DeliveryAwake("decide")
  /\ ~ stopped /\ callback = NoCallback
  /\ EnqueueLocked(current)
  /\ current' = NoEvent
  /\ Goto("delivery", "idle")
  /\ UNCHANGED <<shutdown, config, fate, taken>>

CallCallback ==
  /\ DeliveryAwake("decide")
  /\ ~ stopped /\ callback # NoCallback
  /\ HandOver(current, "called")
  /\ Goto("delivery", "calling")
  /\ UNCHANGED <<queues, shutdown, config, taken, current, parked>>

\* A thread is in application code, not inside a method of the watcher.
AtApplication(t) ==
  /\ pc[t] = IF t = "delivery" THEN "calling" ELSE "idle"
  /\ t \notin Producers
  /\ stopAt[t] \in {"none", "returned"}

CallbackReturns ==
  /\ pc["delivery"] = "calling" /\ AtApplication("delivery")
  /\ current' = NoEvent
  /\ Goto("delivery", "idle")
  /\ UNCHANGED <<queues, shutdown, config, fate, taken, parked>>

\* Defect: the event whose callback threw is queued again instead of an error.
CallbackThrowsAndRequeues ==
  /\ pc["delivery"] = "calling" /\ AtApplication("delivery")
  /\ callback' = NoCallback
  /\ EnqueueLocked(current)
  /\ current' = NoEvent
  /\ Goto("delivery", "idle")
  /\ UNCHANGED <<shutdown, watches, nextId, fate, taken>>

\* handle_callback_exception clears whatever callback is installed now.
CallbackThrows ==
  /\ pc["delivery"] = "calling" /\ AtApplication("delivery")
  /\ callback' = NoCallback
  /\ EnqueueLocked(FailureEvent)
  /\ current' = NoEvent
  /\ Goto("delivery", "idle")
  /\ UNCHANGED <<shutdown, watches, nextId, fate, taken>>

-----------------------------------------------------------------------------
(* Methods an application thread or the callback calls. *)

ApplicationRuns == \E t \in Threads : AtApplication(t)

\* The id is spent even when the backend refuses.
AddWatch ==
  /\ ApplicationRuns
  /\ ~ stopped /\ nextId <= MaxWatches
  /\ nextId' = nextId + 1
  /\ watches' \in {watches, watches \cup {nextId}}
  /\ UNCHANGED <<queues, shutdown, callback, fate, pc, taken, current, parked>>

RemoveWatch ==
  /\ ApplicationRuns
  /\ \E w \in watches : watches' = watches \ {w}
  /\ UNCHANGED <<queues, shutdown, callback, nextId, fate, pc, taken, current, parked>>

SetCallback ==
  /\ ApplicationRuns
  /\ callback' \in (Callbacks \cup {NoCallback}) \ {callback}
  /\ UNCHANGED <<queues, shutdown, watches, nextId, fate, pc, taken, current, parked>>

Poll ==
  /\ ApplicationRuns
  /\ PopQueueFront
  /\ UNCHANGED <<shutdown, config, pc, taken, current, parked>>

WaitBegins(c) ==
  /\ AtApplication(c)
  /\ Goto(c, "wait")
  /\ UNCHANGED <<queues, shutdown, config, fate, taken, current, parked>>

WaitParks(c) ==
  /\ pc[c] = "wait" /\ c \notin parked
  /\ pull.events = <<>> /\ ~ stopped
  /\ parked' = parked \cup {c}
  /\ UNCHANGED <<queues, shutdown, config, fate, pc, taken, current>>

\* A queued event comes first even when the watcher is stopped.
WaitTakes(c) ==
  /\ pc[c] = "wait" /\ c \notin parked
  /\ PopQueueFront
  /\ Goto(c, "idle")
  /\ UNCHANGED <<shutdown, config, taken, current, parked>>

WaitSeesStop(c) ==
  /\ pc[c] = "wait" /\ c \notin parked
  /\ pull.events = <<>> /\ stopped
  /\ Goto(c, "idle")
  /\ UNCHANGED <<queues, shutdown, config, fate, taken, current, parked>>

\* wait_for: the timeout wakes the thread, which evaluates the predicate.
WaitTimesOut(c) ==
  /\ c \in parked
  /\ IF pull.events # <<>> THEN PopQueueFront ELSE UNCHANGED <<queues, fate>>
  /\ Goto(c, "idle")
  /\ parked' = parked \ {c}
  /\ UNCHANGED <<shutdown, config, taken, current>>

-----------------------------------------------------------------------------
(* stop(), also called by the destructor and by move assignment. *)

StopBegins(t) ==
  /\ t \in stoppers /\ AtApplication(t) /\ stopAt[t] = "none"
  /\ stopped' = TRUE
  /\ state' = IF stopped THEN state ELSE "stopped"
  /\ stopAt' = [stopAt EXCEPT ![t] = IF stopped THEN "notify" ELSE "backend"]
  /\ UNCHANGED <<pull, call, backendStopped, joinable, lifecycle, stoppers, config,
                 fate, pc, taken, current, parked>>

StopBackend(t) ==
  /\ stopAt[t] = "backend"
  /\ backendStopped' = TRUE
  /\ stopAt' = [stopAt EXCEPT ![t] = "notify"]
  /\ UNCHANGED <<queues, stopped, joinable, lifecycle, stoppers, config,
                 fate, pc, taken, current, parked>>

\* Defect: stop() does not notify the condition variables.
StopForgetsToNotify(t) ==
  /\ stopAt[t] = "notify"
  /\ stopAt' = [stopAt EXCEPT ![t] = "lock"]
  /\ UNCHANGED <<queues, stopped, backendStopped, joinable, lifecycle, stoppers, config,
                 fate, pc, taken, current, parked>>

StopNotifies(t) ==
  /\ stopAt[t] = "notify"
  /\ parked' = {}
  /\ stopAt' = [stopAt EXCEPT ![t] = "lock"]
  /\ UNCHANGED <<queues, stopped, backendStopped, joinable, lifecycle, stoppers, config,
                 fate, pc, taken, current>>

StopLocks(t) ==
  /\ stopAt[t] = "lock" /\ lifecycle = Nobody
  /\ lifecycle' = t
  /\ stopAt' = [stopAt EXCEPT ![t] = "raw"]
  /\ UNCHANGED <<queues, stopped, backendStopped, joinable, stoppers, config,
                 fate, pc, taken, current, parked>>

NextJoin == [raw |-> "settle", settle |-> "delivery", delivery |-> "returned"]

\* Defects: every worker is detached; the calling worker is joined too.
DetachAll(t) ==
  /\ stopAt[t] \in Workers
  /\ joinable' = joinable \ {stopAt[t]}
  /\ stopAt' = [stopAt EXCEPT ![t] = NextJoin[stopAt[t]]]
  /\ lifecycle' = IF NextJoin[stopAt[t]] = "returned" THEN Nobody ELSE t
  /\ UNCHANGED <<queues, stopped, backendStopped, stoppers, config,
                 fate, pc, taken, current, parked>>

JoinAll(t) ==
  /\ stopAt[t] \in Workers
  /\ stopAt[t] \in joinable => pc[stopAt[t]] = "done"
  /\ joinable' = joinable \ {stopAt[t]}
  /\ stopAt' = [stopAt EXCEPT ![t] = NextJoin[stopAt[t]]]
  /\ lifecycle' = IF NextJoin[stopAt[t]] = "returned" THEN Nobody ELSE t
  /\ UNCHANGED <<queues, stopped, backendStopped, stoppers, config,
                 fate, pc, taken, current, parked>>

\* join_or_detach_for_stop: the worker is joined once it has ended; the
\* calling thread itself is detached.
JoinOrDetach(t) ==
  /\ stopAt[t] \in Workers
  /\ LET w == stopAt[t]
     IN /\ w \in joinable => w = t \/ pc[w] = "done"
        /\ joinable' = joinable \ {w}
        /\ stopAt' = [stopAt EXCEPT ![t] = NextJoin[w]]
        /\ lifecycle' = IF NextJoin[w] = "returned" THEN Nobody ELSE t
  /\ UNCHANGED <<queues, stopped, backendStopped, stoppers, config,
                 fate, pc, taken, current, parked>>

-----------------------------------------------------------------------------
ProducerStep(p) == CheckActive(p) \/ DeliverTaken(p) \/ ProducerExits(p)

DeliveryStep ==
  \/ DeliveryParks \/ DeliveryExits \/ PopCallbackQueue
  \/ DropBecauseStopped \/ FallBackToQueue \/ CallCallback
  \/ CallbackReturns \/ CallbackThrows

WaitStep(c) == WaitParks(c) \/ WaitTakes(c) \/ WaitSeesStop(c)

StopStep(t) == StopBackend(t) \/ StopNotifies(t) \/ StopLocks(t) \/ JoinOrDetach(t)

Next ==
  \/ \E p \in Producers : Take(p) \/ ProducerStep(p)
  \/ GivenToSettle \/ SettleOverflow
  \/ DeliveryStep
  \/ AddWatch \/ RemoveWatch \/ SetCallback \/ Poll
  \/ \E c \in Clients : WaitBegins(c) \/ WaitStep(c) \/ WaitTimesOut(c)
  \/ \E t \in Threads : StopBegins(t) \/ StopStep(t)

Spec == Init /\ [][Next]_vars

\* The scheduler runs every thread that can run, and callbacks return.
Fairness ==
  /\ \A p \in Producers : WF_vars(ProducerStep(p))
  /\ WF_vars(DeliveryStep)
  /\ \A c \in Clients : WF_vars(WaitStep(c))
  /\ \A t \in Threads : WF_vars(StopStep(t))

FairSpec == Spec /\ Fairness

-----------------------------------------------------------------------------
(* Properties. *)

\* Arrivals in the delivery worker's hands, out of callback_queue_ and not yet
\* given to the callback or to queue_.
InDecision == IF pc["delivery"] = "decide" THEN current.ids ELSE {}

\* Nothing is lost in silence and nothing is given out twice: an event that
\* reached deliver() and that the application has neither seen, nor was told
\* to be lost, is held by exactly one queue or by the delivery worker, as
\* itself or in the account of an overflow marker (enqueue_locked,
\* enqueue_callback_locked, run_delivery, deliver_to_callback_or_queue).
Conservation ==
  /\ {n \in DOMAIN fate : fate[n] = "pending"} = Held(pull) \cup Held(call) \cup InDecision
  /\ HeldOnce(pull) /\ HeldOnce(call)
  /\ Held(pull) \cap Held(call) = {}
  /\ InDecision \cap (Held(pull) \cup Held(call)) = {}

\* In both queues the overflowed flag is up exactly as long as the marker that
\* reports the current count is at the front, where the next reader takes it
\* before any event that is younger than a lost one (enqueue_*_locked,
\* pop_queue_front_locked, refresh_*_diagnostic_locked), even when markers of
\* other queues and settle overflows pass through.
QueuesConsistent ==
  /\ QueueConsistent(pull, MaxQueueDepth)
  /\ QueueConsistent(call, MaxCallbackQueueDepth)

\* Losing events and announcing the loss go with a degraded stream: as long as a
\* marker is anywhere, and after one was handed out, state_ is not clean
\* (docs/adr/0010: "both an event and degraded stream state").
LossDegradesStream ==
  (\/ \E q \in {pull, call} : \E i \in DOMAIN q.events : IsMarker(q.events[i])
   \/ \E n \in DOMAIN fate : fate[n] = "reported") => state # "clean"

\* No wake-up is lost: nobody sleeps in wait() while queue_ holds an event, nor
\* the delivery worker while callback_queue_ does; and when the watcher is
\* stopped a thread sleeps only until a caller of stop() reaches its notify_all.
NoLostWakeup ==
  /\ parked \cap Clients # {} => pull.events = <<>>
  /\ "delivery" \in parked => call.events = <<>>
  /\ stopped /\ parked # {} => \E t \in Threads : stopAt[t] \in {"backend", "notify"}

\* When a stop() has returned to its caller, the raw and the settle worker have
\* ended, and so has the delivery worker unless it is the one that called
\* stop() from its callback: no callback begins or runs on behind the caller's
\* back (join_or_detach_for_stop).
StopJoinsWorkers ==
  (\E t \in Threads : stopAt[t] = "returned") =>
    /\ \A p \in Producers : pc[p] = "done"
    /\ pc["delivery"] \in {"decide", "calling"} => stopAt["delivery"] = "returned"

\* What became of an event is final, and the callback sees the events in the
\* order in which they reached the watcher, across mode switches and overflows.
DeliveredOnceInOrder ==
  [][\A n \in DOMAIN fate :
       /\ fate[n] # "pending" => fate'[n] = fate[n]
       /\ fate'[n] # fate[n] /\ fate'[n] = "called" =>
            \A m \in DOMAIN fate : m > n => fate[m] # "called"]_vars

\* stop() returns to everyone who calls it, if backend and callbacks return.
StopReturns ==
  \A t \in Clients \cup {"delivery"} : stopAt[t] # "none" ~> stopAt[t] = "returned"

\* When no more events come, the delivery worker of a running watcher empties
\* callback_queue_, however often the callback is replaced or throws.
CallbackQueueDrains == (call.events # <<>>) ~> (call.events = <<>> \/ stopped)

=============================================================================
