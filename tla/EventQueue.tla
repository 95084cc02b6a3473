------------------------------ MODULE EventQueue ------------------------------
(***************************************************************************)
(* The bounded event queue of src/src/watch.cpp: a deque, an "overflowed"  *)
(* flag and a drop count.  The watcher keeps two of them, queue_ for       *)
(* poll/wait and callback_queue_ for the delivery worker, and treats both  *)
(* alike: a full queue gives up its oldest event and the new one for one   *)
(* overflow marker at its FRONT, and until somebody takes that marker each *)
(* further event only raises the count the marker reports.                 *)
(*                                                                         *)
(* An event carries, as history, the arrivals it accounts for: itself for  *)
(* an ordinary event, everything lost for a marker, nothing for the        *)
(* failure event that follows a throwing callback.                         *)
(***************************************************************************)
EXTENDS Naturals, Sequences

Arrivals == Nat \ {0}      \* numbers of the events that reached a queue

EventKinds == {"ordinary", "marker", "failure"}

Event == [kind: EventKinds, ids: SUBSET Arrivals, degraded: BOOLEAN, drops: Nat]

Queue == [events: Seq(Event), overflowed: BOOLEAN, drops: Nat]

EmptyQueue == [events |-> <<>>, overflowed |-> FALSE, drops |-> 0]

\* An overflow event with the queue_overflow diagnostic, which alone resets
\* the flag when it is popped.
IsMarker(e) == e.kind = "marker"

OverflowMarker(ids, count) ==
  [kind |-> "marker", ids |-> ids, degraded |-> TRUE, drops |-> count]

FailureEvent == [kind |-> "failure", ids |-> {}, degraded |-> TRUE, drops |-> 0]

\* The queue has no room and has not said so yet.
Overflows(q, depth) == ~ q.overflowed /\ Len(q.events) >= depth

\* The count is refreshed in the front event, if that is a marker.
CountDrop(q, e) ==
  LET front == q.events[1]
      refreshed == OverflowMarker(front.ids \cup e.ids, q.drops + 1)
  IN [events |-> IF q.events # <<>> /\ IsMarker(front)
                   THEN [q.events EXCEPT ![1] = refreshed]
                   ELSE q.events,
      overflowed |-> q.overflowed,
      drops |-> q.drops + 1]

\* pop_front, then push_front of the marker: the oldest event goes too.
ReplaceFront(q, e) ==
  [events |-> [q.events EXCEPT ![1] = OverflowMarker(q.events[1].ids \cup e.ids, 1)],
   overflowed |-> TRUE,
   drops |-> 1]

Enqueue(q, e, depth) ==
  IF q.overflowed THEN CountDrop(q, e)
  ELSE IF Len(q.events) >= depth THEN ReplaceFront(q, e)
  ELSE [q EXCEPT !.events = Append(q.events, e)]

\* Defect: the flag is not lowered when the marker is taken.
PopFrontKeepsFlag(q) == [q EXCEPT !.events = Tail(q.events)]

PopFront(q) ==
  IF IsMarker(q.events[1])
    THEN [events |-> Tail(q.events), overflowed |-> FALSE, drops |-> 0]
    ELSE [q EXCEPT !.events = Tail(q.events)]

-----------------------------------------------------------------------------
\* What a queue holds, and that it holds no arrival twice.
Held(q) == UNION {q.events[i].ids : i \in DOMAIN q.events}

HeldOnce(q) ==
  \A i, j \in DOMAIN q.events : i # j => q.events[i].ids \cap q.events[j].ids = {}

\* The flag and the count describe the marker at the front, and a queue that
\* is not overflowed has room for the marker it may need.
QueueConsistent(q, depth) ==
  /\ Len(q.events) <= depth
  /\ q.overflowed =>
       /\ q.events # <<>>
       /\ IsMarker(q.events[1])
       /\ q.events[1].drops = q.drops
  /\ ~ q.overflowed => q.drops = 0
=============================================================================
