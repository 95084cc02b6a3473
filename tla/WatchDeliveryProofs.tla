-------------------------- MODULE WatchDeliveryProofs --------------------------
(***************************************************************************)
(* Theorems about WatchDelivery for every number of clients, callbacks,    *)
(* watches and events, every queue depth and every shutdown policy.  The   *)
(* last part is about its threads: nobody sleeps through a notification,   *)
(* and stop() leaves no worker behind.                                     *)
(***************************************************************************)
EXTENDS WatchDelivery, TLAPS, SequenceTheorems

-----------------------------------------------------------------------------
(* The bounded queue: what its operators return, and that the marker stays *)
(* where readers look.                                                     *)

\* An ordinary queue operation on a queue gives a queue (enqueue_locked).
LEMMA EnqueueType ==
  ASSUME NEW q \in Queue, NEW e \in Event, NEW depth \in Nat \ {0}
  PROVE  Enqueue(q, e, depth) \in Queue
<1>1. /\ q.events \in Seq(Event)
      /\ q.overflowed \in BOOLEAN
      /\ q.drops \in Nat
      /\ e.ids \subseteq Arrivals
  BY DEF Queue, Event
<1>2. CASE q.overflowed
  <2>1. CASE q.events # <<>> /\ IsMarker(q.events[1])
    <3>1. 1 \in DOMAIN q.events /\ q.events[1] \in Event
      BY <1>1, <2>1
    <3>2. OverflowMarker(q.events[1].ids \cup e.ids, q.drops + 1) \in Event
      BY <1>1, <3>1 DEF OverflowMarker, Event, EventKinds
    <3>3. [q.events EXCEPT ![1] = OverflowMarker(q.events[1].ids \cup e.ids, q.drops + 1)]
            \in Seq(Event)
      BY <1>1, <3>1, <3>2, ExceptSeq
    <3>. QED  BY <1>1, <1>2, <2>1, <3>3 DEF Enqueue, CountDrop, Queue
  <2>2. CASE ~ (q.events # <<>> /\ IsMarker(q.events[1]))
    BY <1>1, <1>2, <2>2 DEF Enqueue, CountDrop, Queue
  <2>. QED  BY <2>1, <2>2
<1>3. CASE ~ q.overflowed /\ Len(q.events) >= depth
  <2>1. 1 \in DOMAIN q.events /\ q.events[1] \in Event
    BY <1>1, <1>3
  <2>2. OverflowMarker(q.events[1].ids \cup e.ids, 1) \in Event
    BY <1>1, <2>1 DEF OverflowMarker, Event, EventKinds
  <2>3. [q.events EXCEPT ![1] = OverflowMarker(q.events[1].ids \cup e.ids, 1)] \in Seq(Event)
    BY <1>1, <2>1, <2>2, ExceptSeq
  <2>. QED  BY <1>3, <2>3 DEF Enqueue, ReplaceFront, Queue
<1>4. CASE ~ q.overflowed /\ ~ Len(q.events) >= depth
  <2>1. Append(q.events, e) \in Seq(Event)
    BY <1>1
  <2>. QED  BY <1>1, <1>4, <2>1 DEF Enqueue, Queue
<1>. QED  BY <1>2, <1>3, <1>4

\* Enqueue keeps the flag, the count and the front marker in step, and the
\* depth bounded (enqueue_locked, refresh_overflow_diagnostic_locked).
LEMMA EnqueueConsistent ==
  ASSUME NEW q \in Queue, NEW e \in Event, NEW depth \in Nat \ {0},
         QueueConsistent(q, depth)
  PROVE  QueueConsistent(Enqueue(q, e, depth), depth)
<1>1. /\ q.events \in Seq(Event)
      /\ q.drops \in Nat
      /\ Len(q.events) <= depth
  BY DEF Queue, QueueConsistent
<1>2. CASE q.overflowed
  <2>1. q.events # <<>> /\ IsMarker(q.events[1])
    BY <1>2 DEF QueueConsistent
  <2>2. 1 \in 1 .. Len(q.events) /\ Len(q.events) \in Nat
    BY <1>1, <2>1
  <2> DEFINE m == OverflowMarker(q.events[1].ids \cup e.ids, q.drops + 1)
             s == [q.events EXCEPT ![1] = m]
  <2>3. Enqueue(q, e, depth) = [events |-> s, overflowed |-> TRUE, drops |-> q.drops + 1]
    BY <1>2, <2>1 DEF Enqueue, CountDrop, Queue
  <2>4. IsMarker(m) /\ m.drops = q.drops + 1
    BY DEF IsMarker, OverflowMarker
  <2>5. s[1] = m /\ Len(s) = Len(q.events) /\ s # <<>>
    BY <1>1, <2>2
  <2>. QED  BY <1>1, <2>3, <2>4, <2>5 DEF QueueConsistent
<1>3. CASE ~ q.overflowed /\ Len(q.events) >= depth
  <2>1. 1 \in 1 .. Len(q.events) /\ Len(q.events) \in Nat
    BY <1>1, <1>3
  <2> DEFINE m == OverflowMarker(q.events[1].ids \cup e.ids, 1)
             s == [q.events EXCEPT ![1] = m]
  <2>2. Enqueue(q, e, depth) = [events |-> s, overflowed |-> TRUE, drops |-> 1]
    BY <1>3 DEF Enqueue, ReplaceFront
  <2>3. IsMarker(m) /\ m.drops = 1
    BY DEF IsMarker, OverflowMarker
  <2>4. s[1] = m /\ Len(s) = Len(q.events) /\ s # <<>>
    BY <1>1, <2>1
  <2>. QED  BY <1>1, <2>2, <2>3, <2>4 DEF QueueConsistent
<1>4. CASE ~ q.overflowed /\ ~ Len(q.events) >= depth
  <2>1. Enqueue(q, e, depth) = [q EXCEPT !.events = Append(q.events, e)]
    BY <1>4 DEF Enqueue
  <2>2. Len(Append(q.events, e)) = Len(q.events) + 1 /\ Len(q.events) \in Nat
    BY <1>1
  <2>. QED  BY <1>1, <1>4, <2>1, <2>2 DEF QueueConsistent, Queue
<1>. QED  BY <1>2, <1>3, <1>4 DEF Queue

\* Taking the front of a consistent queue gives a consistent queue: whichever
\* marker comes out, none is left that the flag should speak of
\* (pop_queue_front_locked).
LEMMA PopFrontConsistent ==
  ASSUME NEW q \in Queue, NEW depth \in Nat \ {0}, q.events # <<>>,
         QueueConsistent(q, depth)
  PROVE  PopFront(q) \in Queue /\ QueueConsistent(PopFront(q), depth)
<1>1. /\ q.events \in Seq(Event)
      /\ q.overflowed \in BOOLEAN
      /\ q.drops \in Nat
      /\ Len(q.events) <= depth
  BY DEF Queue, QueueConsistent
<1>2. /\ Tail(q.events) \in Seq(Event)
      /\ Len(Tail(q.events)) <= depth
  BY <1>1
<1>3. CASE IsMarker(q.events[1])
  BY <1>2, <1>3 DEF PopFront, Queue, QueueConsistent
<1>4. CASE ~ IsMarker(q.events[1])
  <2>1. ~ q.overflowed /\ q.drops = 0
    BY <1>1, <1>4 DEF QueueConsistent
  <2>2. PopFront(q) = [q EXCEPT !.events = Tail(q.events)]
    BY <1>4 DEF PopFront
  <2>. QED  BY <1>1, <1>2, <2>1, <2>2 DEF Queue, QueueConsistent
<1>. QED  BY <1>3, <1>4

\* The empty queue is consistent, so a watcher starts with two consistent ones.
LEMMA EmptyQueueConsistent ==
  ASSUME NEW depth \in Nat \ {0}
  PROVE  EmptyQueue \in Queue /\ QueueConsistent(EmptyQueue, depth)
BY DEF EmptyQueue, Queue, QueueConsistent
-----------------------------------------------------------------------------
\* What a queue holds, position by position.
LEMMA HeldByPosition ==
  ASSUME NEW q \in Queue
  PROVE  /\ Len(q.events) \in Nat /\ DOMAIN q.events = 1 .. Len(q.events)
         /\ \A n : n \in Held(q) <=> \E i \in 1 .. Len(q.events) : n \in q.events[i].ids
BY DEF Queue, Held

\* Younger events stand behind older ones; a marker has no place in the order.
Ordered(q) ==
  \A i, j \in DOMAIN q.events : i < j /\ ~IsMarker(q.events[i]) /\ ~IsMarker(q.events[j]) =>
    \A n \in q.events[i].ids, m \in q.events[j].ids : n < m

\* The events of a queue after Enqueue: the front one may have become a marker
\* that accounts for e as well, or e stands at the end.
LEMMA EnqueueEvents ==
  ASSUME NEW q \in Queue, NEW e \in Event, NEW depth \in Nat \ {0}, QueueConsistent(q, depth)
  PROVE  LET r == Enqueue(q, e, depth) IN
         \/ /\ Len(q.events) \in Nat \ {0} /\ Len(r.events) = Len(q.events)
            /\ IsMarker(r.events[1]) /\ r.events[1].ids = q.events[1].ids \cup e.ids
            /\ \A i \in 2 .. Len(q.events) : r.events[i] = q.events[i]
            /\ IsMarker(q.events[1]) \/ Overflows(q, depth)
         \/ /\ Len(q.events) \in Nat /\ Len(r.events) = Len(q.events) + 1
            /\ r.events[Len(q.events) + 1] = e
            /\ \A i \in 1 .. Len(q.events) : r.events[i] = q.events[i]
<1> DEFINE r == Enqueue(q, e, depth)
<1>1. q.events \in Seq(Event) /\ Len(q.events) \in Nat /\ DOMAIN q.events = 1 .. Len(q.events)
  BY DEF Queue
<1>2. ASSUME NEW m, IsMarker(m), m.ids = q.events[1].ids \cup e.ids, q.events # <<>>,
             r.events = [q.events EXCEPT ![1] = m], IsMarker(q.events[1]) \/ Overflows(q, depth)
      PROVE  /\ Len(q.events) \in Nat \ {0} /\ Len(r.events) = Len(q.events)
             /\ IsMarker(r.events[1]) /\ r.events[1].ids = q.events[1].ids \cup e.ids
             /\ \A i \in 2 .. Len(q.events) : r.events[i] = q.events[i]
             /\ IsMarker(q.events[1]) \/ Overflows(q, depth)
  <2>1. Len(q.events) \in Nat \ {0}
    BY <1>1, <1>2
  <2>2. r.events[1] = m /\ Len(r.events) = Len(q.events)
    BY <1>1, <1>2, <2>1
  <2>3. \A i \in 2 .. Len(q.events) : r.events[i] = q.events[i]
    BY <1>1, <1>2, <2>1
  <2>. QED  BY <1>2, <2>1, <2>2, <2>3
<1>3. CASE q.overflowed
  <2>1. q.events # <<>> /\ IsMarker(q.events[1])
    BY <1>3 DEF QueueConsistent
  <2>2. r.events = [q.events EXCEPT ![1] = OverflowMarker(q.events[1].ids \cup e.ids, q.drops + 1)]
    BY <1>3, <2>1 DEF Enqueue, CountDrop
  <2>3. /\ IsMarker(OverflowMarker(q.events[1].ids \cup e.ids, q.drops + 1))
        /\ OverflowMarker(q.events[1].ids \cup e.ids, q.drops + 1).ids = q.events[1].ids \cup e.ids
    BY DEF IsMarker, OverflowMarker
  <2>. QED  BY <1>2, <2>1, <2>2, <2>3
<1>4. CASE ~q.overflowed /\ Len(q.events) >= depth
  <2>1. q.events # <<>> /\ Overflows(q, depth)
    BY <1>1, <1>4 DEF Overflows
  <2>2. r.events = [q.events EXCEPT ![1] = OverflowMarker(q.events[1].ids \cup e.ids, 1)]
    BY <1>4 DEF Enqueue, ReplaceFront
  <2>3. /\ IsMarker(OverflowMarker(q.events[1].ids \cup e.ids, 1))
        /\ OverflowMarker(q.events[1].ids \cup e.ids, 1).ids = q.events[1].ids \cup e.ids
    BY DEF IsMarker, OverflowMarker
  <2>. QED  BY <1>2, <2>1, <2>2, <2>3
<1>5. CASE ~q.overflowed /\ ~(Len(q.events) >= depth)
  <2>1. r.events = Append(q.events, e)
    BY <1>5 DEF Enqueue, Queue
  <2>. QED  BY <1>1, <2>1
<1>. QED  BY <1>3, <1>4, <1>5

\* Enqueue accounts for everything the queue held and for e, each once, and
\* keeps the order if e is the youngest.
LEMMA EnqueueAccounts ==
  ASSUME NEW q \in Queue, NEW e \in Event, NEW depth \in Nat \ {0}, QueueConsistent(q, depth)
  PROVE  LET r == Enqueue(q, e, depth) IN
         /\ Held(r) = Held(q) \cup e.ids
         /\ HeldOnce(q) /\ e.ids \cap Held(q) = {} => HeldOnce(r)
         /\ Ordered(q) /\ (\A n \in e.ids : \A m \in Held(q) : m < n) => Ordered(r)
<1> DEFINE r == Enqueue(q, e, depth)
           old == q.events
<1>1. r \in Queue
  BY EnqueueType
<1> HIDE DEF r
<1>2. /\ Len(old) \in Nat /\ DOMAIN old = 1 .. Len(old)
      /\ \A n : n \in Held(q) <=> \E i \in 1 .. Len(old) : n \in old[i].ids
  BY HeldByPosition
<1>3. /\ Len(r.events) \in Nat /\ DOMAIN r.events = 1 .. Len(r.events)
      /\ \A n : n \in Held(r) <=> \E i \in 1 .. Len(r.events) : n \in r.events[i].ids
  BY <1>1, HeldByPosition
<1>4. CASE /\ Len(old) \in Nat \ {0} /\ Len(r.events) = Len(old)
           /\ IsMarker(r.events[1]) /\ r.events[1].ids = old[1].ids \cup e.ids
           /\ \A i \in 2 .. Len(old) : r.events[i] = old[i]
  <2>1. \A i \in 1 .. Len(old) : i = 1 \/ i \in 2 .. Len(old)
    BY <1>4
  <2>2. Held(r) = Held(q) \cup e.ids
    BY <1>2, <1>3, <1>4, <2>1
  <2>3. ASSUME HeldOnce(q), e.ids \cap Held(q) = {} PROVE HeldOnce(r)
    <3> SUFFICES ASSUME NEW i \in 1 .. Len(old), NEW j \in 1 .. Len(old), i # j
                 PROVE  r.events[i].ids \cap r.events[j].ids = {}
      BY <1>3, <1>4 DEF HeldOnce
    <3>1. old[i].ids \cap old[j].ids = {} /\ e.ids \cap old[i].ids = {} /\ e.ids \cap old[j].ids = {}
      BY <1>2, <2>3 DEF HeldOnce
    <3>. QED  BY <1>4, <2>1, <3>1
  <2>4. ASSUME Ordered(q) PROVE Ordered(r)
    <3>1. \A i \in 1 .. Len(old) : ~IsMarker(r.events[i]) => r.events[i] = old[i]
      BY <1>4, <2>1
    <3>. QED  BY <1>2, <1>3, <1>4, <2>4, <3>1 DEF Ordered
  <2>. QED  BY <2>2, <2>3, <2>4 DEF r
<1>5. CASE /\ Len(r.events) = Len(old) + 1 /\ r.events[Len(old) + 1] = e
           /\ \A i \in 1 .. Len(old) : r.events[i] = old[i]
  <2>1. \A i \in 1 .. Len(r.events) : i = Len(old) + 1 \/ i \in 1 .. Len(old)
    BY <1>2, <1>5
  <2>2. Held(r) = Held(q) \cup e.ids
    <3>1. ASSUME NEW n \in Held(r) PROVE n \in Held(q) \cup e.ids
      BY <1>2, <1>3, <1>5, <2>1, <3>1
    <3>2. ASSUME NEW n \in e.ids PROVE n \in Held(r)
      <4>1. Len(old) + 1 \in 1 .. Len(r.events)
        BY <1>2, <1>5
      <4>. QED  BY <1>3, <1>5, <3>2, <4>1
    <3>3. ASSUME NEW n \in Held(q) PROVE n \in Held(r)
      <4>1. \A i \in 1 .. Len(old) : i \in 1 .. Len(r.events)
        BY <1>2, <1>5
      <4>. QED  BY <1>2, <1>3, <1>5, <3>3, <4>1
    <3>. QED  BY <3>1, <3>2, <3>3
  <2>3. ASSUME HeldOnce(q), e.ids \cap Held(q) = {} PROVE HeldOnce(r)
    <3> SUFFICES ASSUME NEW i \in 1 .. Len(r.events), NEW j \in 1 .. Len(r.events), i # j
                 PROVE  r.events[i].ids \cap r.events[j].ids = {}
      BY <1>3 DEF HeldOnce
    <3>1. CASE i \in 1 .. Len(old) /\ j \in 1 .. Len(old)
      BY <1>2, <1>5, <2>3, <3>1 DEF HeldOnce
    <3>2. CASE i = Len(old) + 1 \/ j = Len(old) + 1
      BY <1>2, <1>5, <2>1, <2>3, <3>2
    <3>. QED  BY <2>1, <3>1, <3>2
  <2>4. ASSUME Ordered(q), \A n \in e.ids : \A m \in Held(q) : m < n PROVE Ordered(r)
    <3> SUFFICES ASSUME NEW i \in 1 .. Len(r.events), NEW j \in 1 .. Len(r.events), i < j,
                        ~IsMarker(r.events[i]), ~IsMarker(r.events[j]),
                        NEW n \in r.events[i].ids, NEW m \in r.events[j].ids
                 PROVE  n < m
      BY <1>3 DEF Ordered
    <3>1. i \in 1 .. Len(old)
      BY <1>2, <1>5, <2>1
    <3>2. CASE j \in 1 .. Len(old)
      BY <1>2, <1>5, <2>4, <3>1, <3>2 DEF Ordered
    <3>3. CASE j = Len(old) + 1
      BY <1>2, <1>5, <2>4, <3>1, <3>3
    <3>. QED  BY <2>1, <3>2, <3>3
  <2>. QED  BY <2>2, <2>3, <2>4 DEF r
<1>. QED  BY <1>4, <1>5, EnqueueEvents DEF r

\* Taking the front splits what the queue held.
LEMMA PopFrontAccounts ==
  ASSUME NEW q \in Queue, q.events # <<>>, HeldOnce(q)
  PROVE  LET r == PopFront(q) IN
         /\ Held(q) = q.events[1].ids \cup Held(r)
         /\ q.events[1].ids \cap Held(r) = {}
         /\ HeldOnce(r)
         /\ Ordered(q) => Ordered(r)
         /\ Len(r.events) = Len(q.events) - 1 /\ Len(q.events) \in Nat \ {0}
         /\ \A i \in 1 .. Len(r.events) : r.events[i] = q.events[i + 1]
<1> DEFINE r == PopFront(q)
           old == q.events
<1>1. old \in Seq(Event) /\ Len(old) \in Nat \ {0} /\ DOMAIN old = 1 .. Len(old)
  BY DEF Queue
<1>2. r.events = Tail(old)
  BY DEF PopFront, Queue
<1>3. /\ Len(r.events) = Len(old) - 1 /\ DOMAIN r.events = 1 .. Len(r.events)
      /\ \A i \in 1 .. Len(r.events) : r.events[i] = old[i + 1]
  BY <1>1, <1>2
<1> HIDE DEF r
<1>4. \A i \in 1 .. Len(old) : i = 1 \/ (i - 1 \in 1 .. Len(r.events) /\ r.events[i - 1] = old[i])
  BY <1>1, <1>3
<1>5. \A n : n \in Held(q) <=> \E i \in 1 .. Len(old) : n \in old[i].ids
  BY <1>1 DEF Held
<1>6. \A n : n \in Held(r) <=> \E i \in 1 .. Len(r.events) : n \in r.events[i].ids
  BY <1>3 DEF Held
<1>7. Held(q) = old[1].ids \cup Held(r)
  <2>1. ASSUME NEW n \in Held(q) PROVE n \in old[1].ids \cup Held(r)
    BY <1>4, <1>5, <1>6, <2>1
  <2>2. ASSUME NEW n \in Held(r) PROVE n \in Held(q)
    <3>1. PICK i \in 1 .. Len(r.events) : n \in r.events[i].ids
      BY <1>6, <2>2
    <3>2. i + 1 \in 1 .. Len(old) /\ n \in old[i + 1].ids
      BY <1>1, <1>3, <3>1
    <3>. QED  BY <1>5, <3>2
  <2>3. ASSUME NEW n \in old[1].ids PROVE n \in Held(q)
    BY <1>1, <1>5, <2>3
  <2>. QED  BY <2>1, <2>2, <2>3
<1>8. old[1].ids \cap Held(r) = {}
  <2> SUFFICES ASSUME NEW n \in old[1].ids, n \in Held(r) PROVE FALSE
    OBVIOUS
  <2>1. PICK i \in 1 .. Len(r.events) : n \in r.events[i].ids
    BY <1>6
  <2>2. i + 1 \in 1 .. Len(old) /\ i + 1 # 1 /\ 1 \in 1 .. Len(old) /\ n \in old[i + 1].ids
    BY <1>1, <1>3, <2>1
  <2>. QED  BY <1>1, <2>2 DEF HeldOnce
<1>9. HeldOnce(r)
  <2> SUFFICES ASSUME NEW i \in 1 .. Len(r.events), NEW j \in 1 .. Len(r.events), i # j
               PROVE  r.events[i].ids \cap r.events[j].ids = {}
    BY <1>3 DEF HeldOnce
  <2>1. i + 1 \in 1 .. Len(old) /\ j + 1 \in 1 .. Len(old) /\ i + 1 # j + 1
    BY <1>1, <1>3
  <2>. QED  BY <1>1, <1>3, <2>1 DEF HeldOnce
<1>10. ASSUME Ordered(q) PROVE Ordered(r)
  <2> SUFFICES ASSUME NEW i \in 1 .. Len(r.events), NEW j \in 1 .. Len(r.events), i < j,
                      ~IsMarker(r.events[i]), ~IsMarker(r.events[j]),
                      NEW n \in r.events[i].ids, NEW m \in r.events[j].ids
               PROVE  n < m
    BY <1>3 DEF Ordered
  <2>1. i + 1 \in 1 .. Len(old) /\ j + 1 \in 1 .. Len(old) /\ i + 1 < j + 1
    BY <1>1, <1>3
  <2>. QED  BY <1>1, <1>3, <1>10, <2>1 DEF Ordered
<1>. QED  BY <1>1, <1>3, <1>7, <1>8, <1>9, <1>10 DEF r

\* The arrivals that are in a queue as themselves, not in a marker's account.
Plain(q) == {n \in Held(q) : \E i \in DOMAIN q.events : ~IsMarker(q.events[i]) /\ n \in q.events[i].ids}
HasMarker(q) == \E i \in DOMAIN q.events : IsMarker(q.events[i])

LEMMA EnqueuePlain ==
  ASSUME NEW q \in Queue, NEW e \in Event, NEW depth \in Nat \ {0}, QueueConsistent(q, depth)
  PROVE  /\ \A n \in Plain(Enqueue(q, e, depth)) : n \in Plain(q) \/ (n \in e.ids /\ ~IsMarker(e))
         /\ HasMarker(Enqueue(q, e, depth)) => HasMarker(q) \/ Overflows(q, depth) \/ IsMarker(e)
<1> DEFINE r == Enqueue(q, e, depth)
           old == q.events
<1>1. r \in Queue
  BY EnqueueType
<1> HIDE DEF r
<1>2. /\ Len(old) \in Nat /\ DOMAIN old = 1 .. Len(old)
      /\ \A n : n \in Held(q) <=> \E i \in 1 .. Len(old) : n \in old[i].ids
  BY HeldByPosition
<1>3. DOMAIN r.events = 1 .. Len(r.events)
  BY <1>1, HeldByPosition
<1>4. \A i \in DOMAIN r.events :
        \/ i \in DOMAIN old /\ r.events[i] = old[i]
        \/ r.events[i] = e
        \/ IsMarker(r.events[i]) /\ (HasMarker(q) \/ Overflows(q, depth))
  <2>1. CASE /\ Len(old) \in Nat \ {0} /\ Len(r.events) = Len(old) /\ IsMarker(r.events[1])
             /\ \A i \in 2 .. Len(old) : r.events[i] = old[i]
             /\ IsMarker(old[1]) \/ Overflows(q, depth)
    <3>1. \A i \in 1 .. Len(old) : i = 1 \/ i \in 2 .. Len(old)
      BY <2>1
    <3>2. HasMarker(q) \/ Overflows(q, depth)
      BY <1>2, <2>1 DEF HasMarker
    <3>. QED  BY <1>2, <1>3, <2>1, <3>1, <3>2
  <2>2. CASE /\ Len(r.events) = Len(old) + 1 /\ r.events[Len(old) + 1] = e
             /\ \A i \in 1 .. Len(old) : r.events[i] = old[i]
    <3>1. \A i \in 1 .. Len(r.events) : i = Len(old) + 1 \/ i \in 1 .. Len(old)
      BY <1>2, <2>2
    <3>. QED  BY <1>2, <1>3, <2>2, <3>1
  <2>. QED  BY <2>1, <2>2, EnqueueEvents DEF r
<1>5. ASSUME NEW n \in Plain(r) PROVE n \in Plain(q) \/ (n \in e.ids /\ ~IsMarker(e))
  <2>1. PICK i \in DOMAIN r.events : ~IsMarker(r.events[i]) /\ n \in r.events[i].ids
    BY <1>5 DEF Plain
  <2>. QED  BY <1>2, <1>4, <2>1 DEF Plain
<1>6. HasMarker(r) => HasMarker(q) \/ Overflows(q, depth) \/ IsMarker(e)
  BY <1>4 DEF HasMarker
<1>. QED  BY <1>5, <1>6 DEF r

\* Behind the front there are only younger events.
LEMMA PopFrontPlain ==
  ASSUME NEW q \in Queue, q.events # <<>>, HeldOnce(q)
  PROVE  /\ Plain(PopFront(q)) \subseteq Plain(q)
         /\ HasMarker(PopFront(q)) => HasMarker(q)
         /\ ~IsMarker(q.events[1]) => q.events[1].ids \subseteq Plain(q)
         /\ Ordered(q) /\ ~IsMarker(q.events[1]) =>
              \A n \in q.events[1].ids, m \in Plain(PopFront(q)) : n < m
<1> DEFINE r == PopFront(q)
           old == q.events
<1>1. /\ Held(q) = old[1].ids \cup Held(r) /\ Len(r.events) = Len(old) - 1 /\ Len(old) \in Nat \ {0}
      /\ \A i \in 1 .. Len(r.events) : r.events[i] = old[i + 1]
  BY PopFrontAccounts
<1>2. DOMAIN old = 1 .. Len(old) /\ DOMAIN r.events = 1 .. Len(r.events)
  BY DEF Queue, PopFront
<1> HIDE DEF r
<1>3. \A i \in DOMAIN r.events : i + 1 \in DOMAIN old /\ 1 < i + 1 /\ 1 \in DOMAIN old /\ r.events[i] = old[i + 1]
  BY <1>1, <1>2
<1>4. Plain(r) \subseteq Plain(q) /\ (HasMarker(r) => HasMarker(q))
  BY <1>1, <1>3 DEF Plain, HasMarker
<1>5. ~IsMarker(old[1]) => old[1].ids \subseteq Plain(q)
  BY <1>1, <1>2 DEF Plain
<1>6. ASSUME Ordered(q), ~IsMarker(old[1]), NEW n \in old[1].ids, NEW m \in Plain(r) PROVE n < m
  <2>1. PICK i \in DOMAIN r.events : ~IsMarker(r.events[i]) /\ m \in r.events[i].ids
    BY <1>6 DEF Plain
  <2>. QED  BY <1>3, <1>6, <2>1 DEF Ordered
<1>. QED  BY <1>4, <1>5, <1>6 DEF r

-----------------------------------------------------------------------------
(* Types *)

USE DepthsAssumption, BoundsAssumption, SeveritiesAssumption

\* History: handing an event over only rewrites what became of arrivals.
LEMMA HandOverType ==
  ASSUME TypeOK, NEW e \in Event, NEW how \in Fates, HandOver(e, how)
  PROVE  fate' \in Seq(Fates)
<1>1. fate \in Seq(Fates) /\ Len(fate) \in Nat /\ DOMAIN fate = 1 .. Len(fate)
  BY DEF TypeOK
<1>2. \A n \in 1 .. Len(fate) :
        (IF n \notin e.ids THEN fate[n] ELSE IF IsMarker(e) THEN "reported" ELSE how) \in Fates
  BY <1>1 DEF Fates
<1>3. fate' = [n \in 1 .. Len(fate) |->
                 IF n \notin e.ids THEN fate[n] ELSE IF IsMarker(e) THEN "reported" ELSE how]
  BY <1>1 DEF HandOver
<1>. QED  BY <1>1, <1>2, <1>3, IsASeq

\* enqueue_locked leaves queue_ a queue, whatever event comes.
LEMMA EnqueueLockedType ==
  ASSUME TypeOK, NEW e \in Event, EnqueueLocked(e)
  PROVE  /\ pull' \in Queue /\ call' \in Queue
         /\ state' \in {"clean", "degraded", "stopped"}
         /\ parked' \subseteq Clients \cup {"delivery"}
<1>1. pull \in Queue /\ call \in Queue
  BY DEF TypeOK
<1>2. Enqueue(pull, e, MaxQueueDepth) \in Queue
  BY <1>1, EnqueueType
<1>. QED  BY <1>1, <1>2 DEF EnqueueLocked, TypeOK

\* So does deliver() with the queue it chooses.
LEMMA DeliverType ==
  ASSUME TypeOK, NEW e \in Event, Deliver(e)
  PROVE  /\ pull' \in Queue /\ call' \in Queue
         /\ state' \in {"clean", "degraded", "stopped"}
         /\ parked' \subseteq Clients \cup {"delivery"}
<1>1. CASE EnqueueLocked(e)
  BY <1>1, EnqueueLockedType
<1>2. CASE EnqueueCallbackLocked(e)
  <2>1. pull \in Queue /\ call \in Queue
    BY DEF TypeOK
  <2>2. Enqueue(call, e, MaxCallbackQueueDepth) \in Queue
    BY <2>1, EnqueueType
  <2>. QED  BY <1>2, <2>1, <2>2 DEF EnqueueCallbackLocked, TypeOK
<1>. QED  BY <1>1, <1>2 DEF Deliver

\* The event a producer delivers is an event, numbered after the last arrival.
LEMMA ArrivingEvents ==
  ASSUME TypeOK, NEW p \in Producers
  PROVE  /\ [kind |-> "ordinary", ids |-> {Len(fate) + 1},
             degraded |-> taken[p].degraded, drops |-> 0] \in Event
         /\ OverflowMarker({Len(fate) + 1}, 0) \in Event
         /\ FailureEvent \in Event
         /\ NoEvent \in Event
<1>1. Len(fate) \in Nat /\ taken[p].degraded \in BOOLEAN
  BY DEF TypeOK, Producers
<1>2. {Len(fate) + 1} \subseteq Arrivals
  BY <1>1 DEF Arrivals
<1>. QED
  BY <1>1, <1>2 DEF Event, EventKinds, OverflowMarker, FailureEvent, NoEvent, Arrivals

\* poll() and wait() take the front of queue_ and leave a queue.
LEMMA PopQueueFrontType ==
  ASSUME TypeOK, QueuesConsistent, PopQueueFront
  PROVE  /\ pull' \in Queue /\ QueueConsistent(pull', MaxQueueDepth)
         /\ UNCHANGED <<call, state>>
         /\ fate' \in Seq(Fates)
<1>1. pull \in Queue /\ pull.events # <<>> /\ QueueConsistent(pull, MaxQueueDepth)
  BY DEF TypeOK, QueuesConsistent, PopQueueFront
<1>2. pull.events[1] \in Event
  BY <1>1 DEF Queue
<1>3. fate' \in Seq(Fates)
  BY <1>2, HandOverType DEF PopQueueFront, Fates
<1>. QED  BY <1>1, <1>3, PopFrontConsistent DEF PopQueueFront

\* deliver() and enqueue_locked keep both queues consistent.
LEMMA DeliverConsistent ==
  ASSUME TypeOK, QueuesConsistent, NEW e \in Event,
         EnqueueLocked(e) \/ EnqueueCallbackLocked(e)
  PROVE  QueuesConsistent'
<1>1. pull \in Queue /\ call \in Queue
  BY DEF TypeOK
<1>2. CASE EnqueueLocked(e)
  BY <1>1, <1>2, EnqueueConsistent DEF EnqueueLocked, QueuesConsistent
<1>3. CASE EnqueueCallbackLocked(e)
  BY <1>1, <1>3, EnqueueConsistent DEF EnqueueCallbackLocked, QueuesConsistent
<1>. QED  BY <1>2, <1>3

\* A thread inside stop() moves to a further step of stop().
LEMMA StopStepsType ==
  /\ {"none", "backend", "notify", "lock", "returned", "raw", "settle", "delivery"} = StopSteps
  /\ \A w \in Workers : NextJoin[w] \in StopSteps
BY DEF StopSteps, Workers, Producers, NextJoin

\* Types and queue consistency are preserved together: that PopFront leaves a
\* consistent queue rests on the front marker, and that the front exists on
\* the depth.
Inv == TypeOK /\ QueuesConsistent

LEMMA InvInit == Init => Inv
<1>1. ASSUME Init PROVE TypeOK
  <2>1. pull \in Queue /\ call \in Queue
    BY <1>1, EmptyQueueConsistent DEF Init
  <2>2. current \in Event
    BY <1>1 DEF Init, NoEvent, Event, EventKinds
  <2>3. taken \in [Producers -> [watch: WatchIds \cup {0}, degraded: BOOLEAN]]
    BY <1>1 DEF Init, NothingTaken
  <2>4. pc \in [Threads -> {"idle", "check", "deliver", "decide", "calling", "wait", "done"}]
    BY <1>1 DEF Init
  <2>5. stopAt \in [Threads -> StopSteps]
    BY <1>1 DEF Init, StopSteps
  <2>6. fate \in Seq(Fates)
    BY <1>1 DEF Init
  <2>7. watches \subseteq WatchIds /\ nextId \in 1 .. MaxWatches + 1
    BY <1>1 DEF Init
  <2>8. lifecycle \in Threads \cup {Nobody} /\ joinable \subseteq Workers
    BY <1>1 DEF Init
  <2>9. parked \subseteq Clients \cup {"delivery"} /\ callback \in Callbacks \cup {NoCallback}
    BY <1>1 DEF Init
  <2>10. stoppers \in ShutdownPolicies /\ stopped \in BOOLEAN /\ backendStopped \in BOOLEAN
    BY <1>1 DEF Init
  <2>11. state \in {"clean", "degraded", "stopped"}
    BY <1>1 DEF Init
  <2>. QED
    BY <2>1, <2>2, <2>3, <2>4, <2>5, <2>6, <2>7, <2>8, <2>9, <2>10, <2>11 DEF TypeOK
<1>2. Init => QueuesConsistent
  BY EmptyQueueConsistent DEF Init, QueuesConsistent
<1>. QED  BY <1>1, <1>2 DEF Inv

\* The producers' steps.
LEMMA ProducersKeepInv ==
  ASSUME Inv, NEW p \in Producers,
         Take(p) \/ ProducerStep(p) \/ GivenToSettle \/ SettleOverflow
  PROVE  Inv'
<1> USE DEF Inv, Goto, queues, shutdown, config
<1>1. CASE Take(p)
  <2>1. taken' \in [Producers -> [watch: WatchIds \cup {0}, degraded: BOOLEAN]]
    BY <1>1 DEF TypeOK, Take
  <2>. QED  BY <1>1, <2>1 DEF TypeOK, QueuesConsistent, Take
<1>2. CASE CheckActive(p)
  <2>0. /\ taken' = taken \/ taken' = [taken EXCEPT ![p] = NothingTaken]
        /\ Goto(p, "deliver") \/ Goto(p, "idle")
    <3>1. CASE ~ stopped /\ taken[p].watch \in watches
      BY <1>2, <3>1, Zenon DEF CheckActive
    <3>2. CASE ~ (~ stopped /\ taken[p].watch \in watches)
      BY <1>2, <3>2, Zenon DEF CheckActive
    <3>. QED  BY <3>1, <3>2
  <2>1. taken' \in [Producers -> [watch: WatchIds \cup {0}, degraded: BOOLEAN]]
    <3>1. NothingTaken \in [watch: WatchIds \cup {0}, degraded: BOOLEAN]
      BY DEF NothingTaken
    <3>2. taken \in [Producers -> [watch: WatchIds \cup {0}, degraded: BOOLEAN]]
      BY DEF TypeOK
    <3>. QED  BY <2>0, <3>1, <3>2
  <2>2. pc' \in [Threads -> {"idle", "check", "deliver", "decide", "calling", "wait", "done"}]
    BY <2>0 DEF TypeOK
  <2>3. UNCHANGED <<queues, shutdown, config, fate, current, parked>>
    BY <1>2 DEF CheckActive
  <2>4. QueuesConsistent'
    BY <2>3 DEF QueuesConsistent
  <2>5. TypeOK'
    BY <2>1, <2>2, <2>3 DEF TypeOK
  <2>. QED  BY <2>4, <2>5
<1>3. CASE DeliverTaken(p)
  <2> DEFINE e == [kind |-> "ordinary", ids |-> {Len(fate) + 1},
                   degraded |-> taken[p].degraded, drops |-> 0]
  <2>1. e \in Event /\ Deliver(e) /\ fate' = Append(fate, "pending")
    BY <1>3, ArrivingEvents DEF DeliverTaken, Arrive
  <2> HIDE DEF e
  <2>2. QueuesConsistent'
    BY <2>1, DeliverConsistent DEF Deliver
  <2>3. fate' \in Seq(Fates)
    BY <2>1 DEF TypeOK, Fates
  <2>. QED  BY <1>3, <2>1, <2>2, <2>3, DeliverType DEF TypeOK, DeliverTaken, NothingTaken
<1>4. CASE ProducerExits(p)
  BY <1>4 DEF TypeOK, QueuesConsistent, ProducerExits
<1>5. CASE GivenToSettle
  BY <1>5 DEF TypeOK, QueuesConsistent, GivenToSettle, NothingTaken
<1>6. CASE SettleOverflow
  <2> DEFINE e == OverflowMarker({Len(fate) + 1}, 0)
  <2>1. e \in Event /\ Deliver(e) /\ fate' = Append(fate, "pending")
    BY <1>6, ArrivingEvents DEF SettleOverflow, Arrive
  <2> HIDE DEF e
  <2>2. QueuesConsistent'
    BY <2>1, DeliverConsistent DEF Deliver
  <2>3. fate' \in Seq(Fates)
    BY <2>1 DEF TypeOK, Fates
  <2>. QED  BY <1>6, <2>1, <2>2, <2>3, DeliverType DEF TypeOK, SettleOverflow, NothingTaken
<1>. QED  BY <1>1, <1>2, <1>3, <1>4, <1>5, <1>6 DEF ProducerStep

\* The delivery worker's steps.
LEMMA DeliveryKeepsInv ==
  ASSUME Inv, DeliveryStep
  PROVE  Inv'
<1> USE DEF Inv, Goto, queues, shutdown, config
<1>0. NoEvent \in Event /\ FailureEvent \in Event
  BY ArrivingEvents DEF Producers
<1>1. CASE DeliveryParks
  BY <1>1 DEF TypeOK, QueuesConsistent, DeliveryParks
<1>2. CASE DeliveryExits
  BY <1>2 DEF TypeOK, QueuesConsistent, DeliveryExits
<1>3. CASE PopCallbackQueue
  <2>1. call \in Queue /\ call.events # <<>> /\ QueueConsistent(call, MaxCallbackQueueDepth)
    BY <1>3 DEF TypeOK, QueuesConsistent, PopCallbackQueue
  <2>2. call.events[1] \in Event
    BY <2>1 DEF Queue
  <2>3. PopFront(call) \in Queue /\ QueueConsistent(PopFront(call), MaxCallbackQueueDepth)
    BY <2>1, PopFrontConsistent
  <2>. QED  BY <1>3, <2>2, <2>3 DEF TypeOK, QueuesConsistent, PopCallbackQueue
<1>4. CASE DropBecauseStopped
  <2>1. fate' \in Seq(Fates)
    BY <1>4, HandOverType DEF DropBecauseStopped, TypeOK, Fates
  <2>. QED  BY <1>0, <1>4, <2>1 DEF TypeOK, QueuesConsistent, DropBecauseStopped
<1>5. CASE FallBackToQueue
  <2>1. current \in Event /\ EnqueueLocked(current)
    BY <1>5 DEF TypeOK, FallBackToQueue
  <2>2. QueuesConsistent'
    BY <2>1, DeliverConsistent
  <2>. QED  BY <1>0, <1>5, <2>1, <2>2, EnqueueLockedType DEF TypeOK, FallBackToQueue
<1>6. CASE CallCallback
  <2>1. fate' \in Seq(Fates)
    BY <1>6, HandOverType DEF CallCallback, TypeOK, Fates
  <2>. QED  BY <1>6, <2>1 DEF TypeOK, QueuesConsistent, CallCallback
<1>7. CASE CallbackReturns
  BY <1>0, <1>7 DEF TypeOK, QueuesConsistent, CallbackReturns
<1>8. CASE CallbackThrows
  <2>1. EnqueueLocked(FailureEvent)
    BY <1>8 DEF CallbackThrows
  <2>2. QueuesConsistent'
    BY <1>0, <2>1, DeliverConsistent
  <2>. QED  BY <1>0, <1>8, <2>1, <2>2, EnqueueLockedType DEF TypeOK, CallbackThrows
<1>. QED  BY <1>1, <1>2, <1>3, <1>4, <1>5, <1>6, <1>7, <1>8 DEF DeliveryStep

\* The methods of the watcher that the application calls.
LEMMA ApplicationKeepsInv ==
  ASSUME Inv,
         \/ AddWatch \/ RemoveWatch \/ SetCallback \/ Poll
         \/ \E c \in Clients : WaitBegins(c) \/ WaitStep(c) \/ WaitTimesOut(c)
  PROVE  Inv'
<1> USE DEF Inv, Goto, queues, shutdown, config
<1>1. CASE AddWatch
  <2>1. nextId' \in 1 .. MaxWatches + 1 /\ watches' \subseteq WatchIds
    BY <1>1 DEF TypeOK, AddWatch, WatchIds
  <2>. QED  BY <1>1, <2>1 DEF TypeOK, QueuesConsistent, AddWatch
<1>2. CASE RemoveWatch
  BY <1>2 DEF TypeOK, QueuesConsistent, RemoveWatch
<1>3. CASE SetCallback
  BY <1>3 DEF TypeOK, QueuesConsistent, SetCallback
<1>4. CASE Poll
  BY <1>4, PopQueueFrontType DEF TypeOK, QueuesConsistent, Poll
<1>5. ASSUME NEW c \in Clients, WaitBegins(c) PROVE Inv'
  BY <1>5 DEF TypeOK, QueuesConsistent, WaitBegins
<1>6. ASSUME NEW c \in Clients, WaitStep(c) PROVE Inv'
  <2>1. CASE WaitParks(c)
    BY <2>1 DEF TypeOK, QueuesConsistent, WaitParks
  <2>2. CASE WaitTakes(c)
    BY <2>2, PopQueueFrontType DEF TypeOK, QueuesConsistent, WaitTakes
  <2>3. CASE WaitSeesStop(c)
    BY <2>3 DEF TypeOK, QueuesConsistent, WaitSeesStop
  <2>. QED  BY <1>6, <2>1, <2>2, <2>3 DEF WaitStep
<1>7. ASSUME NEW c \in Clients, WaitTimesOut(c) PROVE Inv'
  <2>1. CASE PopQueueFront
    BY <1>7, <2>1, PopQueueFrontType DEF TypeOK, QueuesConsistent, WaitTimesOut
  <2>2. CASE UNCHANGED <<queues, fate>>
    BY <1>7, <2>2 DEF TypeOK, QueuesConsistent, WaitTimesOut
  <2>. QED  BY <1>7, <2>1, <2>2 DEF WaitTimesOut
<1>. QED  BY <1>1, <1>2, <1>3, <1>4, <1>5, <1>6, <1>7

\* The steps of stop().
LEMMA StopKeepsInv ==
  ASSUME Inv, NEW t \in Threads, StopBegins(t) \/ StopStep(t)
  PROVE  Inv'
<1> USE StopStepsType DEF Inv, queues, shutdown, config
<1>1. CASE StopBegins(t)
  BY <1>1 DEF TypeOK, QueuesConsistent, StopBegins
<1>2. CASE StopBackend(t)
  BY <1>2 DEF TypeOK, QueuesConsistent, StopBackend
<1>3. CASE StopNotifies(t)
  BY <1>3 DEF TypeOK, QueuesConsistent, StopNotifies
<1>4. CASE StopLocks(t)
  BY <1>4 DEF TypeOK, QueuesConsistent, StopLocks
<1>5. CASE JoinOrDetach(t)
  BY <1>5 DEF TypeOK, QueuesConsistent, JoinOrDetach
<1>. QED  BY <1>1, <1>2, <1>3, <1>4, <1>5 DEF StopStep

LEMMA InvNext == Inv /\ [Next]_vars => Inv'
<1> SUFFICES ASSUME Inv, [Next]_vars PROVE Inv'
  OBVIOUS
<1>1. CASE UNCHANGED vars
  BY <1>1 DEF Inv, TypeOK, QueuesConsistent, vars, queues, shutdown, config
<1>2. CASE Next
  BY <1>2, ProducersKeepInv, DeliveryKeepsInv, ApplicationKeepsInv, StopKeepsInv
  DEF Next, Producers
<1>. QED  BY <1>1, <1>2

\* Every variable keeps its type, in every behaviour of the watcher.
THEOREM TypeCorrect == Spec => []TypeOK
<1>1. Inv => TypeOK
  BY DEF Inv
<1>. QED  BY <1>1, InvInit, InvNext, PTL DEF Spec

\* Both queues stay consistent: bounded, and overflowed exactly while the marker
\* that reports the current count is the next event a reader takes.
THEOREM QueuesStayConsistent == Spec => []QueuesConsistent
<1>1. Inv => QueuesConsistent
  BY DEF Inv
<1>. QED  BY <1>1, InvInit, InvNext, PTL DEF Spec
-----------------------------------------------------------------------------
(* What becomes of the events. *)

PlainInDecision == IF IsMarker(current) THEN {} ELSE InDecision
Pending == {n \in DOMAIN fate : fate[n] = "pending"}

\* What the callback has seen is older than what it may still see, and what
\* the delivery worker holds is in between.
CallOrder ==
  /\ Ordered(call)
  /\ \A m \in DOMAIN fate, n \in Plain(call) \cup PlainInDecision : fate[m] = "called" => m < n
  /\ \A n \in PlainInDecision, m \in Plain(call) : n < m

MarkerInHand == IsMarker(current) => state # "clean"

Accounted == Conservation /\ CallOrder /\ LossDegradesStream /\ MarkerInHand

LEMMA AccountedInit == Init => Accounted
<1> SUFFICES ASSUME Init PROVE Accounted
  OBVIOUS
<1>1. Held(pull) = {} /\ Held(call) = {} /\ Plain(call) = {} /\ InDecision = {} /\ PlainInDecision = {}
      /\ DOMAIN fate = {}
  BY DEF Init, EmptyQueue, Held, Plain, InDecision, PlainInDecision, Threads, Workers
<1>2. Conservation
  BY <1>1 DEF Init, EmptyQueue, Conservation, HeldOnce
<1>3. CallOrder
  BY <1>1 DEF Init, EmptyQueue, CallOrder, Ordered
<1>4. LossDegradesStream /\ MarkerInHand
  BY <1>1 DEF Init, EmptyQueue, LossDegradesStream, MarkerInHand, NoEvent, IsMarker
<1>. QED  BY <1>2, <1>3, <1>4 DEF Accounted

\* The loss is told in terms of the two queues.
LEMMA LossByQueue ==
  LossDegradesStream <=>
    (HasMarker(pull) \/ HasMarker(call) \/ (\E n \in DOMAIN fate : fate[n] = "reported") => state # "clean")
BY DEF LossDegradesStream, HasMarker

\* A step that moves no event.
LEMMA NothingMoves ==
  ASSUME Accounted, UNCHANGED <<pull, call, fate>>, InDecision' = InDecision,
         PlainInDecision' = PlainInDecision, state' = state \/ state' # "clean",
         IsMarker(current)' => IsMarker(current)
  PROVE  Accounted'
<1>1. Conservation'
  BY DEF Accounted, Conservation
<1>2. CallOrder'
  BY DEF Accounted, CallOrder
<1>3. LossDegradesStream' /\ MarkerInHand'
  BY DEF Accounted, LossDegradesStream, MarkerInHand
<1>. QED  BY <1>1, <1>2, <1>3 DEF Accounted

LEMMA WhatIsHeld ==
  ASSUME Inv, Accounted
  PROVE  /\ fate \in Seq(Fates) /\ Len(fate) \in Nat /\ DOMAIN fate = 1 .. Len(fate)
         /\ pull \in Queue /\ call \in Queue
         /\ QueueConsistent(pull, MaxQueueDepth) /\ QueueConsistent(call, MaxCallbackQueueDepth)
         /\ HeldOnce(pull) /\ HeldOnce(call)
         /\ Held(pull) \subseteq DOMAIN fate /\ Held(call) \subseteq DOMAIN fate /\ InDecision \subseteq DOMAIN fate
         /\ Plain(call) \subseteq Held(call) /\ PlainInDecision \subseteq InDecision
BY DEF Inv, TypeOK, QueuesConsistent, Accounted, Conservation, Plain, PlainInDecision

LEMMA HandOverFate ==
  ASSUME Inv, NEW e \in Event, NEW how \in Fates, HandOver(e, how)
  PROVE  /\ DOMAIN fate' = DOMAIN fate
         /\ \A n \in DOMAIN fate \ e.ids : fate'[n] = fate[n]
         /\ \A n \in DOMAIN fate : n \in e.ids => fate'[n] = IF IsMarker(e) THEN "reported" ELSE how
BY DEF HandOver

\* deliver(): the arrival is accounted for by the queue it goes to.
LEMMA ArrivalAccounted ==
  ASSUME Inv, Accounted, NEW e \in Event, e.ids = {Len(fate) + 1}, IsMarker(e) => e.degraded,
         Arrive(e), pc'["delivery"] = pc["delivery"], current' = current
  PROVE  Accounted'
<1> DEFINE new == Len(fate) + 1
<1>1. /\ fate \in Seq(Fates) /\ Len(fate) \in Nat /\ DOMAIN fate = 1 .. Len(fate)
      /\ pull \in Queue /\ call \in Queue
      /\ QueueConsistent(pull, MaxQueueDepth) /\ QueueConsistent(call, MaxCallbackQueueDepth)
      /\ HeldOnce(pull) /\ HeldOnce(call)
      /\ Held(pull) \subseteq DOMAIN fate /\ Held(call) \subseteq DOMAIN fate /\ InDecision \subseteq DOMAIN fate
      /\ Plain(call) \subseteq Held(call) /\ PlainInDecision \subseteq InDecision
  BY WhatIsHeld
<1>2. /\ DOMAIN fate' = DOMAIN fate \cup {new} /\ fate'[new] = "pending"
      /\ \A n \in DOMAIN fate : fate'[n] = fate[n] /\ n < new
  BY <1>1 DEF Arrive
<1>3. Pending' = Pending \cup {new} /\ new \notin DOMAIN fate
  BY <1>1, <1>2 DEF Pending
<1>4. InDecision' = InDecision /\ PlainInDecision' = PlainInDecision
  BY DEF InDecision, PlainInDecision
<1>5. (\E n \in DOMAIN fate' : fate'[n] = "reported") => (\E n \in DOMAIN fate : fate[n] = "reported")
  BY <1>2
<1>6. Pending = Held(pull) \cup Held(call) \cup InDecision /\ Held(pull) \cap Held(call) = {}
      /\ InDecision \cap (Held(pull) \cup Held(call)) = {}
  BY DEF Accounted, Conservation, Pending
<1>7. CASE EnqueueLocked(e)
  <2>1. /\ pull' = Enqueue(pull, e, MaxQueueDepth) /\ call' = call
        /\ state' = IF e.degraded \/ Overflows(pull, MaxQueueDepth) THEN "degraded" ELSE state
    BY <1>7 DEF EnqueueLocked
  <2>2. Held(pull)' = Held(pull) \cup {new} /\ HeldOnce(pull)'
    <3>1. e.ids \cap Held(pull) = {}
      BY <1>1, <1>3
    <3>. QED  BY <1>1, <2>1, <3>1, EnqueueAccounts
  <2>3. Conservation'
    BY <1>1, <1>3, <1>4, <1>6, <2>1, <2>2 DEF Conservation, Pending
  <2>4. CallOrder'
    BY <1>1, <1>2, <1>4, <2>1 DEF Accounted, CallOrder
  <2>5. HasMarker(pull)' => HasMarker(pull) \/ Overflows(pull, MaxQueueDepth) \/ e.degraded
    BY <1>1, <2>1, EnqueuePlain
  <2>6. LossDegradesStream' /\ MarkerInHand'
    BY <1>2, <2>1, <2>5, LossByQueue DEF Accounted, LossDegradesStream, HasMarker, MarkerInHand
  <2>. QED  BY <2>3, <2>4, <2>6 DEF Accounted
<1>8. CASE EnqueueCallbackLocked(e)
  <2>1. /\ call' = Enqueue(call, e, MaxCallbackQueueDepth) /\ pull' = pull
        /\ state' = IF e.degraded \/ Overflows(call, MaxCallbackQueueDepth) THEN "degraded" ELSE state
    BY <1>8 DEF EnqueueCallbackLocked
  <2>2. Held(call)' = Held(call) \cup {new} /\ HeldOnce(call)'
    <3>1. e.ids \cap Held(call) = {}
      BY <1>1, <1>3
    <3>. QED  BY <1>1, <2>1, <3>1, EnqueueAccounts
  <2>3. Conservation'
    BY <1>1, <1>3, <1>4, <1>6, <2>1, <2>2 DEF Conservation, Pending
  <2>4. CallOrder'
    <3>1. Ordered(call)'
      BY <1>1, <1>2, <2>1, EnqueueAccounts DEF Accounted, CallOrder
    <3>2. \A n \in Plain(call)' : n \in Plain(call) \/ n = new
      BY <1>1, <2>1, EnqueuePlain
    <3>3. \A m \in DOMAIN fate', n \in Plain(call)' \cup PlainInDecision' : fate'[m] = "called" => m < n
      BY <1>1, <1>2, <1>4, <3>2 DEF Accounted, CallOrder
    <3>4. \A n \in PlainInDecision', m \in Plain(call)' : n < m
      BY <1>1, <1>2, <1>4, <3>2 DEF Accounted, CallOrder
    <3>. QED  BY <3>1, <3>3, <3>4 DEF CallOrder
  <2>5. HasMarker(call)' => HasMarker(call) \/ Overflows(call, MaxCallbackQueueDepth) \/ e.degraded
    BY <1>1, <2>1, EnqueuePlain
  <2>6. LossDegradesStream' /\ MarkerInHand'
    BY <1>2, <2>1, <2>5, LossByQueue DEF Accounted, LossDegradesStream, HasMarker, MarkerInHand
  <2>. QED  BY <2>3, <2>4, <2>6 DEF Accounted
<1>. QED  BY <1>7, <1>8 DEF Arrive, Deliver

\* poll() and wait(): the front of queue_ is given out or reported.
LEMMA PullAccounted ==
  ASSUME Inv, Accounted, PopQueueFront, pc'["delivery"] = pc["delivery"], current' = current
  PROVE  Accounted'
<1> DEFINE front == pull.events[1]
<1>1. /\ fate \in Seq(Fates) /\ DOMAIN fate = 1 .. Len(fate)
      /\ pull \in Queue /\ call \in Queue /\ HeldOnce(pull) /\ HeldOnce(call)
      /\ Held(pull) \subseteq DOMAIN fate
  BY WhatIsHeld
<1>2. pull.events # <<>> /\ pull' = PopFront(pull) /\ HandOver(front, "pulled") /\ UNCHANGED <<call, state>>
  BY DEF PopQueueFront
<1>3. front \in Event
  BY <1>1, <1>2 DEF Queue
<1>4. /\ Held(pull) = front.ids \cup Held(pull)' /\ front.ids \cap Held(pull)' = {} /\ HeldOnce(pull)'
      /\ HasMarker(pull)' => HasMarker(pull)
  BY <1>1, <1>2, PopFrontAccounts, PopFrontPlain
<1>5. /\ DOMAIN fate' = DOMAIN fate
      /\ \A n \in DOMAIN fate \ front.ids : fate'[n] = fate[n]
      /\ \A n \in DOMAIN fate : n \in front.ids => fate'[n] = IF IsMarker(front) THEN "reported" ELSE "pulled"
  BY <1>2, <1>3, HandOverFate DEF Fates
<1>6. InDecision' = InDecision /\ PlainInDecision' = PlainInDecision
  BY DEF InDecision, PlainInDecision
<1>7. Conservation'
  <2>1. Pending' = Pending \ front.ids
    BY <1>5 DEF Pending
  <2>. QED  BY <1>1, <1>2, <1>4, <1>6, <2>1 DEF Accounted, Conservation, Pending
<1>8. CallOrder'
  <2>1. \A m \in DOMAIN fate : fate'[m] = "called" => fate[m] = "called"
    BY <1>5
  <2>. QED  BY <1>2, <1>5, <1>6, <2>1 DEF Accounted, CallOrder
<1>9. LossDegradesStream' /\ MarkerInHand'
  <2>1. IsMarker(front) => HasMarker(pull)
    BY <1>1, <1>2 DEF HasMarker, Queue
  <2>2. (\E n \in DOMAIN fate' : fate'[n] = "reported") =>
          HasMarker(pull) \/ \E n \in DOMAIN fate : fate[n] = "reported"
    BY <1>5, <2>1
  <2>3. LossDegradesStream'
    BY <1>2, <1>4, <2>2, LossByQueue DEF Accounted, LossDegradesStream, HasMarker
  <2>. QED  BY <1>2, <2>3 DEF Accounted, MarkerInHand
<1>. QED  BY <1>7, <1>8, <1>9 DEF Accounted

\* The delivery worker takes the front of callback_queue_ into its hands.
LEMMA PopCallbackAccounted ==
  ASSUME Inv, Accounted, PopCallbackQueue
  PROVE  Accounted'
<1> DEFINE front == call.events[1]
<1>1. /\ pull \in Queue /\ call \in Queue /\ HeldOnce(pull) /\ HeldOnce(call)
      /\ pc \in [Threads -> {"idle", "check", "deliver", "decide", "calling", "wait", "done"}]
  BY WhatIsHeld DEF Inv, TypeOK
<1>2. /\ pc["delivery"] = "idle" /\ pc'["delivery"] = "decide" /\ call.events # <<>>
      /\ current' = front /\ call' = PopFront(call)
      /\ UNCHANGED <<pull, state, fate>>
  BY <1>1 DEF PopCallbackQueue, DeliveryAwake, Goto, Threads, Workers
<1>3. /\ Held(call) = front.ids \cup Held(call)' /\ front.ids \cap Held(call)' = {} /\ HeldOnce(call)'
      /\ Ordered(call) => Ordered(call)'
      /\ HasMarker(call)' => HasMarker(call)
      /\ Plain(call)' \subseteq Plain(call)
      /\ ~IsMarker(front) => front.ids \subseteq Plain(call)
      /\ Ordered(call) /\ ~IsMarker(front) => \A n \in front.ids, m \in Plain(call)' : n < m
  BY <1>1, <1>2, PopFrontAccounts, PopFrontPlain
<1>4. InDecision = {} /\ InDecision' = front.ids /\ PlainInDecision' = IF IsMarker(front) THEN {} ELSE front.ids
  BY <1>2 DEF InDecision, PlainInDecision
<1>5. Conservation'
  BY <1>1, <1>2, <1>3, <1>4 DEF Accounted, Conservation
<1>6. CallOrder'
  BY <1>2, <1>3, <1>4 DEF Accounted, CallOrder
<1>7. IsMarker(front) => HasMarker(call)
  BY <1>1, <1>2 DEF HasMarker, Queue
<1>8. LossDegradesStream' /\ MarkerInHand'
  BY <1>2, <1>3, <1>7, LossByQueue DEF Accounted, LossDegradesStream, HasMarker, MarkerInHand
<1>. QED  BY <1>5, <1>6, <1>8 DEF Accounted

\* What the worker holds is given to the callback, or dropped after stop().
LEMMA GivenAccounted ==
  ASSUME Inv, Accounted, CallCallback \/ DropBecauseStopped
  PROVE  Accounted'
<1>1. /\ fate \in Seq(Fates) /\ DOMAIN fate = 1 .. Len(fate) /\ InDecision \subseteq DOMAIN fate
      /\ pc \in [Threads -> {"idle", "check", "deliver", "decide", "calling", "wait", "done"}] /\ current \in Event
  BY WhatIsHeld DEF Inv, TypeOK
<1>2. /\ pc["delivery"] = "decide" /\ pc'["delivery"] # "decide" /\ UNCHANGED <<pull, call, state>>
      /\ current' \in {current, NoEvent}
      /\ \E how \in {"called", "discarded"} : HandOver(current, how)
  BY <1>1 DEF CallCallback, DropBecauseStopped, DeliveryAwake, Goto, Threads, Workers, queues
<1>3. PICK how \in {"called", "discarded"} : HandOver(current, how)
  BY <1>2
<1>4. /\ DOMAIN fate' = DOMAIN fate
      /\ \A n \in DOMAIN fate \ current.ids : fate'[n] = fate[n]
      /\ \A n \in DOMAIN fate : n \in current.ids => fate'[n] = IF IsMarker(current) THEN "reported" ELSE how
  BY <1>1, <1>3, HandOverFate DEF Fates
<1>5. /\ InDecision = current.ids /\ InDecision' = {} /\ PlainInDecision' = {}
      /\ PlainInDecision = IF IsMarker(current) THEN {} ELSE current.ids
  BY <1>2 DEF InDecision, PlainInDecision
<1>6. Conservation'
  <2>1. Pending' = Pending \ current.ids
    BY <1>4 DEF Pending
  <2>. QED  BY <1>2, <1>5, <2>1 DEF Accounted, Conservation, Pending
<1>7. CallOrder'
  <2>1. \A m \in DOMAIN fate : fate'[m] = "called" => fate[m] = "called" \/ m \in PlainInDecision
    BY <1>4, <1>5
  <2>. QED  BY <1>2, <1>4, <1>5, <2>1 DEF Accounted, CallOrder
<1>8. LossDegradesStream' /\ MarkerInHand'
  <2>1. (\E n \in DOMAIN fate' : fate'[n] = "reported") =>
          IsMarker(current) \/ \E n \in DOMAIN fate : fate[n] = "reported"
    BY <1>4
  <2>2. LossDegradesStream'
    BY <1>2, <2>1, LossByQueue DEF Accounted, LossDegradesStream, HasMarker, MarkerInHand
  <2>. QED  BY <1>2, <2>2 DEF Accounted, MarkerInHand, NoEvent, IsMarker
<1>. QED  BY <1>6, <1>7, <1>8 DEF Accounted

\* It goes to queue_ instead, or the failure of the callback does.
LEMMA FallBackAccounted ==
  ASSUME Inv, Accounted, FallBackToQueue \/ CallbackThrows
  PROVE  Accounted'
<1>1. /\ pull \in Queue /\ QueueConsistent(pull, MaxQueueDepth) /\ HeldOnce(pull) /\ HeldOnce(call)
      /\ pc \in [Threads -> {"idle", "check", "deliver", "decide", "calling", "wait", "done"}] /\ current \in Event
  BY WhatIsHeld DEF Inv, TypeOK
<1>2. /\ pc["delivery"] \in {"decide", "calling"} /\ pc'["delivery"] = "idle" /\ current' = NoEvent /\ fate' = fate
      /\ EnqueueLocked(IF pc["delivery"] = "decide" THEN current ELSE FailureEvent)
  BY <1>1 DEF FallBackToQueue, CallbackThrows, DeliveryAwake, Goto, Threads, Workers
<1>3. PICK e \in Event : EnqueueLocked(e) /\ e.ids = InDecision /\ (IsMarker(e) => state # "clean" \/ e.degraded)
  <2>1. FailureEvent \in Event /\ FailureEvent.ids = {} /\ FailureEvent.degraded
    BY ArrivingEvents DEF Producers, Inv, FailureEvent
  <2>. QED  BY <1>1, <1>2, <2>1 DEF InDecision, Accounted, MarkerInHand
<1>4. /\ pull' = Enqueue(pull, e, MaxQueueDepth) /\ call' = call
      /\ state' = IF e.degraded \/ Overflows(pull, MaxQueueDepth) THEN "degraded" ELSE state
  BY <1>3 DEF EnqueueLocked
<1>5. InDecision' = {} /\ PlainInDecision' = {}
  BY <1>2 DEF InDecision, PlainInDecision
<1>6. Held(pull)' = Held(pull) \cup e.ids /\ HeldOnce(pull)'
  <2>1. e.ids \cap Held(pull) = {}
    BY <1>3 DEF Accounted, Conservation
  <2>. QED  BY <1>1, <1>4, <2>1, EnqueueAccounts
<1>7. Conservation'
  BY <1>1, <1>2, <1>3, <1>4, <1>5, <1>6 DEF Accounted, Conservation
<1>8. CallOrder'
  BY <1>2, <1>4, <1>5 DEF Accounted, CallOrder
<1>9. HasMarker(pull)' => HasMarker(pull) \/ Overflows(pull, MaxQueueDepth) \/ e.degraded \/ state # "clean"
  BY <1>1, <1>3, <1>4, EnqueuePlain
<1>10. LossDegradesStream' /\ MarkerInHand'
  BY <1>2, <1>4, <1>9, LossByQueue DEF Accounted, LossDegradesStream, HasMarker, MarkerInHand, NoEvent, IsMarker
<1>. QED  BY <1>7, <1>8, <1>10 DEF Accounted

\* A step of another thread leaves the delivery worker where it is.
LEMMA OthersGo ==
  ASSUME Inv, NEW t \in Threads \ {"delivery"}, NEW where, Goto(t, where)
  PROVE  pc'["delivery"] = pc["delivery"]
BY DEF Inv, TypeOK, Goto, Threads, Workers

LEMMA AccountedNext == Inv /\ Accounted /\ [Next]_vars => Accounted'
<1> SUFFICES ASSUME Inv, Accounted, [Next]_vars PROVE Accounted'
  OBVIOUS
<1>0. /\ "raw" \in Threads \ {"delivery"} /\ \A p \in Producers : p \in Threads \ {"delivery"}
      /\ \A c \in Clients : c \in Threads \ {"delivery"}
  BY ThreadsAssumption DEF Threads, Workers, Producers
<1>1. CASE UNCHANGED vars
  BY <1>1, NothingMoves DEF vars, queues, InDecision, PlainInDecision
<1>2. ASSUME NEW p \in Producers, Take(p) \/ CheckActive(p) \/ ProducerExits(p) PROVE Accounted'
  <2>1. pc'["delivery"] = pc["delivery"]
    BY <1>0, <1>2, OthersGo DEF Take, CheckActive, ProducerExits
  <2>2. UNCHANGED <<pull, call, state, fate, current>>
    BY <1>2 DEF Take, CheckActive, ProducerExits, queues
  <2>. QED  BY <2>1, <2>2, NothingMoves DEF InDecision, PlainInDecision
<1>3. ASSUME NEW p \in Producers, DeliverTaken(p) PROVE Accounted'
  <2> DEFINE e == [kind |-> "ordinary", ids |-> {Len(fate) + 1}, degraded |-> taken[p].degraded, drops |-> 0]
  <2>1. e \in Event /\ e.ids = {Len(fate) + 1} /\ ~IsMarker(e)
    BY ArrivingEvents DEF Inv, IsMarker
  <2>2. Arrive(e) /\ current' = current /\ pc'["delivery"] = pc["delivery"]
    BY <1>0, <1>3, OthersGo DEF DeliverTaken
  <2> HIDE DEF e
  <2>. QED  BY <2>1, <2>2, ArrivalAccounted
<1>4. CASE GivenToSettle
  <2>1. UNCHANGED <<pull, call, state, fate, current>> /\ pc'["delivery"] = pc["delivery"]
    BY <1>0, <1>4, OthersGo DEF GivenToSettle, queues
  <2>. QED  BY <2>1, NothingMoves DEF InDecision, PlainInDecision
<1>5. CASE SettleOverflow
  <2> DEFINE e == OverflowMarker({Len(fate) + 1}, 0)
  <2>1. e \in Event /\ e.ids = {Len(fate) + 1} /\ e.degraded
    BY ArrivingEvents DEF Inv, OverflowMarker, Producers
  <2>2. Arrive(e) /\ current' = current /\ pc'["delivery"] = pc["delivery"]
    BY <1>0, <1>5, OthersGo DEF SettleOverflow
  <2> HIDE DEF e
  <2>. QED  BY <2>1, <2>2, ArrivalAccounted
<1>6. CASE DeliveryStep
  <2>1. CASE DeliveryParks \/ DeliveryExits \/ CallbackReturns
    <3>1. pc["delivery"] # "decide" /\ pc'["delivery"] # "decide" /\ UNCHANGED <<pull, call, state, fate>>
          /\ current' \in {current, NoEvent}
      BY <2>1 DEF DeliveryParks, DeliveryExits, CallbackReturns, DeliveryAwake, Goto, queues, Inv, TypeOK,
         Threads, Workers
    <3>. QED  BY <3>1, NothingMoves DEF InDecision, PlainInDecision, NoEvent, IsMarker
  <2>. QED  BY <1>6, <2>1, PopCallbackAccounted, GivenAccounted, FallBackAccounted DEF DeliveryStep
<1>7. CASE AddWatch \/ RemoveWatch \/ SetCallback
  BY <1>7, NothingMoves DEF AddWatch, RemoveWatch, SetCallback, queues, InDecision, PlainInDecision
<1>8. CASE Poll
  BY <1>8, PullAccounted DEF Poll
<1>9. ASSUME NEW c \in Clients, WaitBegins(c) \/ WaitStep(c) \/ WaitTimesOut(c) PROVE Accounted'
  <2>1. pc'["delivery"] = pc["delivery"] /\ current' = current
    BY <1>0, <1>9, OthersGo DEF WaitBegins, WaitStep, WaitParks, WaitTakes, WaitSeesStop, WaitTimesOut
  <2>2. PopQueueFront \/ UNCHANGED <<queues, fate>>
    BY <1>9 DEF WaitBegins, WaitStep, WaitParks, WaitTakes, WaitSeesStop, WaitTimesOut
  <2>. QED  BY <2>1, <2>2, PullAccounted, NothingMoves DEF queues, InDecision, PlainInDecision
<1>10. ASSUME NEW t \in Threads, StopBegins(t) \/ StopStep(t) PROVE Accounted'
  <2>1. UNCHANGED <<pull, call, fate, pc, current>> /\ state' \in {state, "stopped"}
    BY <1>10 DEF StopBegins, StopStep, StopBackend, StopNotifies, StopLocks, JoinOrDetach, queues
  <2>. QED  BY <2>1, NothingMoves DEF InDecision, PlainInDecision
<1>. QED
  BY <1>1, <1>2, <1>3, <1>4, <1>5, <1>6, <1>7, <1>8, <1>9, <1>10 DEF Next, ProducerStep

\* Nothing is lost in silence or given out twice, for any threads, callbacks,
\* depths and number of events (enqueue_locked, enqueue_callback_locked).
THEOREM EventsAreConserved == Spec => []Conservation
<1>1. Accounted => Conservation
  BY DEF Accounted
<1>. QED  BY <1>1, InvInit, InvNext, AccountedInit, AccountedNext, PTL DEF Spec

\* A stream that lost an event, or is about to say so, is not clean.
THEOREM LossIsNeverClean == Spec => []LossDegradesStream
<1>1. Accounted => LossDegradesStream
  BY DEF Accounted
<1>. QED  BY <1>1, InvInit, InvNext, AccountedInit, AccountedNext, PTL DEF Spec

\* What became of an event is final: it is handed over once.
LEMMA HandedOver ==
  ASSUME Inv, Accounted, [Next]_vars, NEW n \in DOMAIN fate, fate'[n] # fate[n]
  PROVE  /\ fate[n] = "pending"
         /\ fate'[n] = "called" => n \in PlainInDecision
<1>1. /\ fate \in Seq(Fates) /\ DOMAIN fate = 1 .. Len(fate) /\ Len(fate) \in Nat
      /\ pull \in Queue /\ current \in Event
  BY WhatIsHeld DEF Inv, TypeOK
<1>2. CASE \E e : Arrive(e)
  BY <1>1, <1>2 DEF Arrive
<1>3. CASE PopQueueFront
  <2>1. pull.events[1] \in Event /\ HandOver(pull.events[1], "pulled") /\ pull.events[1].ids \subseteq Held(pull)
    BY <1>1, <1>3 DEF PopQueueFront, Queue, Held
  <2>2. n \in Held(pull) /\ fate'[n] # "called"
    BY <2>1, HandOverFate DEF Fates
  <2>. QED  BY <2>2 DEF Accounted, Conservation
<1>4. CASE CallCallback \/ DropBecauseStopped
  <2>1. /\ pc["delivery"] = "decide"
        /\ \E how \in {"called", "discarded"} : HandOver(current, how)
    BY <1>4 DEF CallCallback, DropBecauseStopped, DeliveryAwake
  <2>2. n \in current.ids /\ (fate'[n] = "called" => ~IsMarker(current))
    BY <1>1, <2>1, HandOverFate DEF Fates
  <2>. QED  BY <2>1, <2>2 DEF Accounted, Conservation, InDecision, PlainInDecision
<1>5. \/ \E e : Arrive(e)
      \/ PopQueueFront \/ CallCallback \/ DropBecauseStopped
      \/ fate' = fate
  BY DEF Next, ProducerStep, Take, CheckActive, DeliverTaken, ProducerExits, GivenToSettle, SettleOverflow,
     DeliveryStep, DeliveryParks, DeliveryExits, PopCallbackQueue, FallBackToQueue, CallbackReturns, CallbackThrows,
     AddWatch, RemoveWatch, SetCallback, Poll, WaitBegins, WaitStep, WaitParks, WaitTakes, WaitSeesStop, WaitTimesOut,
     StopBegins, StopStep, StopBackend, StopNotifies, StopLocks, JoinOrDetach, vars
<1>. QED  BY <1>2, <1>3, <1>4, <1>5

\* The callback sees each event at most once and in the order of arrival,
\* across changes of the callback, markers and exceptions.
THEOREM DeliveryIsOrdered == Spec => DeliveredOnceInOrder
<1>1. Inv /\ Accounted /\ [Next]_vars =>
        [\A n \in DOMAIN fate :
           /\ fate[n] # "pending" => fate'[n] = fate[n]
           /\ fate'[n] # fate[n] /\ fate'[n] = "called" =>
                \A m \in DOMAIN fate : m > n => fate[m] # "called"]_vars
  <2> SUFFICES ASSUME Inv, Accounted, [Next]_vars, NEW n \in DOMAIN fate, fate'[n] # fate[n]
               PROVE  /\ fate[n] = "pending"
                      /\ fate'[n] = "called" => \A m \in DOMAIN fate : m > n => fate[m] # "called"
    OBVIOUS
  <2>1. fate[n] = "pending" /\ (fate'[n] = "called" => n \in PlainInDecision)
    BY HandedOver
  <2>2. \A m \in DOMAIN fate : fate[m] = "called" /\ n \in PlainInDecision => m < n
    BY DEF Accounted, CallOrder
  <2>3. DOMAIN fate \subseteq Nat
    BY DEF Inv, TypeOK
  <2>. QED  BY <2>1, <2>2, <2>3
<1>. QED  BY <1>1, InvInit, InvNext, AccountedInit, AccountedNext, PTL DEF Spec, DeliveredOnceInOrder

-----------------------------------------------------------------------------
(* NoLostWakeup is inductive relative to Inv: an enqueue that does not       *)
(* notify meets an overflowed queue, which by QueuesConsistent is not empty, *)
(* so that nobody sleeps on it.                                              *)

\* An enqueue keeps the sleepers right, whichever queue it goes to.
LEMMA EnqueueKeepsWakeup ==
  ASSUME Inv, NoLostWakeup, NEW e \in Event,
         EnqueueLocked(e) \/ EnqueueCallbackLocked(e),
         UNCHANGED <<stopped, stopAt>>
  PROVE  NoLostWakeup'
<1>1. /\ pull.overflowed => pull.events # <<>>
      /\ call.overflowed => call.events # <<>>
  BY DEF Inv, QueuesConsistent, QueueConsistent
<1>2. parked \subseteq Clients \cup {"delivery"} /\ "delivery" \notin Clients
  BY ThreadsAssumption DEF Inv, TypeOK, Workers
<1>3. parked' \subseteq parked
  BY DEF EnqueueLocked, EnqueueCallbackLocked
<1>4. stopped' /\ parked' # {} => \E t \in Threads : stopAt'[t] \in {"backend", "notify"}
  BY <1>3 DEF NoLostWakeup
<1>5. CASE EnqueueLocked(e)
  <2>1. parked' \cap Clients = {}
    <3>1. CASE pull.overflowed
      BY <1>1, <1>5, <3>1 DEF EnqueueLocked, NoLostWakeup
    <3>2. CASE ~ pull.overflowed
      BY <1>5, <3>2 DEF EnqueueLocked
    <3>. QED  BY <3>1, <3>2
  <2>2. "delivery" \in parked' => call'.events = <<>>
    BY <1>3, <1>5 DEF EnqueueLocked, NoLostWakeup
  <2>. QED  BY <1>4, <2>1, <2>2 DEF NoLostWakeup
<1>6. CASE EnqueueCallbackLocked(e)
  <2>1. "delivery" \notin parked'
    BY <1>1, <1>6 DEF EnqueueCallbackLocked, NoLostWakeup
  <2>2. parked' \cap Clients # {} => pull'.events = <<>>
    BY <1>3, <1>6 DEF EnqueueCallbackLocked, NoLostWakeup
  <2>. QED  BY <1>4, <2>1, <2>2 DEF NoLostWakeup
<1>. QED  BY <1>5, <1>6

\* Taking an event does, too: who finds one has no sleeper beside it.
LEMMA PopKeepsWakeup ==
  ASSUME NoLostWakeup, PopQueueFront, parked' \subseteq parked,
         UNCHANGED <<stopped, stopAt>>
  PROVE  NoLostWakeup'
BY DEF NoLostWakeup, PopQueueFront

LEMMA WakeupInit == Init => NoLostWakeup
BY DEF Init, NoLostWakeup, EmptyQueue

LEMMA WorkersKeepWakeup ==
  ASSUME Inv, NoLostWakeup,
         \/ \E p \in Producers : Take(p) \/ ProducerStep(p)
         \/ GivenToSettle \/ SettleOverflow \/ DeliveryStep
  PROVE  NoLostWakeup'
<1> USE DEF queues, shutdown, config
<1>0. NoEvent \in Event /\ FailureEvent \in Event /\ current \in Event
  BY ArrivingEvents DEF Producers, Inv, TypeOK
<1>1. ASSUME NEW p \in Producers, Take(p) \/ CheckActive(p) PROVE NoLostWakeup'
  BY <1>1 DEF Take, CheckActive, NoLostWakeup
<1>2. ASSUME NEW p \in Producers, DeliverTaken(p) PROVE NoLostWakeup'
  <2> DEFINE e == [kind |-> "ordinary", ids |-> {Len(fate) + 1},
                   degraded |-> taken[p].degraded, drops |-> 0]
  <2>1. e \in Event /\ Deliver(e) /\ UNCHANGED <<stopped, stopAt>>
    BY <1>2, ArrivingEvents DEF Inv, DeliverTaken, Arrive
  <2> HIDE DEF e
  <2>. QED  BY <2>1, EnqueueKeepsWakeup DEF Deliver
<1>3. ASSUME NEW p \in Producers, ProducerExits(p) PROVE NoLostWakeup'
  BY <1>3 DEF ProducerExits, NoLostWakeup
<1>4. CASE GivenToSettle
  BY <1>4 DEF GivenToSettle, NoLostWakeup
<1>5. CASE SettleOverflow
  <2> DEFINE e == OverflowMarker({Len(fate) + 1}, 0)
  <2>1. e \in Event /\ Deliver(e) /\ UNCHANGED <<stopped, stopAt>>
    BY <1>5, ArrivingEvents DEF Inv, SettleOverflow, Arrive, Producers
  <2> HIDE DEF e
  <2>. QED  BY <2>1, EnqueueKeepsWakeup DEF Deliver
<1>6. CASE DeliveryParks
  <2>1. "delivery" \notin Clients
    BY ThreadsAssumption DEF Workers
  <2>. QED  BY <1>6, <2>1 DEF DeliveryParks, NoLostWakeup
<1>7. CASE PopCallbackQueue
  BY <1>7 DEF PopCallbackQueue, DeliveryAwake, NoLostWakeup
<1>8. CASE DeliveryExits \/ DropBecauseStopped \/ CallCallback \/ CallbackReturns
  BY <1>8 DEF DeliveryExits, DropBecauseStopped, CallCallback, CallbackReturns, NoLostWakeup
<1>9. CASE FallBackToQueue \/ CallbackThrows
  BY <1>0, <1>9, EnqueueKeepsWakeup DEF FallBackToQueue, CallbackThrows
<1>. QED
  BY <1>1, <1>2, <1>3, <1>4, <1>5, <1>6, <1>7, <1>8, <1>9 DEF ProducerStep, DeliveryStep

LEMMA ApplicationKeepsWakeup ==
  ASSUME Inv, NoLostWakeup,
         \/ AddWatch \/ RemoveWatch \/ SetCallback \/ Poll
         \/ \E c \in Clients : WaitBegins(c) \/ WaitStep(c) \/ WaitTimesOut(c)
  PROVE  NoLostWakeup'
<1> USE DEF queues, shutdown, config
<1>1. CASE AddWatch \/ RemoveWatch \/ SetCallback
  BY <1>1 DEF AddWatch, RemoveWatch, SetCallback, NoLostWakeup
<1>2. CASE Poll
  BY <1>2, PopKeepsWakeup DEF Poll
<1>3. ASSUME NEW c \in Clients, WaitBegins(c) \/ WaitSeesStop(c) PROVE NoLostWakeup'
  BY <1>3 DEF WaitBegins, WaitSeesStop, NoLostWakeup
<1>4. ASSUME NEW c \in Clients, WaitParks(c) PROVE NoLostWakeup'
  <2>1. c # "delivery"
    BY ThreadsAssumption DEF Workers
  <2>. QED  BY <1>4, <2>1 DEF WaitParks, NoLostWakeup
<1>5. ASSUME NEW c \in Clients, WaitTakes(c) PROVE NoLostWakeup'
  BY <1>5, PopKeepsWakeup DEF WaitTakes
<1>6. ASSUME NEW c \in Clients, WaitTimesOut(c) PROVE NoLostWakeup'
  <2>1. CASE PopQueueFront
    BY <1>6, <2>1, PopKeepsWakeup DEF WaitTimesOut
  <2>2. CASE UNCHANGED <<queues, fate>>
    BY <1>6, <2>2 DEF WaitTimesOut, NoLostWakeup
  <2>. QED  BY <1>6, <2>1, <2>2 DEF WaitTimesOut
<1>. QED  BY <1>1, <1>2, <1>3, <1>4, <1>5, <1>6 DEF WaitStep

LEMMA StopKeepsWakeup ==
  ASSUME Inv, NoLostWakeup, NEW t \in Threads, StopBegins(t) \/ StopStep(t)
  PROVE  NoLostWakeup'
<1> USE DEF queues, config
<1>0. stopAt \in [Threads -> StopSteps]
  BY DEF Inv, TypeOK
<1>1. CASE StopBegins(t)
  <2>1. stopAt'[t] \in {"backend", "notify"}
    BY <1>0, <1>1 DEF StopBegins
  <2>. QED  BY <1>1, <2>1 DEF StopBegins, NoLostWakeup
<1>2. CASE StopBackend(t)
  <2>1. stopAt'[t] = "notify"
    BY <1>0, <1>2 DEF StopBackend
  <2>. QED  BY <1>2, <2>1 DEF StopBackend, NoLostWakeup
<1>3. CASE StopNotifies(t)
  BY <1>3 DEF StopNotifies, NoLostWakeup
<1>4. CASE StopLocks(t)
  <2>1. \A u \in Threads : stopAt[u] \in {"backend", "notify"} => stopAt'[u] = stopAt[u]
    BY <1>0, <1>4 DEF StopLocks
  <2>. QED  BY <1>4, <2>1 DEF StopLocks, NoLostWakeup
<1>5. CASE JoinOrDetach(t)
  <2>1. \A u \in Threads : stopAt[u] \in {"backend", "notify"} => stopAt'[u] = stopAt[u]
    BY <1>0, <1>5 DEF JoinOrDetach, Workers, Producers
  <2>. QED  BY <1>5, <2>1 DEF JoinOrDetach, NoLostWakeup
<1>. QED  BY <1>1, <1>2, <1>3, <1>4, <1>5 DEF StopStep

\* No wake-up is lost: a sleeper's queue is empty, and a sleeper of a stopped
\* watcher will be notified by a stop() on its way.
THEOREM WakeupsAreNotLost == Spec => []NoLostWakeup
<1>1. Inv /\ NoLostWakeup /\ [Next]_vars => NoLostWakeup'
  <2> SUFFICES ASSUME Inv, NoLostWakeup, [Next]_vars PROVE NoLostWakeup'
    OBVIOUS
  <2>1. CASE UNCHANGED vars
    BY <2>1 DEF NoLostWakeup, vars, queues, shutdown
  <2>2. CASE Next
    BY <2>2, WorkersKeepWakeup, ApplicationKeepsWakeup, StopKeepsWakeup DEF Next
  <2>. QED  BY <2>1, <2>2
<1>. QED  BY <1>1, WakeupInit, InvInit, InvNext, PTL DEF Spec

-----------------------------------------------------------------------------
(* StopJoinsWorkers follows from what join_or_detach_for_stop has done with  *)
(* the workers a thread in stop() has passed.                                *)

\* The workers a thread has passed at each place in stop().
Passed(t) ==
  CASE stopAt[t] = "settle" -> {"raw"}
    [] stopAt[t] = "delivery" -> Producers
    [] stopAt[t] = "returned" -> Workers
    [] OTHER -> {}

\* Only the delivery worker can be detached, by itself; a producer never stops
\* the watcher; and a passed worker is not joinable any more.
Joined ==
  /\ \A p \in Producers : stopAt[p] = "none"
  /\ \A w \in Workers \ joinable :
       pc[w] = "done" \/ (w = "delivery" /\ stopAt["delivery"] = "returned")
  /\ \A t \in Threads : Passed(t) \cap joinable = {}

LEMMA JoinedImpliesStopJoins == TypeOK /\ Joined => StopJoinsWorkers
<1> SUFFICES ASSUME TypeOK, Joined, NEW t \in Threads, stopAt[t] = "returned"
             PROVE  /\ \A p \in Producers : pc[p] = "done"
                    /\ pc["delivery"] \in {"decide", "calling"} => stopAt["delivery"] = "returned"
  BY DEF StopJoinsWorkers
<1>1. joinable = {}
  BY DEF Joined, Passed, TypeOK
<1>. QED  BY <1>1 DEF Joined, Workers, Producers

\* A step that moves no thread in stop(), joins nobody and wakes no worker that
\* has ended keeps Joined.
LEMMA OtherStepsKeepJoined ==
  ASSUME Joined, UNCHANGED <<stopAt, joinable>>,
         \A w \in Workers : pc[w] = "done" => pc'[w] = "done"
  PROVE  Joined'
BY DEF Joined, Passed, Workers, Producers

LEMMA JoinedInit == Init => Joined
BY DEF Init, Joined, Passed, Threads, Workers, Producers

LEMMA WorkersKeepJoined ==
  ASSUME TypeOK, Joined,
         \/ \E p \in Producers : Take(p) \/ ProducerStep(p)
         \/ GivenToSettle \/ SettleOverflow \/ DeliveryStep
  PROVE  Joined'
<1>0. pc \in [Threads -> {"idle", "check", "deliver", "decide", "calling", "wait", "done"}]
  BY DEF TypeOK
<1>1. ASSUME NEW p \in Producers, Take(p) \/ ProducerStep(p) PROVE Joined'
  <2>1. UNCHANGED <<stopAt, joinable>>
    BY <1>1 DEF Take, ProducerStep, CheckActive, DeliverTaken, ProducerExits, shutdown
  <2>2. pc[p] # "done"
    BY <1>1 DEF Take, ProducerStep, CheckActive, DeliverTaken, ProducerExits
  <2>3. \E where : Goto(p, where)
    <3>1. CASE Take(p) \/ DeliverTaken(p) \/ ProducerExits(p)
      BY <3>1 DEF Take, DeliverTaken, ProducerExits
    <3>2. CASE CheckActive(p)
      <4>1. CASE ~ stopped /\ taken[p].watch \in watches
        BY <3>2, <4>1, Zenon DEF CheckActive
      <4>2. CASE ~ (~ stopped /\ taken[p].watch \in watches)
        BY <3>2, <4>2, Zenon DEF CheckActive
      <4>. QED  BY <4>1, <4>2
    <3>. QED  BY <1>1, <3>1, <3>2 DEF ProducerStep
  <2>4. \A w \in Workers : pc[w] = "done" => pc'[w] = "done"
    BY <1>0, <2>2, <2>3 DEF Goto, Threads
  <2>. QED  BY <2>1, <2>4, OtherStepsKeepJoined
<1>2. CASE GivenToSettle \/ SettleOverflow
  <2>1. UNCHANGED <<stopAt, joinable>> /\ pc["raw"] # "done" /\ Goto("raw", "idle")
    BY <1>2 DEF GivenToSettle, SettleOverflow, shutdown
  <2>. QED  BY <1>0, <2>1, OtherStepsKeepJoined DEF Goto
<1>3. CASE DeliveryStep
  <2>1. UNCHANGED <<stopAt, joinable>>
    BY <1>3 DEF DeliveryStep, DeliveryParks, DeliveryExits, PopCallbackQueue,
         DropBecauseStopped, FallBackToQueue, CallCallback, CallbackReturns, CallbackThrows,
         shutdown
  <2>2. pc["delivery"] # "done"
    BY <1>3 DEF DeliveryStep, DeliveryParks, DeliveryExits, PopCallbackQueue,
         DropBecauseStopped, FallBackToQueue, CallCallback, CallbackReturns, CallbackThrows,
         DeliveryAwake
  <2>3. UNCHANGED pc \/ \E where : Goto("delivery", where)
    BY <1>3 DEF DeliveryStep, DeliveryParks, DeliveryExits, PopCallbackQueue,
         DropBecauseStopped, FallBackToQueue, CallCallback, CallbackReturns, CallbackThrows
  <2>4. \A w \in Workers : pc[w] = "done" => pc'[w] = "done"
    BY <1>0, <2>2, <2>3 DEF Goto, Threads
  <2>. QED  BY <2>1, <2>4, OtherStepsKeepJoined
<1>. QED  BY <1>1, <1>2, <1>3

\* Clients are not workers (ThreadsAssumption).
LEMMA ApplicationKeepsJoined ==
  ASSUME TypeOK, Joined,
         \/ AddWatch \/ RemoveWatch \/ SetCallback \/ Poll
         \/ \E c \in Clients : WaitBegins(c) \/ WaitStep(c) \/ WaitTimesOut(c)
  PROVE  Joined'
<1>0. pc \in [Threads -> {"idle", "check", "deliver", "decide", "calling", "wait", "done"}]
  BY DEF TypeOK
<1>1. CASE AddWatch \/ RemoveWatch \/ SetCallback \/ Poll
  BY <1>1, OtherStepsKeepJoined DEF AddWatch, RemoveWatch, SetCallback, Poll, shutdown
<1>2. ASSUME NEW c \in Clients, WaitBegins(c) \/ WaitStep(c) \/ WaitTimesOut(c) PROVE Joined'
  <2>1. UNCHANGED <<stopAt, joinable>>
    BY <1>2 DEF WaitBegins, WaitStep, WaitParks, WaitTakes, WaitSeesStop, WaitTimesOut, shutdown
  <2>2. UNCHANGED pc \/ \E where : Goto(c, where)
    BY <1>2 DEF WaitBegins, WaitStep, WaitParks, WaitTakes, WaitSeesStop, WaitTimesOut
  <2>3. c \notin Workers
    BY ThreadsAssumption
  <2>4. \A w \in Workers : pc[w] = "done" => pc'[w] = "done"
    BY <1>0, <2>2, <2>3 DEF Goto, Threads
  <2>. QED  BY <2>1, <2>4, OtherStepsKeepJoined
<1>. QED  BY <1>1, <1>2

LEMMA StopKeepsJoined ==
  ASSUME TypeOK, Joined, NEW t \in Threads, StopBegins(t) \/ StopStep(t)
  PROVE  Joined'
<1> USE DEF queues, config
<1>0. stopAt \in [Threads -> StopSteps] /\ joinable \subseteq Workers /\ Workers \subseteq Threads
  BY DEF TypeOK, Threads
<1>1. t \notin Producers
  BY DEF StopBegins, AtApplication, StopStep, StopBackend, StopNotifies, StopLocks,
     JoinOrDetach, Joined, Workers, Producers
<1>2. \A u \in Threads : u # t => stopAt'[u] = stopAt[u] /\ Passed(u)' = Passed(u)
  BY <1>0 DEF StopBegins, StopStep, StopBackend, StopNotifies, StopLocks, JoinOrDetach, Passed
<1>3. \A p \in Producers : stopAt'[p] = "none"
  BY <1>0, <1>1, <1>2 DEF Joined, Threads, Workers
<1>4. UNCHANGED pc
  BY DEF StopBegins, StopStep, StopBackend, StopNotifies, StopLocks, JoinOrDetach
<1>5. stopAt[t] # "returned"
  BY DEF StopBegins, StopStep, StopBackend, StopNotifies, StopLocks, JoinOrDetach,
     Workers, Producers
<1>6. CASE ~ JoinOrDetach(t)
  <2>1. joinable' = joinable /\ stopAt'[t] \in {"backend", "notify", "lock", "raw"}
    BY <1>0, <1>6 DEF StopBegins, StopStep, StopBackend, StopNotifies, StopLocks
  <2>2. Passed(t)' = {}
    BY <2>1 DEF Passed
  <2>3. \A u \in Threads : (Passed(u) \cap joinable = {})'
    BY <1>2, <2>1, <2>2 DEF Joined
  <2>4. \A w \in Workers \ joinable' :
          pc'[w] = "done" \/ (w = "delivery" /\ stopAt'["delivery"] = "returned")
    BY <1>0, <1>2, <1>4, <1>5, <2>1 DEF Joined, Workers
  <2>. QED  BY <1>3, <2>3, <2>4 DEF Joined
<1>7. CASE JoinOrDetach(t)
  <2> DEFINE w == stopAt[t]
  <2>1. /\ w \in Workers /\ (w \in joinable => w = t \/ pc[w] = "done")
        /\ joinable' = joinable \ {w} /\ stopAt'[t] = NextJoin[w]
    BY <1>0, <1>7 DEF JoinOrDetach
  <2>2. Passed(t)' = Passed(t) \cup {w}
    BY <2>1 DEF Passed, NextJoin, Workers, Producers
  <2>3. \A u \in Threads : (Passed(u) \cap joinable = {})'
    BY <1>2, <2>1, <2>2 DEF Joined
  <2>4. w = t => w = "delivery" /\ stopAt'["delivery"] = "returned"
    BY <1>1, <2>1 DEF Workers, NextJoin
  <2>5. \A v \in Workers \ joinable' :
          pc'[v] = "done" \/ (v = "delivery" /\ stopAt'["delivery"] = "returned")
    <3> SUFFICES ASSUME NEW v \in Workers \ joinable'
                 PROVE  pc'[v] = "done" \/ (v = "delivery" /\ stopAt'["delivery"] = "returned")
      OBVIOUS
    <3>1. CASE v \in joinable
      BY <1>4, <2>1, <2>4, <3>1
    <3>2. CASE v \notin joinable
      BY <1>0, <1>2, <1>4, <1>5, <3>2 DEF Joined, Workers
    <3>. QED  BY <3>1, <3>2
  <2>. QED  BY <1>3, <2>3, <2>5 DEF Joined
<1>. QED  BY <1>6, <1>7

\* When a stop() has returned, every worker has ended, but for a delivery worker
\* that is inside its own stop().
THEOREM StopLeavesNoWorker == Spec => []StopJoinsWorkers
<1>1. TypeOK /\ Joined /\ [Next]_vars => Joined'
  <2> SUFFICES ASSUME TypeOK, Joined, [Next]_vars PROVE Joined'
    OBVIOUS
  <2>1. CASE UNCHANGED vars
    BY <2>1, OtherStepsKeepJoined DEF vars, shutdown
  <2>2. CASE Next
    BY <2>2, WorkersKeepJoined, ApplicationKeepsJoined, StopKeepsJoined DEF Next
  <2>. QED  BY <2>1, <2>2
<1>. QED  BY <1>1, JoinedInit, JoinedImpliesStopJoins, TypeCorrect, PTL DEF Spec
=============================================================================
