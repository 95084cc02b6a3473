------------------------ MODULE SettleSchedulerProofs ------------------------
(***************************************************************************)
(* Theorems about SettleScheduler, for all files, watches, options and     *)
(* bounds: the three maps agree, no slot leaks, a settled event stands for *)
(* the last event of its file, and "ready" is said of quiet files only.    *)
(***************************************************************************)
EXTENDS SettleScheduler, TLAPS

Working == pc \in {"check", "poll", "retry", "complete"}
OneInHand == Working => \E h \in Task : hand = {h}

\* A task out of the maps is never ahead of its key: no newer event can take
\* its generation, as a removed watch gets no events.
Numbered ==
  \A t \in pending \cup Held :
    /\ t.gen > 0
    /\ t.gen <= generations[t.key] \/ Owner[t.key] \notin watches
    /\ IsCurrent(t) => t.seq = accepted[t.key]

\* What a task has seen of its file: a version that is there still has not
\* been changed since the task began to count.
Observed(t) ==
  \A v \in t.seen :
    /\ v > 0 /\ (version[t.key] = 0 \/ v <= version[t.key])
    /\ v = version[t.key] => changedAt[t.key] <= t.stableSince
Looked ==
  /\ \A k \in Keys : changedAt[k] <= now
  /\ \A t \in pending \cup Held : Observed(t)

Inv == TypeOK /\ OneInHand /\ MapsAgree /\ NoSlotLeaks /\ Numbered /\ Looked
-----------------------------------------------------------------------------
LEMMA InitInv == Init => Inv
<1> SUFFICES ASSUME Init PROVE Inv
  OBVIOUS
<1>1. TypeOK
  BY DEF Init, TypeOK
<1>2. MapsAgree
  BY DEF Init, MapsAgree, Held, TasksOf, DeadlineOf
<1>3. OneInHand /\ NoSlotLeaks /\ Numbered /\ Looked
  BY DEF Init, OneInHand, Working, NoSlotLeaks, ActiveKeys, Numbered, Looked, Held
<1>. QED  BY <1>1, <1>2, <1>3 DEF Inv

\* A step that leaves the maps and the task in hand alone.
LEMMA MapsUntouched ==
  ASSUME Inv, UNCHANGED <<generations, pending, deadlines, watches, accepted>>, Held' = Held,
         TypeOK', OneInHand', Looked', stopped => stopped'
  PROVE  Inv'
<1>1. MapsAgree'
  BY DEF Inv, MapsAgree, IsCurrent, TasksOf
<1>2. NoSlotLeaks'
  BY DEF Inv, NoSlotLeaks, ActiveKeys, IsCurrent
<1>3. Numbered'
  BY DEF Inv, Numbered, IsCurrent
<1>. QED  BY <1>1, <1>2, <1>3 DEF Inv

LEMMA QuietStepsKeep ==
  ASSUME Inv,
         \/ Sleep \/ SnoozeUntilDeadline \/ DeadlineWakes \/ Emit \/ WorkerExits
         \/ Stop \/ StopNotifies \/ UNCHANGED vars
  PROVE  Inv'
<1>1. /\ UNCHANGED <<generations, pending, deadlines, watches, accepted, now, version, changedAt>>
      /\ stopped => stopped'
      /\ (~Working /\ ~Working' /\ hand' \in {hand, {}}) \/ (pc' = pc /\ hand' = hand)
  BY DEF Sleep, SnoozeUntilDeadline, DeadlineWakes, Emit, WorkerExits, Stop, StopNotifies, Woken, vars,
     scheduler, worker, files, life, Working
<1>2. Held' = Held /\ OneInHand'
  BY <1>1 DEF Held, Inv, OneInHand, Working
<1>3. Looked'
  BY <1>1, <1>2 DEF Inv, Looked, Observed
<1>4. TypeOK'
  <2>1. wakeAt' \in Nat
    BY DEF Sleep, SnoozeUntilDeadline, DeadlineWakes, Emit, WorkerExits, Stop, StopNotifies, vars,
       scheduler, worker, Inv, TypeOK, Earliest, Deadline
  <2>2. pc' \in {"scan", "sleep", "snooze", "check", "poll", "retry", "complete", "emit", "done"}
    BY DEF Sleep, SnoozeUntilDeadline, DeadlineWakes, Emit, WorkerExits, Stop, StopNotifies, Woken, vars,
       scheduler, worker, Inv, TypeOK
  <2>3. stopped' \in BOOLEAN /\ notified' \in BOOLEAN
    BY DEF Sleep, SnoozeUntilDeadline, DeadlineWakes, Emit, WorkerExits, Stop, StopNotifies, vars, life, Inv, TypeOK
  <2>4. hand' \subseteq Task
    BY <1>1 DEF Inv, TypeOK
  <2>. QED  BY <1>1, <2>1, <2>2, <2>3, <2>4 DEF Inv, TypeOK
<1>. QED  BY <1>1, <1>2, <1>3, <1>4, MapsUntouched

\* The clock and the files: a version once left does not come back.
LEMMA EnvironmentKeeps ==
  ASSUME Inv, Tick \/ \E k \in Keys : Write(k) \/ Delete(k)
  PROVE  Inv'
<1>1. UNCHANGED <<generations, pending, deadlines, watches, accepted, stopped, notified, pc, wakeAt, hand>>
  BY DEF Tick, Write, Delete, scheduler, worker, life
<1>2. Held' = Held /\ OneInHand'
  BY <1>1 DEF Held, Inv, OneInHand, Working
<1>3. TypeOK' /\ now' >= now
  BY <1>1 DEF Tick, Write, Delete, files, Inv, TypeOK
<1>4. \A t \in pending \cup Held : t \in Task
  BY DEF Inv, TypeOK, Held
<1>5. ASSUME Tick PROVE Looked'
  BY <1>1, <1>2, <1>3, <1>4, <1>5 DEF Tick, files, Inv, TypeOK, Looked, Observed
<1>6. ASSUME \E k \in Keys : Write(k) \/ Delete(k) PROVE Looked'
  <2>1. PICK k \in Keys : Write(k) \/ Delete(k)
    BY <1>6
  <2>2. /\ version[k] \in Nat \ {0} /\ now' = now /\ version'[k] \in {0, version[k] + 1} /\ changedAt'[k] = now
        /\ \A l \in Keys \ {k} : version'[l] = version[l] /\ changedAt'[l] = changedAt[l]
    BY <2>1 DEF Write, Delete, Inv, TypeOK
  <2>3. ASSUME NEW t \in pending \cup Held PROVE Observed(t)'
    <3>1. t \in Task /\ Observed(t)
      BY <1>4, <2>3 DEF Inv, Looked
    <3>. QED  BY <2>2, <3>1 DEF Observed, Task
  <2>4. \A l \in Keys : changedAt'[l] <= now'
    BY <2>2 DEF Inv, TypeOK, Looked
  <2>. QED  BY <1>1, <1>2, <2>3, <2>4 DEF Looked
<1>7. Looked'
  BY <1>5, <1>6
<1>. QED  BY <1>1, <1>2, <1>3, <1>7, MapsUntouched

\* The event of a file takes the place of its pending task.
LEMMA EnqueueKeeps ==
  ASSUME Inv, NEW k \in Keys, EnqueueForSettle(k)
  PROVE  Inv'
<1> DEFINE n == NewTask(k)
<1>1. /\ Owner[k] \in watches /\ ~stopped
      /\ generations' = [generations EXCEPT ![k] = @ + 1]
      /\ pending' = (pending \ TasksOf(k)) \cup {n}
      /\ deadlines' = (deadlines \ {DeadlineOf(t) : t \in TasksOf(k)}) \cup {DeadlineOf(n)}
      /\ accepted' = [accepted EXCEPT ![k] = @ + 1] /\ pc' = Woken
      /\ UNCHANGED <<wakeAt, hand, version, changedAt, watches, stopped, notified, now>>
  BY DEF EnqueueForSettle, files, life
<1>2. n \in Task /\ n.key = k /\ n.gen = generations[k] + 1 /\ n.seq = accepted[k] + 1 /\ n.seen = {}
  <2>1. now + Debounce[Owner[k]] \in Nat /\ generations[k] + 1 \in Nat /\ accepted[k] + 1 \in Nat
    BY OptionsAssumption, KeysAssumption DEF Inv, TypeOK
  <2>2. "" \in Reasons
    BY DEF Reasons
  <2>. QED  BY <2>1, <2>2 DEF NewTask, Task
<1>3. Held' = Held /\ OneInHand' /\ Held \subseteq Task
  BY <1>1 DEF Woken, Held, Inv, TypeOK, OneInHand, Working
<1>4. /\ generations'[k] = generations[k] + 1 /\ accepted'[k] = accepted[k] + 1
      /\ \A l \in Keys \ {k} : generations'[l] = generations[l] /\ accepted'[l] = accepted[l]
      /\ generations' \in [Keys -> Nat] /\ accepted' \in [Keys -> Nat]
  BY <1>1 DEF Inv, TypeOK
<1>5. TypeOK'
  <2>1. pending' \subseteq Task /\ deadlines' \subseteq Deadline
    BY <1>1, <1>2 DEF Inv, TypeOK, Task, Deadline, DeadlineOf
  <2>2. pc' \in {"scan", "sleep", "snooze", "check", "poll", "retry", "complete", "emit", "done"}
    BY <1>1 DEF Woken, Inv, TypeOK
  <2>. QED  BY <1>1, <1>4, <2>1, <2>2 DEF Inv, TypeOK
\* The tasks: the new one, and those of the other keys; what is held of this key is behind.
<1>6. /\ n \in pending' /\ \A t \in pending' : t # n => t \in pending /\ t.key # k
      /\ \A t \in pending : t.key # k => t \in pending'
  BY <1>1 DEF TasksOf
<1>7. \A h \in Held : h.key = k => h.gen # generations'[k] /\ h.gen <= generations'[k] /\ h.gen \in Nat
  BY <1>1, <1>3, <1>4 DEF Inv, TypeOK, Numbered, Task
<1>8. MapsAgree'
  <2>1. \A t, u \in pending' : t.key = u.key => t = u
    BY <1>2, <1>6 DEF Inv, MapsAgree
  <2>2. \A t \in pending' : IsCurrent(t)'
    BY <1>2, <1>4, <1>6 DEF Inv, TypeOK, Task, MapsAgree, IsCurrent
  <2>3. deadlines' = {DeadlineOf(t) : t \in pending'}
    <3>1. deadlines = {DeadlineOf(t) : t \in pending}
      BY DEF Inv, MapsAgree
    <3>2. \A t, u \in pending : t \in TasksOf(k) /\ DeadlineOf(t) = DeadlineOf(u) => u \in TasksOf(k)
      BY DEF DeadlineOf, TasksOf
    <3>. QED  BY <1>1, <3>1, <3>2 DEF TasksOf
  <2>4. \A h \in Held' : IsCurrent(h)' => TasksOf(h.key)' = {}
    BY <1>2, <1>3, <1>4, <1>6, <1>7 DEF Inv, Task, MapsAgree, IsCurrent, TasksOf
  <2>. QED  BY <2>1, <2>2, <2>3, <2>4 DEF MapsAgree
<1>9. NoSlotLeaks'
  BY <1>1, <1>2, <1>3, <1>4, <1>6 DEF Inv, NoSlotLeaks, ActiveKeys, IsCurrent
<1>10. Numbered'
  BY <1>1, <1>2, <1>3, <1>4, <1>6, <1>7 DEF Inv, TypeOK, Task, Numbered, IsCurrent
<1>11. Looked'
  BY <1>1, <1>2, <1>3, <1>6 DEF Inv, Looked, Observed
<1>. QED  BY <1>3, <1>5, <1>8, <1>9, <1>10, <1>11 DEF Inv

LEMMA CancelKeeps ==
  ASSUME Inv, NEW w \in Watches, CancelSettleTasksFor(w)
  PROVE  Inv'
<1>1. /\ watches' = watches \ {w}
      /\ deadlines' = {d \in deadlines : Owner[d.key] # w}
      /\ generations' = [k \in Keys |-> IF Owner[k] = w THEN 0 ELSE generations[k]]
      /\ pending' = {t \in pending : Owner[t.key] # w} /\ pc' = Woken
      /\ UNCHANGED <<stopped, notified, wakeAt, hand, version, changedAt, now, accepted>>
  BY DEF CancelSettleTasksFor, files
<1>2. Held' = Held /\ OneInHand' /\ Held \subseteq Task /\ pending \subseteq Task
  BY <1>1 DEF Woken, Held, Inv, TypeOK, OneInHand, Working
<1>3. TypeOK'
  BY <1>1 DEF Woken, Inv, TypeOK
<1>4. \A t \in pending \cup Held : t.gen > 0 /\ t.key \in Keys
  BY <1>2 DEF Inv, Numbered, Task
<1>5. MapsAgree'
  <2>1. \A t, u \in pending' : t.key = u.key => t = u
    BY <1>1 DEF Inv, MapsAgree
  <2>2. \A t \in pending' : IsCurrent(t)'
    BY <1>1, <1>4 DEF Inv, MapsAgree, IsCurrent
  <2>3. deadlines' = {DeadlineOf(t) : t \in pending'}
    <3>1. deadlines = {DeadlineOf(t) : t \in pending} /\ \A t \in pending : DeadlineOf(t).key = t.key
      BY DEF Inv, MapsAgree, DeadlineOf
    <3>. QED  BY <1>1, <3>1
  <2>4. \A h \in Held' : IsCurrent(h)' => TasksOf(h.key)' = {}
    BY <1>1, <1>2, <1>4 DEF Inv, MapsAgree, IsCurrent, TasksOf
  <2>. QED  BY <2>1, <2>2, <2>3, <2>4 DEF MapsAgree
<1>6. NoSlotLeaks'
  BY <1>1, <1>2, <1>4 DEF Inv, NoSlotLeaks, ActiveKeys, IsCurrent
<1>7. Numbered'
  BY <1>1, <1>2, <1>4 DEF Inv, Numbered, IsCurrent
<1>8. Looked'
  BY <1>1, <1>2 DEF Inv, Looked, Observed
<1>. QED  BY <1>2, <1>3, <1>5, <1>6, <1>7, <1>8 DEF Inv

\* A due deadline is that of one pending task, which changes hands.
LEMMA TakeKeeps ==
  ASSUME Inv, TakeDue
  PROVE  Inv'
<1>1. PICK d \in Earliest :
        /\ pc = "scan" /\ deadlines' = deadlines \ {d}
        /\ hand' = {t \in pending : DeadlineOf(t) = d} /\ pending' = pending \ hand'
        /\ pc' = IF hand' = {} THEN "scan" ELSE "check"
        /\ UNCHANGED <<generations, wakeAt, version, changedAt, watches, stopped, notified, now, accepted>>
  BY DEF TakeDue, files, life
<1>2. PICK h \in pending : d = DeadlineOf(h)
  BY DEF Earliest, Inv, MapsAgree
<1>3. hand' = {h} /\ h \in Task /\ pc' = "check" /\ pending' = pending \ {h}
  BY <1>1, <1>2 DEF Inv, TypeOK, MapsAgree, DeadlineOf
<1>4. Held = {} /\ Held' = {h} /\ OneInHand'
  BY <1>1, <1>3 DEF Held, OneInHand, Working
<1>5. TypeOK'
  BY <1>1, <1>3 DEF Inv, TypeOK
<1>6. MapsAgree'
  <2>1. (\A t, u \in pending' : t.key = u.key => t = u) /\ \A t \in pending' : IsCurrent(t)'
    BY <1>1, <1>3 DEF Inv, MapsAgree, IsCurrent
  <2>2. deadlines' = {DeadlineOf(t) : t \in pending'}
    <3>1. deadlines = {DeadlineOf(t) : t \in pending}
      BY DEF Inv, MapsAgree
    <3>2. \A t \in pending : DeadlineOf(t) = d <=> t = h
      BY <1>2, <1>3 DEF Inv, MapsAgree, DeadlineOf
    <3>. QED  BY <1>1, <1>3, <3>1, <3>2
  <2>3. TasksOf(h.key)' = {}
    BY <1>3 DEF Inv, MapsAgree, TasksOf
  <2>. QED  BY <1>4, <2>1, <2>2, <2>3 DEF MapsAgree
<1>7. NoSlotLeaks'
  BY <1>1, <1>3, <1>4 DEF Inv, NoSlotLeaks, ActiveKeys, IsCurrent
<1>8. Numbered' /\ Looked'
  BY <1>1, <1>3, <1>4 DEF Inv, Numbered, IsCurrent, Looked, Observed
<1>. QED  BY <1>4, <1>5, <1>6, <1>7, <1>8 DEF Inv

LEMMA CheckKeeps ==
  ASSUME Inv, CheckCurrent
  PROVE  Inv'
<1>1. /\ pc = "check"
      /\ UNCHANGED <<generations, pending, deadlines, wakeAt, version, changedAt, watches, stopped, notified, now, accepted>>
  BY DEF CheckCurrent, scheduler, files, life
<1>2. PICK h \in Task : hand = {h}
  BY <1>1 DEF Inv, OneInHand, Working
<1>3. CASE pc' = "poll" /\ hand' = hand
  <2>1. Held' = Held /\ OneInHand' /\ TypeOK'
    BY <1>1, <1>3 DEF Held, Inv, OneInHand, Working, TypeOK
  <2>2. Looked'
    BY <1>1, <2>1 DEF Inv, Looked, Observed
  <2>. QED  BY <1>1, <2>1, <2>2, MapsUntouched
\* A task that was superseded, or found the watcher stopped, is dropped.
<1>4. CASE ~(pc' = "poll" /\ hand' = hand)
  <2>1. hand' = {} /\ pc' \in {"scan", "done"} /\ (stopped \/ ~IsCurrent(h))
    BY <1>2, <1>4 DEF CheckCurrent
  <2>2. Held = {h} /\ Held' = {} /\ OneInHand' /\ TypeOK'
    BY <1>1, <1>2, <2>1 DEF Held, OneInHand, Working, Inv, TypeOK
  <2>3. MapsAgree' /\ Numbered' /\ Looked'
    BY <1>1, <2>2 DEF Inv, MapsAgree, IsCurrent, TasksOf, Numbered, Looked, Observed
  <2>4. NoSlotLeaks'
    BY <1>1, <2>1, <2>2 DEF Inv, NoSlotLeaks, ActiveKeys, IsCurrent
  <2>. QED  BY <2>2, <2>3, <2>4 DEF Inv
<1>. QED  BY <1>3, <1>4

\* A look at the file leaves the task its key and numbers.
LEMMA PollEffect ==
  ASSUME Inv, PollSettleTask
  PROVE  /\ pc = "poll"
         /\ UNCHANGED <<generations, pending, deadlines, wakeAt, version, changedAt, watches, stopped, notified, now, accepted>>
         /\ \E t, u \in Task :
              /\ hand = {t} /\ hand' = {u} /\ u.key = t.key /\ u.gen = t.gen /\ u.seq = t.seq
              /\ \/ u.seen = t.seen /\ u.stableSince = t.stableSince
                 \/ u.seen = {version[t.key]} /\ u.stableSince = now /\ version[t.key] > 0
              /\ \/ pc' = "retry"
                 \/ /\ pc' = "complete"
                    /\ u.reason = "ready" =>
                         t.seen = {version[t.key]} /\ now >= t.stableSince + StableFor[Owner[t.key]]
<1>1. /\ pc = "poll"
      /\ UNCHANGED <<generations, pending, deadlines, wakeAt, version, changedAt, watches, stopped, notified, now, accepted>>
  BY DEF PollSettleTask, scheduler, files, life
<1>2. PICK t \in Task : hand = {t}
  BY <1>1 DEF Inv, OneInHand, Working
<1>3. /\ t.key \in Keys /\ version[t.key] \in Nat /\ now \in Nat /\ Owner[t.key] \in Watches
      /\ t.stableSince \in Nat /\ StableFor[Owner[t.key]] \in Nat /\ t.seen \subseteq Nat
  BY KeysAssumption, OptionsAssumption DEF Inv, TypeOK, Task
<1>4. Armed(t) \subseteq Nat
  BY <1>3, OptionsAssumption DEF Armed, Task
<1>5. NextLook(Armed(t)) \in Nat
  BY <1>3, <1>4, OptionsAssumption DEF NextLook
<1>6. ASSUME NEW r \in {"debounced", "timeout", "unreadable", "ready"}, Verdict(t, r)
      PROVE  \E u \in Task :
               /\ hand' = {u} /\ u.key = t.key /\ u.gen = t.gen /\ u.seq = t.seq
               /\ u.seen = t.seen /\ u.stableSince = t.stableSince /\ pc' = "complete" /\ u.reason = r
  <2>1. [t EXCEPT !.reason = r] \in Task
    BY DEF Task, Reasons
  <2>. QED  BY <1>6, <2>1 DEF Verdict, Task
<1>7. ASSUME NEW s \in Nat, LookAgain(t, s)
      PROVE  \E u \in Task :
               /\ hand' = {u} /\ u.key = t.key /\ u.gen = t.gen /\ u.seq = t.seq
               /\ u.seen = {version[t.key]} /\ u.stableSince = s /\ pc' = "retry"
  <2> DEFINE u == [t EXCEPT !.timeout = Armed(t), !.seen = {version[t.key]},
                            !.stableSince = s, !.nextCheck = NextLook(Armed(t))]
  <2>1. u \in Task
    BY <1>3, <1>4, <1>5 DEF Task
  <2>. QED  BY <1>7, <2>1 DEF LookAgain, Task
<1>8. \/ pc' = "retry" /\ hand' = hand
      \/ \E r \in {"debounced", "timeout", "unreadable"} : Verdict(t, r)
      \/ version[t.key] # 0 /\ t.seen # {version[t.key]} /\ LookAgain(t, now)
      \/ t.seen = {version[t.key]} /\ LookAgain(t, t.stableSince)
      \/ t.seen = {version[t.key]} /\ ~(now < t.stableSince + StableFor[Owner[t.key]]) /\ Verdict(t, "ready")
  BY <1>2 DEF PollSettleTask
<1>. QED
  <2>1. CASE pc' = "retry" /\ hand' = hand
    BY <1>1, <1>2, <2>1
  <2>2. CASE \E r \in {"debounced", "timeout", "unreadable"} : Verdict(t, r)
    BY <1>1, <1>2, <1>6, <2>2
  <2>3. CASE version[t.key] # 0 /\ t.seen # {version[t.key]} /\ LookAgain(t, now)
    BY <1>1, <1>2, <1>3, <1>7, <2>3
  <2>4. CASE t.seen = {version[t.key]} /\ LookAgain(t, t.stableSince)
    <3>1. PICK u \in Task :
            /\ hand' = {u} /\ u.key = t.key /\ u.gen = t.gen /\ u.seq = t.seq
            /\ u.seen = {version[t.key]} /\ u.stableSince = t.stableSince /\ pc' = "retry"
      BY <1>3, <1>7, <2>4
    <3>2. u.seen = t.seen
      BY <2>4, <3>1
    <3>. QED  BY <1>1, <1>2, <3>1, <3>2
  <2>5. CASE t.seen = {version[t.key]} /\ ~(now < t.stableSince + StableFor[Owner[t.key]]) /\ Verdict(t, "ready")
    <3>1. PICK u \in Task :
            /\ hand' = {u} /\ u.key = t.key /\ u.gen = t.gen /\ u.seq = t.seq
            /\ u.seen = t.seen /\ u.stableSince = t.stableSince /\ pc' = "complete"
      BY <1>6, <2>5
    <3>2. now >= t.stableSince + StableFor[Owner[t.key]]
      BY <1>3, <2>5
    <3>. QED  BY <1>1, <1>2, <2>5, <3>1, <3>2
  <2>. QED  BY <1>8, <2>1, <2>2, <2>3, <2>4, <2>5

LEMMA PollKeeps ==
  ASSUME Inv, PollSettleTask
  PROVE  Inv'
<1>1. /\ pc = "poll" /\ pc' \in {"retry", "complete"}
      /\ UNCHANGED <<generations, pending, deadlines, wakeAt, version, changedAt, watches, stopped, notified, now, accepted>>
  BY PollEffect
<1>2. PICK t, u \in Task :
              /\ hand = {t} /\ hand' = {u} /\ u.key = t.key /\ u.gen = t.gen /\ u.seq = t.seq
              /\ \/ u.seen = t.seen /\ u.stableSince = t.stableSince
                 \/ u.seen = {version[t.key]} /\ u.stableSince = now /\ version[t.key] > 0
  BY PollEffect
<1>3. Held = {t} /\ Held' = {u} /\ OneInHand' /\ TypeOK'
  BY <1>1, <1>2 DEF Held, OneInHand, Working, Inv, TypeOK
<1>4. MapsAgree' /\ Numbered'
  BY <1>1, <1>2, <1>3 DEF Inv, MapsAgree, Numbered, IsCurrent, TasksOf
<1>5. NoSlotLeaks'
  BY <1>1, <1>2, <1>3 DEF Inv, NoSlotLeaks, ActiveKeys, IsCurrent
<1>6. Looked'
  <2>1. Observed(t) /\ changedAt[t.key] <= now /\ version[t.key] \in Nat
    BY <1>3 DEF Inv, Looked, TypeOK, Task
  <2>2. Observed(u)'
    BY <1>1, <1>2, <2>1 DEF Observed
  <2>. QED  BY <1>1, <1>3, <2>2 DEF Inv, Looked, Observed
<1>. QED  BY <1>3, <1>4, <1>5, <1>6 DEF Inv

\* The completing section takes the generation of a key whose only task it holds.
LEMMA CompleteKeeps ==
  ASSUME Inv, Complete
  PROVE  Inv'
<1>1. pc = "complete" /\ UNCHANGED <<wakeAt, version, changedAt, watches, stopped, notified, now, accepted, deadlines>>
  BY DEF Complete, scheduler, files, life
<1>2. PICK h \in Task : hand = {h}
  BY <1>1 DEF Inv, OneInHand, Working
<1>3. Held = {h} /\ h.key \in Keys
  BY <1>1, <1>2 DEF Held, Task
<1>4. CASE ~stopped /\ IsCurrent(h)
  <2>1. TasksOf(h.key) = {}
    BY <1>3, <1>4 DEF Inv, MapsAgree
  <2>2. generations' = [generations EXCEPT ![h.key] = 0] /\ pending' = pending /\ pc' = "emit" /\ hand' = hand
    BY <1>2, <1>4, <2>1 DEF Complete
  <2>3. Held' = {} /\ OneInHand' /\ TypeOK'
    BY <1>1, <2>2 DEF Held, OneInHand, Working, Inv, TypeOK
  <2>4. generations'[h.key] = 0 /\ \A k \in Keys \ {h.key} : generations'[k] = generations[k]
    BY <1>3, <2>2 DEF Inv, TypeOK
  <2>5. \A t \in pending : t.key \in Keys \ {h.key}
    BY <2>1 DEF TasksOf, Inv, TypeOK, Task
  <2>6. MapsAgree'
    BY <1>1, <2>2, <2>3, <2>4, <2>5 DEF Inv, MapsAgree, IsCurrent
  <2>7. Numbered' /\ Looked'
    BY <1>1, <2>2, <2>3, <2>4, <2>5 DEF Inv, Numbered, IsCurrent, Looked, Observed
  <2>8. NoSlotLeaks'
    BY <1>1, <1>3, <2>2, <2>3, <2>4 DEF Inv, NoSlotLeaks, ActiveKeys, IsCurrent
  <2>. QED  BY <2>3, <2>6, <2>7, <2>8 DEF Inv
<1>5. CASE stopped \/ ~IsCurrent(h)
  <2>1. hand' = {} /\ pc' = "scan" /\ UNCHANGED <<generations, pending>>
    BY <1>2, <1>5 DEF Complete, scheduler
  <2>2. Held' = {} /\ OneInHand' /\ TypeOK'
    BY <1>1, <2>1 DEF Held, OneInHand, Working, Inv, TypeOK
  <2>3. MapsAgree' /\ Numbered' /\ Looked'
    BY <1>1, <2>1, <2>2 DEF Inv, MapsAgree, IsCurrent, TasksOf, Numbered, Looked, Observed
  <2>4. NoSlotLeaks'
    BY <1>1, <1>3, <1>5, <2>1, <2>2 DEF Inv, NoSlotLeaks, ActiveKeys, IsCurrent
  <2>. QED  BY <2>2, <2>3, <2>4 DEF Inv
<1>. QED  BY <1>4, <1>5

\* A task that goes back finds its key free.
LEMMA PutBackKeeps ==
  ASSUME Inv, PutBack
  PROVE  Inv'
<1>1. /\ pc = "retry" /\ pc' = "scan" /\ hand' = {}
      /\ UNCHANGED <<generations, wakeAt, version, changedAt, watches, stopped, notified, now, accepted>>
  BY DEF PutBack, files, life
<1>2. PICK h \in Task : hand = {h}
  BY <1>1 DEF Inv, OneInHand, Working
<1>3. Held = {h} /\ Held' = {} /\ OneInHand' /\ h.key \in Keys /\ DeadlineOf(h) \in Deadline
  BY <1>1, <1>2 DEF Held, OneInHand, Working, Task, Deadline, DeadlineOf
<1>4. CASE ~stopped /\ IsCurrent(h)
  <2>1. TasksOf(h.key) = {}
    BY <1>3, <1>4 DEF Inv, MapsAgree
  <2>2. pending' = pending \cup {h} /\ deadlines' = deadlines \cup {DeadlineOf(h)}
    <3>1. {t \in pending : \E g \in hand : t.key = g.key} = {}
      BY <1>2, <2>1 DEF TasksOf
    <3>2. /\ pending' = (pending \ {}) \cup hand
          /\ deadlines' = (deadlines \ {DeadlineOf(t) : t \in {}}) \cup {DeadlineOf(t) : t \in hand}
      BY <1>2, <1>4, <3>1 DEF PutBack
    <3>. QED  BY <1>2, <3>2
  <2>3. TypeOK'
    BY <1>1, <1>3, <2>2 DEF Inv, TypeOK
  <2>4. MapsAgree'
    <3>1. \A t, u \in pending' : t.key = u.key => t = u
      BY <2>1, <2>2 DEF Inv, MapsAgree, TasksOf
    <3>2. \A t \in pending' : IsCurrent(t)'
      BY <1>1, <1>4, <2>2 DEF Inv, MapsAgree, IsCurrent
    <3>3. deadlines' = {DeadlineOf(t) : t \in pending'}
      BY <2>2 DEF Inv, MapsAgree
    <3>. QED  BY <1>3, <3>1, <3>2, <3>3 DEF MapsAgree
  <2>5. NoSlotLeaks'
    BY <1>1, <1>3, <2>2 DEF Inv, NoSlotLeaks, ActiveKeys, IsCurrent
  <2>6. Numbered' /\ Looked'
    BY <1>1, <1>3, <2>2 DEF Inv, Numbered, IsCurrent, Looked, Observed
  <2>. QED  BY <1>3, <2>3, <2>4, <2>5, <2>6 DEF Inv
<1>5. CASE stopped \/ ~IsCurrent(h)
  <2>1. UNCHANGED <<pending, deadlines>>
    BY <1>2, <1>5 DEF PutBack
  <2>2. TypeOK'
    BY <1>1, <2>1 DEF Inv, TypeOK
  <2>3. MapsAgree' /\ Numbered' /\ Looked'
    BY <1>1, <1>3, <2>1 DEF Inv, MapsAgree, IsCurrent, TasksOf, Numbered, Looked, Observed
  <2>4. NoSlotLeaks'
    BY <1>1, <1>3, <1>5, <2>1 DEF Inv, NoSlotLeaks, ActiveKeys, IsCurrent
  <2>. QED  BY <1>3, <2>2, <2>3, <2>4 DEF Inv
<1>. QED  BY <1>4, <1>5

LEMMA InvStep == Inv /\ [Next]_vars => Inv'
<1> SUFFICES ASSUME Inv, [Next]_vars PROVE Inv'
  OBVIOUS
<1>1. CASE UNCHANGED vars \/ Stop \/ StopNotifies
  BY <1>1, QuietStepsKeep
<1>2. CASE WorkerStep
  BY <1>2, QuietStepsKeep, TakeKeeps, CheckKeeps, PollKeeps, CompleteKeeps, PutBackKeeps DEF WorkerStep
<1>3. CASE Tick \/ \E k \in Keys : EnqueueForSettle(k) \/ Write(k) \/ Delete(k)
  BY <1>3, EnqueueKeeps, EnvironmentKeeps
<1>4. CASE \E w \in Watches : CancelSettleTasksFor(w)
  BY <1>4, CancelKeeps
<1>. QED  BY <1>1, <1>2, <1>3, <1>4 DEF Next
-----------------------------------------------------------------------------
\* Inv holds in every state: it is what the theorems below take from the past.
THEOREM InvHolds == Spec => []Inv
BY InitInv, InvStep, PTL DEF Spec

\* Every variable of the scheduler keeps its type.
THEOREM TypeCorrect == Spec => []TypeOK
<1>1. Inv => TypeOK
  BY DEF Inv
<1>. QED  BY <1>1, InvHolds, PTL

\* Between any two critical sections the three maps tell one story
\* (pending_settle_tasks_, settle_deadlines_, settle_generations_).
THEOREM MapsAlwaysAgree == Spec => []MapsAgree
<1>1. Inv => MapsAgree
  BY DEF Inv
<1>. QED  BY <1>1, InvHolds, PTL

\* A key counts against max_pending_paths only while a task stands for it.
THEOREM SlotsDoNotLeak == Spec => []NoSlotLeaks
<1>1. Inv => NoSlotLeaks
  BY DEF Inv
<1>. QED  BY <1>1, InvHolds, PTL

\* The completing section passes on only the last event of a file whose watch
\* is there (complete_settle_task_if_current).
THEOREM SettledStandsForLatest == Spec => SettledIsLatest
<1>1. Inv /\ [Next]_vars =>
        [pc = "complete" /\ pc' = "emit" =>
           \A t \in hand : t.seq = accepted[t.key] /\ Owner[t.key] \in watches]_vars
  <2> SUFFICES ASSUME Inv, [Next]_vars, pc = "complete", pc' = "emit", NEW t \in hand
               PROVE  t.seq = accepted[t.key] /\ Owner[t.key] \in watches
    OBVIOUS
  <2>1. PICK h \in Task : hand = {h}
    BY DEF Inv, OneInHand, Working
  <2>2. Complete
    BY DEF Next, WorkerStep, Sleep, SnoozeUntilDeadline, DeadlineWakes, TakeDue, CheckCurrent, PollSettleTask, Emit,
       PutBack, WorkerExits, EnqueueForSettle, Write, Delete, CancelSettleTasksFor, Stop, StopNotifies, Tick, Woken,
       worker, vars
  <2>3. IsCurrent(t) /\ t \in Held /\ t \in Task
    BY <2>1, <2>2 DEF Complete, Held
  <2>4. t.seq = accepted[t.key] /\ t.key \in ActiveKeys
    BY <2>3 DEF Inv, Numbered, ActiveKeys, IsCurrent, Task
  <2>. QED  BY <2>4 DEF Inv, NoSlotLeaks
<1>. QED  BY <1>1, InvHolds, PTL DEF Spec, SettledIsLatest

\* "File size and mtime are stable" is said only of a file that has kept both
\* for stable_for (poll_settle_task).
THEOREM ReadyFilesAreQuiet == Spec => ReadyMeansQuiet
<1>1. Inv /\ [Next]_vars =>
        [pc = "poll" /\ pc' = "complete" =>
           \A t \in hand' : t.reason = "ready" => now >= changedAt[t.key] + StableFor[Owner[t.key]]]_vars
  <2> SUFFICES ASSUME Inv, [Next]_vars, pc = "poll", pc' = "complete", NEW t \in hand', t.reason = "ready"
               PROVE  now >= changedAt[t.key] + StableFor[Owner[t.key]]
    OBVIOUS
  <2>1. PollSettleTask
    BY DEF Next, WorkerStep, Sleep, SnoozeUntilDeadline, DeadlineWakes, TakeDue, CheckCurrent, Complete, Emit,
       PutBack, WorkerExits, EnqueueForSettle, Write, Delete, CancelSettleTasksFor, Stop, StopNotifies, Tick, Woken,
       worker, vars
  <2>2. PICK h \in Task :
          /\ hand = {h} /\ t.key = h.key
          /\ h.seen = {version[h.key]} /\ now >= h.stableSince + StableFor[Owner[h.key]]
    BY <2>1, PollEffect
  <2>3. Observed(h)
    BY <2>2 DEF Inv, Looked, Held
  <2>4. changedAt[h.key] <= h.stableSince /\ changedAt[h.key] \in Nat /\ h.stableSince \in Nat /\ now \in Nat
    BY <2>2, <2>3 DEF Observed, Inv, TypeOK, Task
  <2>5. StableFor[Owner[h.key]] \in Nat
    BY KeysAssumption, OptionsAssumption DEF Task
  <2>. QED  BY <2>2, <2>4, <2>5
<1>. QED  BY <1>1, InvHolds, PTL DEF Spec, ReadyMeansQuiet
=============================================================================
