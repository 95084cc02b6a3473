------------------------- MODULE InotifyBackendProofs -------------------------
(***************************************************************************)
(* Theorems about InotifyBackend for every tree, every set of watches and  *)
(* every depth of its queues.                                              *)
(***************************************************************************)
EXTENDS InotifyBackend, SequenceTheorems, FiniteSetTheorems, WellFoundedInduction, TLAPS

\* Every set of natural numbers that is not empty has a least one.
LEMMA LeastNumber ==
  ASSUME NEW S, S \subseteq Nat, S # {}
  PROVE  \E m \in S : \A n \in S : m <= n
<1> DEFINE Less == OpToRel(<, Nat)
<1>1. \A m, n \in Nat : m < n => <<m, n>> \in Less
  BY DEF OpToRel
<1>. HIDE DEF Less
<1>2. IsWellFoundedOn(Less, Nat)
  BY NatLessThanWellFounded DEF Less
<1>3. PICK m \in S : \A n \in S : ~ (<<n, m>> \in Less)
  BY <1>2, WFMin
<1>4. \A n \in S : ~ (n < m)
  BY <1>1, <1>3
<1>. QED  BY <1>4

\* Induction up to n, over the set of the numbers a claim holds for.
LEMMA Induction ==
  ASSUME NEW S, NEW n \in Nat, 0 \in S, \A i \in 0 .. n - 1 : i \in S => i + 1 \in S
  PROVE  \A i \in 0 .. n : i \in S
<1> DEFINE Bad == {i \in 0 .. n : i \notin S}
<1> SUFFICES ASSUME Bad # {} PROVE FALSE
  OBVIOUS
<1>1. PICK k \in Bad : \A i \in Bad : k <= i
  <2>1. Bad \subseteq Nat
    OBVIOUS
  <2>. HIDE DEF Bad
  <2>. QED BY <2>1, LeastNumber
<1>2. k # 0 /\ k - 1 \in 0 .. n - 1 /\ k - 1 \notin Bad
  BY <1>1
<1>3. k - 1 \in S /\ k - 1 + 1 = k
  BY <1>2
<1>. QED  BY <1>1, <1>2, <1>3

KeptUpTo(s, S, f, n) ==
  f = [i \in 0 .. n |-> IF i = 0 THEN <<>>
                        ELSE IF s[i] \in S THEN Append(f[i - 1], s[i]) ELSE f[i - 1]]

LEMMA KeptExists ==
  ASSUME NEW s, NEW S, Len(s) \in Nat
  PROVE  \E f : KeptUpTo(s, S, f, Len(s))
<1> DEFINE Good == {n \in Nat : \E f : KeptUpTo(s, S, f, n)}
<1>1. 0 \in Good
  <2>1. KeptUpTo(s, S, [i \in 0 .. 0 |-> <<>>], 0)
    BY DEF KeptUpTo
  <2>. QED BY <2>1
<1>2. ASSUME NEW n \in 0 .. Len(s) - 1, n \in Good PROVE n + 1 \in Good
  <2>1. PICK f : KeptUpTo(s, S, f, n)
    BY <1>2
  <2> DEFINE g == [i \in 0 .. n + 1 |-> IF i <= n THEN f[i]
                   ELSE IF s[n + 1] \in S THEN Append(f[n], s[n + 1]) ELSE f[n]]
  <2>2. \A i \in 0 .. n : f[i] = IF i = 0 THEN <<>> ELSE IF s[i] \in S THEN Append(f[i - 1], s[i]) ELSE f[i - 1]
    BY <2>1 DEF KeptUpTo
  <2>3. \A i \in 0 .. n + 1 : g[i] = IF i = 0 THEN <<>> ELSE IF s[i] \in S THEN Append(g[i - 1], s[i]) ELSE g[i - 1]
    <3> SUFFICES ASSUME NEW i \in 0 .. n + 1
                 PROVE g[i] = IF i = 0 THEN <<>> ELSE IF s[i] \in S THEN Append(g[i - 1], s[i]) ELSE g[i - 1]
      OBVIOUS
    <3>1. CASE i = 0
      BY <3>1, <2>2
    <3>2. CASE i \in 1 .. n
      BY <3>2, <2>2
    <3>3. CASE i = n + 1
      BY <3>3
    <3>. QED BY <3>1, <3>2, <3>3
  <2>4. KeptUpTo(s, S, g, n + 1)
    BY <2>3 DEF KeptUpTo
  <2>. QED BY <2>4
<1>. HIDE DEF Good
<1>3. Len(s) \in Good
  <2>1. \A i \in 0 .. Len(s) : i \in Good
    BY <1>1, <1>2, Induction
  <2>. QED  BY <2>1
<1>. QED BY <1>3 DEF Good

LEMMA RangeOfAppend ==
  ASSUME NEW T, NEW q \in Seq(T), NEW x \in T
  PROVE  /\ Append(q, x) \in Seq(T)
         /\ Range(Append(q, x)) = Range(q) \cup {x}
<1>1. DOMAIN Append(q, x) = 1 .. Len(q) + 1 /\ DOMAIN q = 1 .. Len(q)
  OBVIOUS
<1>2. /\ Append(q, x)[Len(q) + 1] = x
      /\ \A i \in 1 .. Len(q) : Append(q, x)[i] = q[i]
  OBVIOUS
<1>3. Len(q) \in Nat
  OBVIOUS
<1>. QED  BY <1>1, <1>2, <1>3 DEF Range

\* What a filter leaves is a sequence of the same kind, and holds exactly the
\* elements it lets through.
LEMMA KeepInRange ==
  ASSUME NEW T, NEW s \in Seq(T), NEW S
  PROVE  /\ KeepIn(s, S) \in Seq(T)
         /\ Range(KeepIn(s, S)) = Range(s) \cap S
<1>1. PICK kept : KeptUpTo(s, S, kept, Len(s)) /\ KeepIn(s, S) = kept[Len(s)]
  <2>1. \E f : KeptUpTo(s, S, f, Len(s))
    <3>1. Len(s) \in Nat
      OBVIOUS
    <3>. QED  BY <3>1, KeptExists
  <2>2. KeepIn(s, S) = (CHOOSE f : KeptUpTo(s, S, f, Len(s)))[Len(s)]
    BY Zenon DEF KeepIn, KeptUpTo
  <2>. QED  BY <2>1, <2>2
<1> DEFINE Part(i) == {s[j] : j \in 1 .. i} \cap S
           Good == {i \in 0 .. Len(s) : kept[i] \in Seq(T) /\ Range(kept[i]) = Part(i)}
<1>3. /\ kept[0] = <<>>
      /\ \A i \in 1 .. Len(s) : kept[i] = IF s[i] \in S THEN Append(kept[i - 1], s[i]) ELSE kept[i - 1]
  <2>1. kept = [i \in 0 .. Len(s) |-> IF i = 0 THEN <<>>
               ELSE IF s[i] \in S THEN Append(kept[i - 1], s[i]) ELSE kept[i - 1]]
    BY <1>1 DEF KeptUpTo
  <2>2. Len(s) \in Nat
    OBVIOUS
  <2>3. \A i \in 0 .. Len(s) : kept[i] = IF i = 0 THEN <<>>
               ELSE IF s[i] \in S THEN Append(kept[i - 1], s[i]) ELSE kept[i - 1]
    BY <2>1, Zenon
  <2>. QED  BY <2>2, <2>3
<1>4. 0 \in Good
  <2>1. kept[0] \in Seq(T) /\ Range(kept[0]) = {}
    BY <1>3, EmptySeq DEF Range
  <2>2. 0 \in 0 .. Len(s) /\ Part(0) = {}
    OBVIOUS
  <2>. QED  BY <2>1, <2>2
<1>5. ASSUME NEW i \in 0 .. Len(s) - 1, i \in Good PROVE i + 1 \in Good
  <2>1. kept[i + 1] = IF s[i + 1] \in S THEN Append(kept[i], s[i + 1]) ELSE kept[i]
    BY <1>3
  <2>2. kept[i] \in Seq(T) /\ s[i + 1] \in T /\ Range(kept[i]) = Part(i)
    BY <1>5
  <2>3. Part(i + 1) = Part(i) \cup ({s[i + 1]} \cap S)
    OBVIOUS
  <2>4. /\ Append(kept[i], s[i + 1]) \in Seq(T)
        /\ Range(Append(kept[i], s[i + 1])) = Range(kept[i]) \cup {s[i + 1]}
    BY <2>2, RangeOfAppend
  <2>5. i + 1 \in 0 .. Len(s)
    OBVIOUS
  <2>6. CASE s[i + 1] \in S
    <3>1. kept[i + 1] \in Seq(T) /\ Range(kept[i + 1]) = Part(i + 1)
      BY <2>1, <2>2, <2>3, <2>4, <2>6
    <3>. QED  BY <3>1, <2>5
  <2>7. CASE s[i + 1] \notin S
    <3>1. kept[i + 1] \in Seq(T) /\ Range(kept[i + 1]) = Part(i + 1)
      BY <2>1, <2>2, <2>3, <2>7
    <3>. QED  BY <3>1, <2>5
  <2>. QED  BY <2>6, <2>7
<1>6. Len(s) \in Good
  <2>. HIDE DEF Good
  <2>1. Len(s) \in Nat /\ Len(s) \in 0 .. Len(s)
    OBVIOUS
  <2>. QED  BY <1>4, <1>5, <2>1, Induction
<1>7. Range(s) = {s[j] : j \in 1 .. Len(s)}
  BY DEF Range
<1>. QED  BY <1>1, <1>6, <1>7

LEMMA RangeOfEmpty == Range(<<>>) = {}
BY DEF Range

LEMMA RangeOfCons ==
  ASSUME NEW T, NEW q \in Seq(T), NEW x \in T
  PROVE  /\ <<x>> \o q \in Seq(T)
         /\ Range(<<x>> \o q) = {x} \cup Range(q)
<1>. DEFINE c == <<x>> \o q
<1>1. Len(q) \in Nat /\ DOMAIN q = 1 .. Len(q)
  OBVIOUS
<1>2. c \in Seq(T) /\ Len(c) = Len(q) + 1 /\ DOMAIN c = 1 .. Len(q) + 1
  OBVIOUS
<1>3. /\ c[1] = x
      /\ \A i \in 1 .. Len(q) : c[i + 1] = q[i]
  OBVIOUS
<1>4. \A i \in 2 .. Len(q) + 1 : c[i] = q[i - 1] /\ i - 1 \in 1 .. Len(q)
  BY <1>1, <1>3
<1>. HIDE DEF c
<1>5. Range(c) \subseteq {x} \cup Range(q)
  BY <1>1, <1>2, <1>3, <1>4 DEF Range
<1>6. {x} \cup Range(q) \subseteq Range(c)
  BY <1>1, <1>2, <1>3 DEF Range
<1>. QED  BY <1>2, <1>5, <1>6 DEF c

LEMMA RangeOfTail ==
  ASSUME NEW T, NEW q \in Seq(T), q # <<>>
  PROVE  /\ Head(q) \in T /\ Tail(q) \in Seq(T)
         /\ Range(q) = {Head(q)} \cup Range(Tail(q))
         /\ Range(q) \subseteq T
<1>1. Len(q) \in Nat \ {0} /\ DOMAIN q = 1 .. Len(q) /\ Head(q) = q[1] /\ Head(q) \in T
  OBVIOUS
<1>2. Tail(q) \in Seq(T) /\ DOMAIN Tail(q) = 1 .. Len(q) - 1
  OBVIOUS
<1>3. \A i \in 1 .. Len(q) - 1 : Tail(q)[i] = q[i + 1]
  OBVIOUS
<1>4. \A i \in 1 .. Len(q) : i = 1 \/ (i - 1 \in 1 .. Len(q) - 1 /\ Tail(q)[i - 1] = q[i])
  BY <1>1, <1>3
<1>5. Range(q) \subseteq {Head(q)} \cup Range(Tail(q))
  BY <1>1, <1>2, <1>4 DEF Range
<1>6. {Head(q)} \cup Range(Tail(q)) \subseteq Range(q)
  <2>1. Head(q) \in Range(q)
    BY <1>1 DEF Range
  <2>2. Range(Tail(q)) \subseteq Range(q)
    BY <1>1, <1>2, <1>3 DEF Range
  <2>. QED  BY <2>1, <2>2
<1>7. Range(q) \subseteq T
  BY <1>1 DEF Range
<1>. QED  BY <1>1, <1>2, <1>5, <1>6, <1>7

LEMMA RangeType ==
  ASSUME NEW T, NEW q \in Seq(T)
  PROVE  Range(q) \subseteq T
BY DEF Range

LEMMA FrontProperties ==
  ASSUME NEW T, NEW q \in Seq(T), q # <<>>
  PROVE  /\ Front(q) \in Seq(T) /\ Len(q) \in Nat \ {0} /\ Len(Front(q)) = Len(q) - 1
         /\ \A i \in 1 .. Len(q) - 1 : Front(q)[i] = q[i]
<1>1. Len(q) \in Nat \ {0} /\ q = [i \in 1 .. Len(q) |-> q[i]]
  OBVIOUS
<1>2. Front(q) \in Seq(T) /\ Len(Front(q)) = Len(q) - 1
  BY <1>1 DEF Front
<1>3. \A i \in 1 .. Len(q) - 1 : Front(q)[i] = q[i]
  BY <1>1 DEF Front
<1>. QED  BY <1>1, <1>2, <1>3

\* A path that is not empty is its directory followed by its name.
LEMMA PathOfName ==
  ASSUME NEW T, NEW q \in Seq(T), q # <<>>
  PROVE  Append(Front(q), Last(q)) = q
<1>1. /\ Front(q) \in Seq(T) /\ Len(q) \in Nat \ {0} /\ Len(Front(q)) = Len(q) - 1
      /\ \A i \in 1 .. Len(q) - 1 : Front(q)[i] = q[i]
  BY FrontProperties
<1>4. Last(q) = q[Len(q)] /\ Last(q) \in T
  BY <1>1 DEF Last
<1>. DEFINE a == Append(Front(q), Last(q))
<1>5. a \in Seq(T) /\ Len(a) = Len(q)
  <2>1. a \in Seq(T) /\ Len(a) = Len(Front(q)) + 1
    BY <1>1, <1>4, AppendProperties
  <2>. QED  BY <1>1, <2>1
<1>6. \A i \in 1 .. Len(q) : a[i] = q[i]
  BY <1>1, <1>4
<1>. HIDE DEF a
<1>7. a = q
  BY <1>1, <1>5, <1>6, SeqEqual
<1>. QED  BY <1>7 DEF a
-----------------------------------------------------------------------------
(* Types, the places of the two workers, and what a descriptor names. *)

Raws == Range(queued) \cup Range(batch)

\* The raw worker has events of a batch only while it maps it, and an event for
\* run() only until the next one is looked for; records are copied for the event
\* at the head of the batch, from the directory that event is in.
RawPlaces ==
  /\ pc # "map" => batch = <<>> /\ todo = {} /\ mapped = <<>>
  /\ pc \notin {"map", "check"} => next = {}
  /\ \A e, f \in next : e = f
  /\ todo # {} => /\ batch # <<>> /\ Head(batch).kind # "overflow"
                  /\ \A r \in todo : r.dir = Front(Head(batch).path)
  /\ \A q \in Raws : q.kind # "overflow" => q.wd # 0 /\ q.path # <<>>

Busy == walker \notin {"idle", "done"}

\* The discovery worker has a request, a place below it and entries still to
\* visit only during its walk.
WalkPlaces ==
  /\ Busy <=> request # NoRequest
  /\ walker \in {"add", "open"} => at \in Dirs
  /\ walker \in {"idle", "look", "finish", "done"} => listed = {}
  /\ walker \in {"idle", "look", "done"} => problems = {}
  /\ Busy /\ walker # "look" => Len(request.path) <= Len(at)
  /\ \A p \in listed : Len(request.path) < Len(p)

Bound(w, d) ==
  \/ kernel[d] = w
  \/ \E r \in records : r.wd = w /\ r.dir = d
  \/ \E q \in Raws : q.wd = w /\ q.kind # "overflow" /\ Front(q.path) = d

\* A watch descriptor names one directory for good: in the kernel, in the
\* backend's tables and in the events that have not been mapped yet.
Descriptors ==
  /\ nextWd # 0
  /\ \A d \in Paths : kernel[d] < nextWd
  /\ \A r \in records : r.wd < nextWd
  /\ \A q \in Raws : q.wd < nextWd
  /\ \A w \in 1 .. nextWd - 1, d, e \in Paths : Bound(w, d) /\ Bound(w, e) => d = e

Basics == TypeOK /\ RawPlaces /\ WalkPlaces /\ Descriptors

LEMMA BasicsInit == Init => Basics
<1>. SUFFICES ASSUME Init PROVE Basics
  OBVIOUS
<1>1. Range(queued) = {} /\ Range(batch) = {}
  BY RangeOfEmpty DEF Init
<1>2. TypeOK
  BY PathsAssumption, EmptySeq DEF Init, TypeOK, Dirs, Request, NoRequest
<1>3. RawPlaces /\ WalkPlaces
  BY <1>1 DEF Init, RawPlaces, WalkPlaces, Raws, Busy
<1>4. Descriptors
  BY <1>1 DEF Init, Descriptors, Raws, Bound
<1>. QED  BY <1>2, <1>3, <1>4 DEF Basics

LEMMA SameDescriptors ==
  ASSUME Basics, UNCHANGED <<kernel, nextWd, records>>, Raws' \subseteq Raws
  PROVE  Descriptors'
<1>1. \A w, d : Bound(w, d)' => Bound(w, d)
  BY DEF Bound
<1>. QED  BY <1>1 DEF Basics, Descriptors

LEMMA SameRaw ==
  ASSUME Basics, UNCHANGED <<rawVars, queued>>
  PROVE  RawPlaces' /\ Raws' = Raws
BY DEF Basics, RawPlaces, Raws, rawVars

LEMMA SameWalk ==
  ASSUME Basics, UNCHANGED walkVars
  PROVE  WalkPlaces'
BY DEF Basics, WalkPlaces, walkVars, Busy

\* The types the lemmas below keep needing.
LEMMA Types ==
  ASSUME TypeOK
  PROVE  /\ Paths \subseteq Seq(Names) /\ <<>> \in Dirs /\ Dirs \subseteq Paths
         /\ queued \in Seq(Raw) /\ batch \in Seq(Raw) /\ mapped \in Seq(Events)
         /\ ready \in Seq(Events) /\ discovery \in Seq(Request)
         /\ Raws \subseteq Raw /\ nextWd \in Nat /\ kernel \in [Paths -> Nat]
         /\ \A p \in Paths : p # <<>> => Front(p) \in Dirs
  BY PathsAssumption, RangeType DEF TypeOK, Dirs, Raws

\* What Notify leaves in the kernel queue.
LEMMA NotifyEffect ==
  ASSUME TypeOK, NEW p \in Paths, p # <<>>, NEW kind \in {"created", "removed"}, Notify(p, kind)
  PROVE  /\ queued' \in Seq(Raw)
         /\ \A q \in Range(queued') : \/ q \in Range(queued)
                                      \/ (q.kind = "overflow" /\ q.wd = 0)
                                      \/ (q.kind = kind /\ q.path = p /\ q.wd = kernel[Front(p)] /\ q.wd # 0)
         /\ missed' \subseteq missed \cup {r.id : r \in records}
<1>. DEFINE event == [wd |-> kernel[Front(p)], kind |-> kind, path |-> p]
            overflow == [wd |-> 0, kind |-> "overflow", path |-> <<>>]
<1>1. event \in Raw /\ overflow \in Raw /\ queued \in Seq(Raw)
  BY Types DEF TypeOK, Raw
<1>2. queued' = queued \/ (queued' = Append(queued, event) /\ kernel[Front(p)] # 0)
      \/ queued' = Append(queued, overflow)
  BY DEF Notify
<1>3. /\ Append(queued, event) \in Seq(Raw) /\ Append(queued, overflow) \in Seq(Raw)
      /\ Range(Append(queued, event)) = Range(queued) \cup {event}
      /\ Range(Append(queued, overflow)) = Range(queued) \cup {overflow}
  BY <1>1, RangeOfAppend
<1>4. missed' \subseteq missed \cup {r.id : r \in records}
  BY DEF Notify
<1>5. \A q \in Range(queued') : q \in Range(queued) \/ q = overflow \/ (q = event /\ kernel[Front(p)] # 0)
  BY <1>2, <1>3
<1>6. queued' \in Seq(Raw)
  BY <1>1, <1>2, <1>3
<1>7. /\ event.wd = kernel[Front(p)] /\ event.kind = kind /\ event.path = p
      /\ overflow.wd = 0 /\ overflow.kind = "overflow"
  OBVIOUS
<1>. HIDE DEF event, overflow
<1>. QED  BY <1>4, <1>5, <1>6, <1>7

LEMMA EnvironmentKeepsBasics ==
  ASSUME Basics, NEW p \in Paths, Create(p) \/ Delete(p)
  PROVE  Basics'
<1>1. PICK kind \in {"created", "removed"} : Notify(p, kind)
  BY DEF Create, Delete
<1>2. p # <<>> /\ TypeOK
  BY DEF Create, Delete, Basics
<1>3. /\ queued' \in Seq(Raw)
      /\ \A q \in Range(queued') : \/ q \in Range(queued)
                                      \/ (q.kind = "overflow" /\ q.wd = 0)
                                   \/ (q.kind = kind /\ q.path = p /\ q.wd = kernel[Front(p)] /\ q.wd # 0)
      /\ missed' \subseteq missed \cup {r.id : r \in records}
  BY <1>1, <1>2, NotifyEffect
<1>4. /\ kernel' \in [Paths -> Nat] /\ (\A d \in Paths : kernel'[d] = kernel[d] \/ kernel'[d] = 0)
      /\ creations' \in [Paths -> Nat] /\ mishaps' \in Nat /\ tree' \subseteq Paths
      /\ UNCHANGED <<nextWd, tables, ready, discovery, overflowed, rawVars, walkVars, told, lost, known, erased>>
  <2>1. CASE Create(p)
    BY <1>2, <2>1 DEF Create, TypeOK
  <2>2. CASE Delete(p)
    <3>1. kernel' = [kernel EXCEPT ![p] = 0] /\ mishaps' = mishaps + 1
      BY <2>2 DEF Delete
    <3>2. UNCHANGED creations /\ tree' \subseteq tree
      BY <2>2 DEF Delete
    <3>3. UNCHANGED <<nextWd, tables, ready, discovery, overflowed, rawVars, walkVars, told, lost, known, erased>>
      BY <2>2 DEF Delete
    <3>. QED  BY <1>2, <3>1, <3>2, <3>3 DEF TypeOK
  <2>. QED  BY <2>1, <2>2
<1>5. TypeOK'
  <2>1. missed' \subseteq Ids
    BY <1>2, <1>3 DEF TypeOK, Record
  <2>. QED  BY <1>2, <1>3, <1>4, <2>1 DEF TypeOK, tables, rawVars, walkVars
<1>6. RawPlaces'
  BY <1>2, <1>3, <1>4 DEF Basics, RawPlaces, Raws, rawVars
<1>7. WalkPlaces'
  BY <1>4, SameWalk
<1>8. Descriptors'
  <2>1. \A w \in 1 .. nextWd - 1, d \in Paths : Bound(w, d)' => Bound(w, d)
    BY <1>2, <1>3, <1>4 DEF Bound, Raws, rawVars, tables
  <2>2. Front(p) \in Paths
    BY <1>2, Types
  <2>3. \A q \in Raws' : q.wd < nextWd
    <3>1. Descriptors /\ nextWd \in Nat
      BY <1>2, Types DEF Basics
    <3>. QED  BY <1>3, <1>4, <2>2, <3>1 DEF Descriptors, Raws, rawVars
  <2>4. \A d \in Paths : kernel'[d] < nextWd
    <3>1. Descriptors /\ nextWd \in Nat
      BY <1>2, Types DEF Basics
    <3>. QED  BY <1>4, <3>1 DEF Descriptors
  <2>. QED  BY <1>4, <2>1, <2>3, <2>4 DEF Basics, Descriptors, tables
<1>. QED  BY <1>5, <1>6, <1>7, <1>8 DEF Basics

\* What WatchThem leaves: descriptors that exist are kept, the new ones were
\* never given before and no two are equal.
LEMMA WatchThemEffect ==
  ASSUME TypeOK, nextWd # 0, NEW id, NEW ds \in SUBSET Dirs, WatchThem(id, ds)
  PROVE  /\ kernel' \in [Paths -> Nat] /\ nextWd' \in Nat /\ nextWd <= nextWd'
         /\ \A p \in Paths : \/ kernel'[p] = kernel[p]
                             \/ (kernel[p] = 0 /\ p \in ds /\ nextWd <= kernel'[p] /\ kernel'[p] < nextWd')
         /\ \A p \in ds : kernel[p] = 0 => nextWd <= kernel'[p]
         /\ \A p, q \in Paths : kernel[p] = 0 /\ kernel[q] = 0 /\ kernel'[p] = kernel'[q] /\ nextWd <= kernel'[p] => p = q
         /\ records' = records \cup {[wd |-> kernel'[d], id |-> id, dir |-> d] : d \in ds}
<1>. DEFINE fresh == {d \in ds : kernel[d] = 0}
            n == Cardinality(fresh)
<1>1. PICK order \in [fresh -> 0 .. n] :
         /\ \A d, e \in fresh : d # e => order[d] # order[e]
         /\ \A d \in fresh : order[d] < n
         /\ kernel' = [d \in Paths |-> IF d \in fresh THEN nextWd + order[d] ELSE kernel[d]]
         /\ nextWd' = nextWd + n
         /\ records' = records \cup {[wd |-> kernel'[d], id |-> id, dir |-> d] : d \in ds}
  BY DEF WatchThem
<1>2. n \in Nat
  <2>1. IsFiniteSet(fresh)
    <3>1. fresh \subseteq Paths
      BY DEF Dirs
    <3>. QED  BY <3>1, PathsAssumption, FS_Subset
  <2>. QED  BY <2>1, FS_CardinalityType
<1>. DEFINE given(d) == nextWd + order[d]
<1>3. nextWd \in Nat /\ kernel \in [Paths -> Nat] /\ ds \subseteq Paths
  BY DEF TypeOK, Dirs
<1>4. \A d \in fresh : d \in ds /\ kernel[d] = 0 /\ order[d] \in Nat /\ order[d] < n
  BY <1>1, <1>2
<1>5. \A d \in fresh : given(d) \in Nat /\ nextWd <= given(d) /\ given(d) < nextWd'
  BY <1>1, <1>2, <1>3, <1>4
<1>6. \A d, e \in fresh : given(d) = given(e) => d = e
  <2>1. \A d, e \in fresh : nextWd + order[d] = nextWd + order[e] => order[d] = order[e]
    BY <1>3, <1>4
  <2>. QED  BY <1>1, <2>1
<1>7. \A p \in Paths : kernel[p] = 0 /\ p \notin fresh => p \notin ds
  OBVIOUS
<1>8. nextWd' \in Nat /\ nextWd <= nextWd'
  BY <1>1, <1>2, <1>3
<1>. HIDE DEF fresh, n, given
<1>9. \A p \in Paths : kernel'[p] = IF p \in fresh THEN given(p) ELSE kernel[p]
  BY <1>1 DEF given
<1>10. kernel' \in [Paths -> Nat]
  <2>1. kernel' = [d \in Paths |-> kernel'[d]]
    BY <1>1
  <2>. QED  BY <2>1, <1>3, <1>5, <1>9
<1>11. \A p \in Paths : \/ kernel'[p] = kernel[p]
                        \/ (kernel[p] = 0 /\ p \in ds /\ nextWd <= kernel'[p] /\ kernel'[p] < nextWd')
  BY <1>4, <1>5, <1>9
<1>12. \A p \in ds : kernel[p] = 0 => nextWd <= kernel'[p]
  BY <1>3, <1>5, <1>7, <1>9
<1>13. ASSUME NEW p \in Paths, NEW q \in Paths,
               kernel[p] = 0 /\ kernel[q] = 0 /\ kernel'[p] = kernel'[q] /\ nextWd <= kernel'[p]
       PROVE  p = q
  <2>1. p \in fresh /\ q \in fresh
    BY <1>3, <1>9, <1>13
  <2>. QED  BY <2>1, <1>6, <1>9, <1>13
<1>. QED  BY <1>1, <1>3, <1>8, <1>10, <1>11, <1>12, <1>13

LEMMA WatchThemDescriptors ==
  ASSUME Basics, NEW id \in Ids, NEW ds \in SUBSET Dirs, WatchThem(id, ds), Raws' = Raws
  PROVE  Descriptors' /\ records' \subseteq Record
<1>. DEFINE New == {[wd |-> kernel'[d], id |-> id, dir |-> d] : d \in ds}
<1>1. TypeOK /\ Descriptors /\ nextWd # 0 /\ nextWd \in Nat
  BY Types DEF Basics, Descriptors
<1>2. /\ kernel' \in [Paths -> Nat] /\ nextWd' \in Nat /\ nextWd <= nextWd'
      /\ \A p \in Paths : \/ kernel'[p] = kernel[p]
                          \/ (kernel[p] = 0 /\ p \in ds /\ nextWd <= kernel'[p] /\ kernel'[p] < nextWd')
      /\ \A p \in ds : kernel[p] = 0 => nextWd <= kernel'[p]
      /\ \A p, q \in Paths : kernel[p] = 0 /\ kernel[q] = 0 /\ kernel'[p] = kernel'[q] /\ nextWd <= kernel'[p] => p = q
      /\ records' = records \cup New
  BY <1>1, WatchThemEffect
<1>3. \A r \in New : r.dir \in Paths /\ r.wd = kernel'[r.dir]
  BY DEF Dirs
<1>4. \A d \in Paths : kernel[d] < nextWd /\ kernel'[d] < nextWd'
  BY <1>1, <1>2, Types DEF Descriptors
<1>5. \A r \in records' : r.wd < nextWd'
  <2>1. \A r \in records : r.wd \in Nat /\ r.wd < nextWd
    BY <1>1 DEF TypeOK, Record, Descriptors
  <2>2. \A r \in New : r.wd < nextWd'
    BY <1>3, <1>4
  <2>. HIDE DEF New
  <2>. QED  BY <1>1, <1>2, <2>1, <2>2
<1>6. \A q \in Raws' : q.wd < nextWd'
  <2>1. \A q \in Raws : q.wd \in Nat /\ q.wd < nextWd
    BY <1>1, Types DEF Raw, Descriptors
  <2>. QED  BY <1>1, <1>2, <2>1
<1>. HIDE DEF New
<1>7. ASSUME NEW w \in Nat, NEW d \in Paths, Bound(w, d)' PROVE Bound(w, d) \/ (kernel[d] = 0 /\ kernel'[d] = w /\ nextWd <= w)
  <2>1. CASE \E r \in New : r.wd = w /\ r.dir = d
    <3>1. kernel'[d] = w
      BY <1>3, <2>1
    <3>2. PICK r \in New : r.wd = w /\ r.dir = d
      BY <2>1
    <3>. QED  BY <1>2, <3>1 DEF Bound
  <2>2. CASE ~ \E r \in New : r.wd = w /\ r.dir = d
    BY <1>2, <1>7, <2>2 DEF Bound
  <2>. QED  BY <2>1, <2>2
<1>8. \A w \in Nat, d \in Paths : Bound(w, d) => w < nextWd
  BY <1>1 DEF Bound, Descriptors
<1>9. ASSUME NEW w \in 1 .. nextWd' - 1, NEW d \in Paths, NEW e \in Paths, Bound(w, d)', Bound(w, e)' PROVE d = e
  <2>1. w \in Nat /\ w # 0
    BY <1>2
  <2>2. CASE w < nextWd
    <3>1. Bound(w, d) /\ Bound(w, e)
      BY <1>1, <1>7, <1>9, <2>1, <2>2
    <3>2. w \in 1 .. nextWd - 1
      BY <1>1, <2>1, <2>2
    <3>. QED  BY <1>1, <3>1, <3>2 DEF Descriptors
  <2>3. CASE ~ (w < nextWd)
    <3>1. ~ Bound(w, d) /\ ~ Bound(w, e)
      BY <1>8, <2>1, <2>3
    <3>2. kernel[d] = 0 /\ kernel'[d] = w /\ kernel[e] = 0 /\ kernel'[e] = w /\ nextWd <= w
      BY <1>7, <1>9, <2>1, <3>1
    <3>. QED  BY <1>2, <3>2
  <2>. QED  BY <2>2, <2>3
<1>10. nextWd' # 0
  BY <1>1, <1>2
<1>11. Descriptors'
  BY <1>4, <1>5, <1>6, <1>9, <1>10 DEF Descriptors
<1>12. records' \subseteq Record
  <2>1. \A d \in ds : kernel'[d] \in Nat \ {0}
    <3>1. \A d \in ds : d \in Paths
      BY DEF Dirs
    <3>. QED  BY <1>1, <1>2, <3>1
  <2>2. New \subseteq Record
    BY <2>1 DEF New, Record
  <2>. QED  BY <1>1, <1>2, <2>2 DEF TypeOK
<1>. QED  BY <1>11, <1>12

LEMMA AddWatchKeepsBasics ==
  ASSUME Basics, NEW id \in Ids, AddWatch(id)
  PROVE  Basics'
<1>. DEFINE here == IF id \in Recursive THEN Under(RootOf[id]) \cap Dirs \cap tree ELSE {RootOf[id]}
<1>1. PICK ds \in SUBSET here :
        /\ mishaps' = mishaps + Cardinality(here \ ds)
        /\ WatchThem(id, ds)
        /\ active' = IF ds = {} THEN active ELSE active \cup {id}
        /\ told' = IF ds = here THEN told ELSE told \cup {id}
  BY DEF AddWatch
<1>2. /\ added' = added \cup {id} /\ known' = [known EXCEPT ![id] = tree \cap Under(RootOf[id])]
      /\ UNCHANGED <<tree, creations, queued, stage, ready, discovery, overflowed,
                     rawVars, walkVars, lost, missed, erased>>
  BY DEF AddWatch
<1>3. here \subseteq Dirs /\ Dirs \subseteq Paths /\ here \in SUBSET Dirs /\ ds \in SUBSET Dirs
  BY <1>1, OptionsAssumption DEF Dirs
<1>4. Raws' = Raws /\ RawPlaces'
  BY <1>2, SameRaw
<1>5. WalkPlaces'
  BY <1>2, SameWalk
<1>6. Descriptors' /\ records' \subseteq Record
  BY <1>1, <1>3, <1>4, WatchThemDescriptors
<1>7. kernel' \in [Paths -> Nat] /\ nextWd' \in Nat
  <2>1. TypeOK /\ nextWd # 0
    BY DEF Basics, Descriptors
  <2>. QED  BY <1>1, <1>3, <2>1, WatchThemEffect
<1>8. mishaps' \in Nat
  <2>1. IsFiniteSet(here \ ds)
    BY <1>3, PathsAssumption, FS_Subset
  <2>2. Cardinality(here \ ds) \in Nat
    BY <2>1, FS_CardinalityType
  <2>. QED  BY <1>1, <2>2 DEF Basics, TypeOK
<1>9. known' \in [Recursive -> SUBSET Paths]
  BY <1>2 DEF Basics, TypeOK
<1>10. active' \subseteq added' /\ added' \subseteq Ids /\ told' \subseteq Ids
  BY <1>1, <1>2 DEF Basics, TypeOK
<1>11. TypeOK'
  BY <1>2, <1>6, <1>7, <1>8, <1>9, <1>10 DEF Basics, TypeOK, rawVars, walkVars
<1>. QED  BY <1>4, <1>5, <1>6, <1>11 DEF Basics

\* What the removal of a watch leaves.
LEMMA RemoveWatchEffect ==
  ASSUME TypeOK, NEW id \in Ids, RemoveWatch(id)
  PROVE  /\ ready' \in Seq(Events) /\ Range(ready') = {e \in Range(ready) : e.source # id}
         /\ discovery' \in Seq(Request) /\ Range(discovery') = {r \in Range(discovery) : r.id # id}
         /\ records' = {r \in records : r.id # id}
         /\ kernel' \in [Paths -> Nat]
         /\ \A p \in Paths : kernel'[p] = kernel[p] \/ kernel'[p] = 0
         /\ \A r \in records', p \in Paths : kernel[p] = r.wd => kernel'[p] = kernel[p]
<1>1. ready \in Seq(Events) /\ discovery \in Seq(Request)
  BY Types
<1>2. ready' \in Seq(Events) /\ Range(ready') = {e \in Range(ready) : e.source # id}
  <2>1. ready' = KeepIn(ready, {e \in Range(ready) : e.source # id})
    BY DEF RemoveWatch, NotFrom
  <2>2. /\ ready' \in Seq(Events)
        /\ Range(ready') = Range(ready) \cap {e \in Range(ready) : e.source # id}
    BY <1>1, <2>1, KeepInRange
  <2>. QED  BY <2>2
<1>3. discovery' \in Seq(Request) /\ Range(discovery') = {r \in Range(discovery) : r.id # id}
  <2>1. discovery' = KeepIn(discovery, {r \in Range(discovery) : r.id # id})
    BY DEF RemoveWatch
  <2>2. /\ discovery' \in Seq(Request)
        /\ Range(discovery') = Range(discovery) \cap {r \in Range(discovery) : r.id # id}
    BY <1>1, <2>1, KeepInRange
  <2>. QED  BY <2>2
<1>4. records' = {r \in records : r.id # id}
  BY DEF RemoveWatch, RecordsOf
<1>5. kernel' = [p \in Paths |-> IF kernel[p] \in Orphans(id) THEN 0 ELSE kernel[p]]
  BY DEF RemoveWatch
<1>6. \A r \in records' : r.wd \notin Orphans(id)
  BY <1>4 DEF Orphans, RecordsOf
<1>7. kernel \in [Paths -> Nat]
  BY Types
<1>. QED  BY <1>2, <1>3, <1>4, <1>5, <1>6, <1>7

LEMMA MethodsKeepBasics ==
  ASSUME Basics,
         \/ \E id \in Ids : AddWatch(id) \/ RemoveWatch(id)
         \/ WatcherStops \/ StopBackend
  PROVE  Basics'
<1>0. TypeOK /\ Descriptors /\ nextWd \in Nat /\ nextWd # 0 /\ kernel \in [Paths -> Nat]
  BY Types DEF Basics, Descriptors
<1>1. ASSUME NEW id \in Ids, RemoveWatch(id) PROVE Basics'
  <2>1. /\ ready' \in Seq(Events) /\ discovery' \in Seq(Request)
        /\ records' = {r \in records : r.id # id}
        /\ kernel' \in [Paths -> Nat]
        /\ \A p \in Paths : kernel'[p] = kernel[p] \/ kernel'[p] = 0
    BY <1>0, <1>1, RemoveWatchEffect
  <2>2. /\ active' = active \ {id} /\ erased' \in BOOLEAN
        /\ UNCHANGED <<tree, creations, nextWd, queued, mishaps, added, stage, overflowed,
                       rawVars, walkVars, told, lost, known, missed>>
    BY <1>1 DEF RemoveWatch
  <2>3. Raws' = Raws /\ RawPlaces'
    BY <2>2, SameRaw
  <2>4. WalkPlaces'
    BY <2>2, SameWalk
  <2>5. \A w \in 1 .. nextWd - 1, d \in Paths : Bound(w, d)' => Bound(w, d)
    BY <1>0, <2>1, <2>3 DEF Bound
  <2>6. \A d \in Paths : kernel'[d] < nextWd
    BY <1>0, <2>1 DEF Descriptors
  <2>7. Descriptors'
    BY <1>0, <2>1, <2>2, <2>3, <2>5, <2>6 DEF Descriptors
  <2>8. TypeOK'
    BY <1>0, <2>1, <2>2 DEF TypeOK, rawVars, walkVars
  <2>. QED  BY <2>3, <2>4, <2>7, <2>8 DEF Basics
<1>2. CASE WatcherStops
  <2>1. /\ stage' = "stopping"
        /\ UNCHANGED <<kernelVars, added, active, records, ready, discovery, overflowed,
                       rawVars, walkVars, history>>
    BY <1>2 DEF WatcherStops
  <2>2. TypeOK'
    BY <1>0, <2>1 DEF TypeOK, kernelVars, rawVars, walkVars, history
  <2>3. RawPlaces' /\ Raws' = Raws
    BY <2>1, SameRaw DEF kernelVars
  <2>4. Descriptors'
    BY <2>1, <2>3, SameDescriptors DEF kernelVars
  <2>. QED  BY <2>1, <2>2, <2>3, <2>4, SameWalk DEF Basics
<1>3. CASE StopBackend
  <2>1. /\ stage' = "stopped" /\ kernel' = [p \in Paths |-> 0] /\ queued' = <<>>
        /\ records' = {} /\ ready' = <<>> /\ discovery' = <<>> /\ overflowed' = FALSE
        /\ UNCHANGED <<tree, creations, nextWd, mishaps, added, active, rawVars, walkVars,
                       history>>
    BY <1>3 DEF StopBackend
  <2>2. TypeOK'
    BY <1>0, <2>1, EmptySeq DEF TypeOK, rawVars, walkVars, history
  <2>3. Raws' \subseteq Raws
    BY <2>1, RangeOfEmpty DEF Raws, rawVars
  <2>4. RawPlaces'
    BY <2>1, <2>3 DEF Basics, RawPlaces, rawVars
  <2>5. \A w \in 1 .. nextWd - 1, d \in Paths : Bound(w, d)' => Bound(w, d)
    BY <1>0, <2>1, <2>3 DEF Bound
  <2>6. Descriptors'
    BY <1>0, <2>1, <2>3, <2>5 DEF Descriptors
  <2>. QED  BY <2>1, <2>2, <2>4, <2>6, SameWalk DEF Basics
<1>. QED  BY <1>1, <1>2, <1>3, AddWatchKeepsBasics

\* What enqueue_discovered_tree leaves: a request that is given up, the new one
\* included, is written off as lost, and then the marker is up.
LEMMA EnqueueEffect ==
  ASSUME TypeOK, NEW id \in Ids, NEW p \in Dirs, EnqueueDiscovered(id, p)
  PROVE  /\ ready' \in Seq(Events) /\ discovery' \in Seq(Request) /\ overflowed' \in BOOLEAN
         /\ Range(ready) \subseteq Range(ready')
         /\ Range(ready') \subseteq Range(ready) \cup {EventOf("marker", id, <<>>)}
         /\ Range(discovery') \subseteq Range(discovery) \cup {[id |-> id, path |-> p]}
         /\ \A r \in Range(discovery) : r \in Range(discovery') \/ r.id \in lost'
         /\ stage # "stopped" => [id |-> id, path |-> p] \in Range(discovery') \/ id \in lost'
         /\ lost \subseteq lost'
         /\ lost' \subseteq lost \cup {id} \cup {r.id : r \in Range(discovery)}
         /\ lost' # lost => overflowed'
         /\ overflowed' => overflowed \/ EventOf("marker", id, <<>>) \in Range(ready')
         /\ stage = "stopped" => discovery' = discovery
<1>. DEFINE marker == EventOf("marker", id, <<>>)
            new == [id |-> id, path |-> p]
<1>1. ready \in Seq(Events) /\ discovery \in Seq(Request) /\ overflowed \in BOOLEAN
  BY Types DEF TypeOK
<1>2. marker \in Events /\ new \in Request
  BY PathsAssumption DEF EventOf, Events, Request, Dirs
<1>3. /\ Append(discovery, new) \in Seq(Request)
      /\ Range(Append(discovery, new)) = Range(discovery) \cup {new}
  BY <1>1, <1>2, RangeOfAppend
<1>4. /\ <<marker>> \o ready \in Seq(Events)
      /\ Range(<<marker>> \o ready) = {marker} \cup Range(ready)
  BY <1>1, <1>2, RangeOfCons
<1>5. discovery # <<>> => /\ Tail(discovery) \in Seq(Request)
                          /\ Range(discovery) = {Head(discovery)} \cup Range(Tail(discovery))
  BY <1>1, RangeOfTail
<1>. HIDE DEF marker, new
<1>6. CASE stage = "stopped"
  <2>1. UNCHANGED <<ready, discovery, overflowed, lost>>
    BY <1>6 DEF EnqueueDiscovered
  <2>. QED  BY <1>1, <1>6, <2>1
<1>7. CASE stage # "stopped" /\ overflowed
  <2>1. lost' = lost \cup {id} /\ UNCHANGED <<ready, discovery, overflowed>>
    BY <1>7 DEF EnqueueDiscovered
  <2>. QED  BY <1>1, <1>7, <2>1
<1>8. CASE stage # "stopped" /\ ~ overflowed /\ Len(discovery) >= MaxDiscoveryDepth
  <2>1. /\ discovery' = Tail(discovery)
        /\ ready' = <<marker>> \o ready
        /\ overflowed' = TRUE
        /\ lost' = lost \cup {id, Head(discovery).id}
    BY <1>8 DEF EnqueueDiscovered, marker
  <2>2. discovery # <<>>
    BY <1>1, <1>8, DepthsAssumption
  <2>. QED  BY <1>4, <1>5, <1>8, <2>1, <2>2 DEF marker, new
<1>9. CASE stage # "stopped" /\ ~ overflowed /\ ~ (Len(discovery) >= MaxDiscoveryDepth)
  <2>1. discovery' = Append(discovery, new) /\ UNCHANGED <<ready, overflowed, lost>>
    BY <1>9 DEF EnqueueDiscovered, new
  <2>. QED  BY <1>1, <1>3, <1>9, <2>1 DEF marker, new
<1>. QED  BY <1>6, <1>7, <1>8, <1>9

\* What mapping the head of the batch for one of the copied records leaves.
LEMMA MapEffect ==
  ASSUME Basics, MapForRecord
  PROVE  \E r \in todo :
           LET raw == Head(batch)
               wanted == IsWanted(r.id, raw.path)
               event == EventOf(raw.kind, r.id, raw.path)
           IN /\ batch # <<>> /\ raw \in Raw /\ raw.kind # "overflow" /\ r \in Record
              /\ event \in Events
              /\ todo' = todo \ {r}
              /\ batch' = IF todo' = {} THEN Tail(batch) ELSE batch
              /\ mapped' = IF wanted THEN Append(mapped, event) ELSE mapped
              /\ IF wanted /\ ToDiscover(r, raw, raw.path)
                   THEN EnqueueDiscovered(r.id, raw.path)
                   ELSE UNCHANGED <<ready, discovery, overflowed, lost>>
<1>1. PICK r \in todo :
        LET raw == Head(batch)
            p == Append(r.dir, Last(raw.path))
            wanted == IsWanted(r.id, p)
        IN /\ todo' = todo \ {r}
           /\ batch' = IF todo' = {} THEN Tail(batch) ELSE batch
           /\ mapped' = IF wanted THEN Append(mapped, EventOf(raw.kind, r.id, p)) ELSE mapped
           /\ IF wanted /\ ToDiscover(r, raw, p)
                THEN EnqueueDiscovered(r.id, p)
                ELSE UNCHANGED <<ready, discovery, overflowed, lost>>
  BY DEF MapForRecord
<1>2. batch # <<>> /\ Head(batch).kind # "overflow" /\ r.dir = Front(Head(batch).path)
  BY <1>1 DEF Basics, RawPlaces
<1>3. Head(batch) \in Raw /\ Head(batch) \in Raws
  <2>1. batch \in Seq(Raw)
    BY Types DEF Basics
  <2>. QED  BY <1>2, <2>1, RangeOfTail DEF Raws
<1>4. Head(batch).path # <<>> /\ Head(batch).path \in Paths
  BY <1>2, <1>3 DEF Basics, RawPlaces, Raw
<1>5. Append(r.dir, Last(Head(batch).path)) = Head(batch).path
  BY <1>2, <1>4, PathOfName, PathsAssumption
<1>6. r \in Record
  BY <1>1 DEF Basics, TypeOK
<1>7. EventOf(Head(batch).kind, r.id, Head(batch).path) \in Events
  BY <1>2, <1>3, <1>6 DEF EventOf, Events, Raw, Record
<1>. QED  BY <1>1, <1>2, <1>3, <1>5, <1>6, <1>7

LEMMA MapKeepsBasics ==
  ASSUME Basics, MapForRecord
  PROVE  Basics'
<1>. DEFINE raw == Head(batch)
<1>1. PICK r \in todo :
        /\ batch # <<>> /\ raw \in Raw /\ raw.kind # "overflow" /\ r \in Record
        /\ EventOf(raw.kind, r.id, raw.path) \in Events
        /\ todo' = todo \ {r}
        /\ batch' = IF todo' = {} THEN Tail(batch) ELSE batch
        /\ mapped' = IF IsWanted(r.id, raw.path)
                       THEN Append(mapped, EventOf(raw.kind, r.id, raw.path)) ELSE mapped
        /\ IF IsWanted(r.id, raw.path) /\ ToDiscover(r, raw, raw.path)
             THEN EnqueueDiscovered(r.id, raw.path)
             ELSE UNCHANGED <<ready, discovery, overflowed, lost>>
  BY MapEffect
<1>2. /\ pc = "map" /\ UNCHANGED <<kernelVars, tables, pc, next, walkVars, told, known, missed, erased>>
  BY DEF MapForRecord
<1>3. TypeOK /\ mapped \in Seq(Events) /\ batch \in Seq(Raw) /\ ready \in Seq(Events) /\ discovery \in Seq(Request)
  BY Types DEF Basics
<1>4. Tail(batch) \in Seq(Raw) /\ Range(batch) = {raw} \cup Range(Tail(batch))
  BY <1>1, <1>3, RangeOfTail
<1>5. batch' \in Seq(Raw) /\ Raws' \subseteq Raws
  BY <1>1, <1>2, <1>3, <1>4 DEF Raws, kernelVars
<1>6. mapped' \in Seq(Events)
  BY <1>1, <1>3, RangeOfAppend
<1>7. ready' \in Seq(Events) /\ discovery' \in Seq(Request) /\ overflowed' \in BOOLEAN /\ lost' \subseteq Ids
  <2>1. CASE EnqueueDiscovered(r.id, raw.path) /\ raw.path \in Dirs
    <3>1. r.id \in Ids /\ lost \subseteq Ids /\ \A d \in Range(discovery) : d.id \in Ids
      <4>1. Range(discovery) \subseteq Request
        BY <1>3, RangeType
      <4>2. r.id \in Ids /\ lost \subseteq Ids
        BY <1>1, <1>3 DEF Record, TypeOK
      <4>. QED  BY <4>1, <4>2 DEF Request
    <3>2. /\ ready' \in Seq(Events) /\ discovery' \in Seq(Request) /\ overflowed' \in BOOLEAN
          /\ lost' \subseteq lost \cup {r.id} \cup {d.id : d \in Range(discovery)}
      BY <1>3, <2>1, <3>1, EnqueueEffect
    <3>. QED  BY <3>1, <3>2
  <2>2. CASE UNCHANGED <<ready, discovery, overflowed, lost>>
    BY <1>3, <2>2 DEF TypeOK
  <2>. QED  BY <1>1, <2>1, <2>2 DEF ToDiscover
<1>8. TypeOK'
  BY <1>1, <1>2, <1>3, <1>5, <1>6, <1>7 DEF TypeOK, kernelVars, tables, walkVars
<1>9. RawPlaces'
  BY <1>1, <1>2, <1>5 DEF Basics, RawPlaces
<1>10. WalkPlaces'
  BY <1>2, SameWalk
<1>11. Descriptors'
  BY <1>2, <1>5, SameDescriptors DEF kernelVars, tables
<1>. QED  BY <1>8, <1>9, <1>10, <1>11 DEF Basics

LEMMA RawWorkerKeepsBasics ==
  ASSUME Basics, RawStep
  PROVE  Basics'
<1>0. /\ TypeOK /\ mapped \in Seq(Events) /\ batch \in Seq(Raw) /\ queued \in Seq(Raw)
      /\ ready \in Seq(Events) /\ discovery \in Seq(Request)
  BY Types DEF Basics
<1>1. CASE PopReady
  <2>1. Head(ready) \in Events /\ Tail(ready) \in Seq(Events)
    BY <1>0, <1>1, RangeOfTail DEF PopReady
  <2>2. TypeOK'
    BY <1>0, <1>1, <2>1 DEF PopReady, TypeOK, kernelVars, tables, walkVars, history
  <2>3. RawPlaces' /\ Raws' = Raws
    BY <1>1 DEF Basics, PopReady, RawPlaces, Raws, kernelVars
  <2>. QED  BY <1>1, <2>2, <2>3, SameWalk, SameDescriptors DEF Basics, PopReady, kernelVars, tables
<1>2. CASE BeginPoll \/ PollTimesOut \/ RawWorkerExits
  <2>1. TypeOK'
    BY <1>0, <1>2 DEF BeginPoll, PollTimesOut, RawWorkerExits, TypeOK, kernelVars, tables, walkVars, history
  <2>2. RawPlaces' /\ Raws' = Raws
    BY <1>2 DEF Basics, BeginPoll, PollTimesOut, RawWorkerExits, RawPlaces, Raws, kernelVars
  <2>. QED  BY <1>2, <2>1, <2>2, SameWalk, SameDescriptors
            DEF Basics, BeginPoll, PollTimesOut, RawWorkerExits, kernelVars, tables
<1>3. CASE Read
  <2>1. Raws' \subseteq Raws
    BY <1>3, RangeOfEmpty DEF Read, Raws
  <2>2. TypeOK'
    BY <1>0, <1>3, EmptySeq DEF Read, TypeOK, tables, walkVars, history
  <2>3. RawPlaces'
    BY <1>3, <2>1 DEF Basics, Read, RawPlaces
  <2>. QED  BY <1>3, <2>1, <2>2, <2>3, SameWalk, SameDescriptors DEF Basics, Read, tables
<1>4. CASE BeginMapping
  <2>1. /\ batch # <<>> /\ todo = {} /\ mapped = <<>> /\ pc = "map"
        /\ UNCHANGED <<kernelVars, tables, ready, discovery, overflowed, pc, next, walkVars, history>>
    BY <1>4 DEF BeginMapping
  <2>2. /\ Head(batch) \in Raw /\ Head(batch) \in Raws /\ Tail(batch) \in Seq(Raw)
        /\ Range(batch) = {Head(batch)} \cup Range(Tail(batch))
    BY <1>0, <2>1, RangeOfTail DEF Raws
  <2>3. batch' \in {batch, Tail(batch)} /\ todo' \subseteq records /\ mapped' \in Seq(Events)
        /\ (todo' # {} => batch' = batch)
    <3>1. CASE Head(batch).kind = "overflow"
      <4>1. EventOf("overflow", NoSource, <<>>) \in Events
        BY PathsAssumption DEF EventOf, Events, Dirs
      <4>2. mapped' = <<EventOf("overflow", NoSource, <<>>)>> /\ batch' = Tail(batch) /\ todo' = todo
        BY <1>4, <3>1 DEF BeginMapping
      <4>. QED  BY <2>1, <4>1, <4>2
    <3>2. CASE Head(batch).kind # "overflow"
      BY <1>0, <1>4, <3>2 DEF BeginMapping
    <3>. QED  BY <3>1, <3>2
  <2>4. Raws' \subseteq Raws
    BY <2>1, <2>2, <2>3 DEF Raws, kernelVars
  <2>5. TypeOK'
    BY <1>0, <2>1, <2>2, <2>3 DEF TypeOK, kernelVars, tables, walkVars, history
  <2>6. ASSUME todo' # {} PROVE /\ batch' = batch /\ Head(batch).kind # "overflow"
                                /\ \A r \in todo' : r.dir = Front(Head(batch).path)
    <3>1. batch' = batch /\ Head(batch).kind # "overflow" /\ todo' = {r \in records : r.wd = Head(batch).wd}
      BY <1>4, <2>1, <2>6 DEF BeginMapping
    <3>2. ASSUME NEW r \in todo' PROVE r.dir = Front(Head(batch).path)
      <4>1. /\ Head(batch).wd # 0 /\ Head(batch).path # <<>> /\ Head(batch).path \in Paths
            /\ Head(batch).wd \in Nat /\ Head(batch).wd < nextWd /\ nextWd \in Nat
        BY <2>2, <3>1, Types DEF Basics, RawPlaces, Descriptors, Raw
      <4>2. Bound(Head(batch).wd, r.dir) /\ Bound(Head(batch).wd, Front(Head(batch).path))
        BY <2>2, <3>1 DEF Bound
      <4>3. r.dir \in Paths /\ Front(Head(batch).path) \in Paths /\ Head(batch).wd \in 1 .. nextWd - 1
        <5>1. r.dir \in Dirs
          BY <1>0, <3>1 DEF TypeOK, Record
        <5>2. Front(Head(batch).path) \in Dirs
          BY <1>0, <4>1, Types
        <5>3. Head(batch).wd \in 1 .. nextWd - 1
          BY <4>1
        <5>. QED  BY <5>1, <5>2, <5>3 DEF Dirs
      <4>. QED  BY <4>2, <4>3 DEF Basics, Descriptors
    <3>. QED  BY <3>1, <3>2
  <2>7. RawPlaces'
    BY <2>1, <2>4, <2>6 DEF Basics, RawPlaces
  <2>. QED  BY <2>1, <2>4, <2>5, <2>7, SameWalk, SameDescriptors DEF Basics, kernelVars, tables
<1>5. CASE MapForRecord
  BY <1>5, MapKeepsBasics
<1>6. CASE PushMapped
  <2>1. mapped # <<>> /\ todo = {} /\ pc = "map"
        /\ UNCHANGED <<kernelVars, tables, discovery, overflowed, pc, batch, todo, walkVars, history>>
    BY <1>6 DEF PushMapped
  <2>2. Head(mapped) \in Events /\ Tail(mapped) \in Seq(Events) /\ mapped' = Tail(mapped)
    BY <1>0, <1>6, RangeOfTail DEF PushMapped
  <2>3. ready' \in Seq(Events) /\ next' \subseteq Events /\ \A e, f \in next' : e = f
    <3>1. Append(ready, Head(mapped)) \in Seq(Events)
      BY <1>0, <2>2, RangeOfAppend
    <3>. QED  BY <1>0, <1>6, <2>2, <3>1 DEF PushMapped, TypeOK, Basics, RawPlaces
  <2>4. TypeOK'
    BY <1>0, <2>1, <2>2, <2>3 DEF TypeOK, kernelVars, tables, walkVars, history
  <2>5. RawPlaces' /\ Raws' = Raws
    BY <2>1, <2>3 DEF Basics, RawPlaces, Raws, kernelVars
  <2>. QED  BY <2>1, <2>4, <2>5, SameWalk, SameDescriptors DEF Basics, kernelVars, tables
<1>7. CASE EndBatch
  <2>1. TypeOK'
    BY <1>0, <1>7 DEF EndBatch, TypeOK, kernelVars, tables, walkVars, history
  <2>2. RawPlaces' /\ Raws' = Raws
    BY <1>7 DEF Basics, EndBatch, RawPlaces, Raws, kernelVars
  <2>. QED  BY <1>7, <2>1, <2>2, SameWalk, SameDescriptors DEF Basics, EndBatch, kernelVars, tables
<1>8. CASE Report
  <2>1. /\ pc = "check" /\ next' = {} /\ pc' = "wait"
        /\ UNCHANGED <<kernelVars, tables, ready, discovery, overflowed, batch, todo, mapped, walkVars>>
    BY <1>8 DEF Report
  <2>2. told' \subseteq Ids /\ lost' \subseteq Ids /\ known' \in [Recursive -> SUBSET Paths]
    <3>1. PICK e \in next :
            \/ UNCHANGED <<told, lost, known>>
            \/ /\ e.source \in active
               /\ \E heard \in {active, {e.source}, {}} : told' = told \cup heard /\ lost' = lost \ heard
               /\ \/ known' = known
                  \/ known' = [known EXCEPT ![e.source] = @ \cup {e.path}]
      BY <1>8 DEF Report
    <3>2. e \in Events /\ active \subseteq Ids
      BY <1>0 DEF TypeOK
    <3>3. CASE UNCHANGED <<told, lost, known>>
      BY <1>0, <3>3 DEF TypeOK
    <3>4. CASE e.source \in active
      <4>1. told' \subseteq Ids /\ lost' \subseteq Ids
        BY <1>0, <3>1, <3>2, <3>4 DEF TypeOK
      <4>2. known' = known \/ known' = [known EXCEPT ![e.source] = @ \cup {e.path}]
        BY <3>1
      <4>3. known \in [Recursive -> SUBSET Paths] /\ e.path \in Paths
        BY <1>0, <3>2 DEF TypeOK, Events
      <4>4. known' \in [Recursive -> SUBSET Paths]
        BY <4>2, <4>3
      <4>. QED  BY <4>1, <4>4
    <3>. QED  BY <3>1, <3>3, <3>4
  <2>5. missed' = missed /\ erased' \in BOOLEAN
    BY <1>0, <1>8 DEF Report, TypeOK
  <2>3. TypeOK'
    BY <1>0, <2>1, <2>2, <2>5 DEF TypeOK, kernelVars, tables, walkVars
  <2>4. RawPlaces' /\ Raws' = Raws
    BY <2>1 DEF Basics, RawPlaces, Raws, kernelVars
  <2>. QED  BY <2>1, <2>3, <2>4, SameWalk, SameDescriptors DEF Basics, kernelVars, tables
<1>. QED  BY <1>1, <1>2, <1>3, <1>4, <1>5, <1>6, <1>7, <1>8 DEF RawStep

\* The walk serves a request of a watch, for a directory.
LEMMA ServedRequest ==
  ASSUME Basics, Busy
  PROVE  request \in Request /\ request.id \in Ids /\ request.path \in Dirs
BY DEF Basics, TypeOK, WalkPlaces, Request, NoRequest

LEMMA AddDiscoveredKeepsBasics ==
  ASSUME Basics, AddDiscoveredWatch
  PROVE  Basics'
<1>1. /\ walker = "add" /\ walker' \in {"open", "report"} /\ (walker' = "open" => at = request.path)
      /\ UNCHANGED <<tree, creations, queued, added, active, stage, ready, discovery,
                     overflowed, rawVars, request, at, listed, history>>
  BY DEF AddDiscoveredWatch
<1>2. at \in Dirs /\ request.id \in Ids /\ request.path \in Dirs /\ {at} \in SUBSET Dirs /\ TypeOK
  BY <1>1, ServedRequest DEF Basics, WalkPlaces, Busy
<1>3. RawPlaces' /\ Raws' = Raws
  BY <1>1, SameRaw
<1>4. WalkPlaces'
  BY <1>1, <1>2 DEF Basics, WalkPlaces, Busy
<1>5. /\ Descriptors' /\ records' \subseteq Record /\ kernel' \in [Paths -> Nat] /\ nextWd' \in Nat
      /\ mishaps' \in Nat /\ problems' \subseteq {"warning", "error"}
  <2>1. CASE WatchThem(request.id, {at}) /\ UNCHANGED <<mishaps, problems>>
    <3>1. Descriptors' /\ records' \subseteq Record
      BY <1>2, <1>3, <2>1, WatchThemDescriptors
    <3>2. kernel' \in [Paths -> Nat] /\ nextWd' \in Nat
      <4>1. nextWd # 0
        BY DEF Basics, Descriptors
      <4>. QED  BY <1>2, <2>1, <4>1, WatchThemEffect
    <3>. QED  BY <1>2, <2>1, <3>1, <3>2 DEF TypeOK
  <2>2. CASE /\ UNCHANGED <<kernel, nextWd, records>>
             /\ mishaps' \in {mishaps, mishaps + 1} /\ problems' \in {problems, problems \cup {"error"}}
    <3>1. Descriptors'
      BY <1>3, <2>2, SameDescriptors
    <3>. QED  BY <1>2, <2>2, <3>1 DEF TypeOK
  <2>. QED  BY <2>1, <2>2 DEF AddDiscoveredWatch, AddOne
<1>6. TypeOK'
  BY <1>1, <1>2, <1>5 DEF TypeOK, rawVars, history
<1>. QED  BY <1>3, <1>4, <1>5, <1>6 DEF Basics

\* An entry of a directory is one name longer.
LEMMA ChildIsLonger ==
  ASSUME NEW d, NEW p \in ChildrenOf(d)
  PROVE  Len(p) = Len(d) + 1 /\ Len(d) \in Nat
<1>1. p \in Seq(Names) /\ p # <<>> /\ Front(p) = d
  BY PathsAssumption DEF ChildrenOf
<1>2. Len(p) \in Nat \ {0} /\ Len(Front(p)) = Len(p) - 1
  BY <1>1, FrontProperties
<1>. QED  BY <1>1, <1>2

LEMMA PushReadyEffect ==
  ASSUME TypeOK, NEW e \in Events, PushReady(e)
  PROVE  /\ ready' \in Seq(Events)
         /\ Range(ready) \subseteq Range(ready') /\ Range(ready') \subseteq Range(ready) \cup {e}
         /\ Live(e.source) => e \in Range(ready')
<1>1. ready \in Seq(Events)
  BY Types
<1>2. Append(ready, e) \in Seq(Events) /\ Range(Append(ready, e)) = Range(ready) \cup {e}
  BY <1>1, RangeOfAppend
<1>. QED  BY <1>1, <1>2 DEF PushReady

LEMMA DiscoveryKeepsBasics ==
  ASSUME Basics, DiscoveryStep
  PROVE  Basics'
<1>0. /\ TypeOK /\ ready \in Seq(Events) /\ discovery \in Seq(Request)
  BY Types DEF Basics
<1>1. CASE TakeRequest
  <2>1. /\ walker = "idle" /\ walker' = "look" /\ discovery # <<>>
        /\ request' = Head(discovery) /\ discovery' = Tail(discovery)
        /\ UNCHANGED <<kernelVars, tables, ready, overflowed, rawVars, at, listed, problems, history>>
    BY <1>1 DEF TakeRequest
  <2>2. request' \in Request /\ discovery' \in Seq(Request)
    BY <1>0, <2>1, RangeOfTail
  <2>3. TypeOK'
    BY <1>0, <2>1, <2>2 DEF TypeOK, kernelVars, tables, rawVars, history
  <2>4. request' # NoRequest
    <3>1. \A r \in Request : r # <<>>
      BY DEF Request
    <3>. QED  BY <2>2, <3>1 DEF NoRequest
  <2>5. WalkPlaces'
    BY <2>1, <2>4 DEF Basics, WalkPlaces, Busy
  <2>. QED  BY <2>1, <2>3, <2>5, SameRaw, SameDescriptors DEF Basics, kernelVars, tables
<1>2. CASE LookAtRoot
  <2>1. /\ walker = "look"
        /\ \/ walker' = "add" /\ at' = request.path /\ UNCHANGED request
           \/ walker' = "idle" /\ request' = NoRequest /\ UNCHANGED at
        /\ UNCHANGED <<kernelVars, tables, ready, discovery, overflowed, rawVars, listed, problems, history>>
    BY <1>2 DEF LookAtRoot
  <2>2. request.path \in Dirs /\ Dirs \subseteq Paths /\ Len(request.path) \in Nat
    <3>1. request.path \in Dirs
      BY <2>1, ServedRequest DEF Busy
    <3>2. request.path \in Seq(Names)
      BY <1>0, <3>1, Types
    <3>. QED  BY <3>1, <3>2 DEF Dirs
  <2>3. TypeOK'
    BY <1>0, <2>1, <2>2 DEF TypeOK, kernelVars, tables, rawVars, history
  <2>4. WalkPlaces'
    BY <2>1, <2>2 DEF Basics, WalkPlaces, Busy
  <2>. QED  BY <2>1, <2>3, <2>4, SameRaw, SameDescriptors DEF Basics, kernelVars, tables
<1>3. CASE AddDiscoveredWatch
  BY <1>3, AddDiscoveredKeepsBasics
<1>4. CASE ReportDiscovered
  <2>1. /\ walker = "report" /\ walker' = IF at \in Dirs THEN "open" ELSE "next"
        /\ \/ PushReady(EventOf("created", request.id, at))
           \/ UNCHANGED ready
        /\ UNCHANGED <<kernelVars, tables, discovery, overflowed, rawVars, request, at, listed, problems, history>>
    BY <1>4 DEF ReportDiscovered
  <2>2. EventOf("created", request.id, at) \in Events
    BY <1>0, <2>1, ServedRequest DEF Busy, EventOf, Events, TypeOK
  <2>3. ready' \in Seq(Events)
    BY <1>0, <2>1, <2>2, PushReadyEffect
  <2>4. TypeOK'
    BY <1>0, <2>1, <2>3 DEF TypeOK, kernelVars, tables, rawVars, history
  <2>5. WalkPlaces'
    BY <2>1 DEF Basics, WalkPlaces, Busy
  <2>. QED  BY <2>1, <2>4, <2>5, SameRaw, SameDescriptors DEF Basics, kernelVars, tables
<1>5. CASE OpenDirectory
  <2>1. /\ walker = "open"
        /\ UNCHANGED <<kernelVars, tables, ready, discovery, overflowed, rawVars, request, at, history>>
        /\ \/ listed' = listed \cup (ChildrenOf(at) \cap tree) /\ walker' = "next" /\ UNCHANGED problems
           \/ listed' = {} /\ walker' = "finish" /\ problems' = problems \cup {"warning"}
    BY <1>5 DEF OpenDirectory
  <2>2. TypeOK'
    BY <1>0, <2>1 DEF TypeOK, kernelVars, tables, rawVars, history, ChildrenOf
  <2>3. \A p \in ChildrenOf(at) : Len(request.path) < Len(p)
    <3>1. ASSUME NEW p \in ChildrenOf(at) PROVE Len(request.path) < Len(p)
      <4>1. Len(p) = Len(at) + 1 /\ Len(at) \in Nat
        BY ChildIsLonger
      <4>2. Len(request.path) <= Len(at)
        BY <2>1 DEF Basics, WalkPlaces, Busy
      <4>3. Len(request.path) \in Nat
        <5>1. request.path \in Seq(Names)
          BY <1>0, <2>1, ServedRequest, Types DEF Busy
        <5>. QED  BY <5>1
      <4>. QED  BY <4>1, <4>2, <4>3
    <3>. QED  BY <3>1
  <2>4. WalkPlaces'
    BY <2>1, <2>3 DEF Basics, WalkPlaces, Busy
  <2>. QED  BY <2>1, <2>2, <2>4, SameRaw, SameDescriptors DEF Basics, kernelVars, tables
<1>6. CASE NextEntry
  <2>1. /\ walker = "next"
        /\ UNCHANGED <<kernelVars, tables, ready, discovery, overflowed, rawVars, request, problems, history>>
        /\ \/ listed = {} /\ walker' = "finish" /\ UNCHANGED <<at, listed>>
           \/ \E p \in listed : /\ at' = p /\ listed' = listed \ {p}
                                /\ walker' = IF p \in Dirs THEN "add" ELSE "report"
    BY <1>6 DEF NextEntry
  <2>2. TypeOK'
    BY <1>0, <2>1 DEF TypeOK, kernelVars, tables, rawVars, history
  <2>3. Len(request.path) \in Nat
    <3>1. request.path \in Seq(Names)
      BY <1>0, <2>1, ServedRequest, Types DEF Busy
    <3>. QED  BY <3>1
  <2>4. \A p \in listed : Len(p) \in Nat
    BY <1>0, Types DEF TypeOK
  <2>5. WalkPlaces'
    BY <2>1, <2>3, <2>4 DEF Basics, WalkPlaces, Busy
  <2>. QED  BY <2>1, <2>2, <2>5, SameRaw, SameDescriptors DEF Basics, kernelVars, tables
<1>7. CASE FinishWalk
  <2>1. /\ walker = "finish"
        /\ UNCHANGED <<kernelVars, tables, discovery, overflowed, rawVars, listed, history>>
        /\ \/ /\ problems = {} /\ walker' = "idle" /\ request' = NoRequest /\ at' = <<>>
              /\ UNCHANGED <<problems, ready>>
           \/ \E level \in problems : /\ PushReady(EventOf(level, request.id, <<>>))
                                      /\ problems' = problems \ {level}
                                      /\ UNCHANGED <<walker, request, at>>
    BY <1>7 DEF FinishWalk
  <2>2. ready' \in Seq(Events)
    <3>1. \A level \in problems : EventOf(level, request.id, <<>>) \in Events
      BY <1>0, <2>1, ServedRequest, PathsAssumption DEF Busy, EventOf, Events, TypeOK, Dirs
    <3>. QED  BY <1>0, <2>1, <3>1, PushReadyEffect
  <2>3. TypeOK'
    BY <1>0, <2>1, <2>2, PathsAssumption DEF TypeOK, kernelVars, tables, rawVars, history, Dirs
  <2>4. WalkPlaces'
    BY <2>1 DEF Basics, WalkPlaces, Busy
  <2>. QED  BY <2>1, <2>3, <2>4, SameRaw, SameDescriptors DEF Basics, kernelVars, tables
<1>8. CASE DiscoveryExits
  <2>1. TypeOK'
    BY <1>0, <1>8 DEF DiscoveryExits, TypeOK, kernelVars, tables, rawVars, history
  <2>2. WalkPlaces'
    BY <1>8 DEF DiscoveryExits, Basics, WalkPlaces, Busy
  <2>. QED  BY <1>8, <2>1, <2>2, SameRaw, SameDescriptors DEF Basics, DiscoveryExits, kernelVars, tables
<1>. QED  BY <1>1, <1>2, <1>3, <1>4, <1>5, <1>6, <1>7, <1>8 DEF DiscoveryStep

LEMMA BasicsStep == Basics /\ [Next]_vars => Basics'
<1>. SUFFICES ASSUME Basics, [Next]_vars PROVE Basics'
  OBVIOUS
<1>1. CASE UNCHANGED vars
  <2>1. TypeOK'
    BY <1>1 DEF Basics, TypeOK, vars, kernelVars, tables, rawVars, walkVars, history
  <2>. QED  BY <1>1, <2>1, SameRaw, SameWalk, SameDescriptors DEF Basics, vars, kernelVars, tables
<1>2. CASE Next
  BY <1>2, EnvironmentKeepsBasics, MethodsKeepBasics, RawWorkerKeepsBasics, DiscoveryKeepsBasics DEF Next
<1>. QED  BY <1>1, <1>2

\* Every variable keeps its type, at every depth of the queues: an event is always
\* mapped to a path of the tree, since a descriptor names one directory for good.
THEOREM TypeCorrect == Spec => []TypeOK
<1>1. Spec => []Basics
  BY BasicsInit, BasicsStep, PTL DEF Spec
<1>2. Basics => TypeOK
  BY DEF Basics
<1>. QED  BY <1>1, <1>2, PTL
-----------------------------------------------------------------------------
(* The directories that exist, and the records that name them. *)

Made(p) == p \in InitialTree \/ creations[p] > 0

\* The tree is closed under parents and holds only what was made; the kernel
\* watches only what exists, and no record names a directory that never existed.
Disk ==
  /\ \A p \in tree : Made(p) /\ (p # <<>> => Front(p) \in tree)
  /\ \A p \in Paths : kernel[p] # 0 => p \in tree
  /\ \A r \in records : Made(r.dir)

\* The record of a directory that exists and was made once holds the descriptor of its
\* kernel watch.
RecordsFresh == \A r \in records : r.dir \in tree \ Returned => kernel[r.dir] = r.wd

LEMMA DiskInit == Init => Disk /\ RecordsFresh
BY PathsAssumption DEF Init, Disk, Made, RecordsFresh

\* Only these steps change the file system, the kernel's watches or the records.
LEMMA WhoTouchesWatches ==
  ASSUME [Next]_vars
  PROVE  \/ \E p \in Paths : Create(p) \/ Delete(p)
         \/ \E id \in Ids : AddWatch(id) \/ RemoveWatch(id)
         \/ StopBackend \/ AddDiscoveredWatch
         \/ UNCHANGED <<tree, creations, kernel, nextWd, records>>
<1>1. RawStep => UNCHANGED <<tree, creations, kernel, nextWd, records>>
  BY DEF RawStep, PopReady, BeginPoll, PollTimesOut, Read, BeginMapping, MapForRecord,
         PushMapped, EndBatch, Report, RawWorkerExits, kernelVars, tables
<1>2. DiscoveryStep => AddDiscoveredWatch \/ UNCHANGED <<tree, creations, kernel, nextWd, records>>
  BY DEF DiscoveryStep, TakeRequest, LookAtRoot, ReportDiscovered, OpenDirectory, NextEntry,
         FinishWalk, DiscoveryExits, kernelVars, tables
<1>3. WatcherStops => UNCHANGED <<tree, creations, kernel, nextWd, records>>
  BY DEF WatcherStops, kernelVars
<1>4. UNCHANGED vars => UNCHANGED <<tree, creations, kernel, nextWd, records>>
  BY DEF vars, kernelVars, tables
<1>. QED  BY <1>1, <1>2, <1>3, <1>4 DEF Next

\* New watches on directories that exist.
LEMMA NewWatchesKeepDisk ==
  ASSUME Basics, Disk, NEW id \in Ids, NEW ds \in SUBSET (Dirs \cap tree), WatchThem(id, ds),
         UNCHANGED <<tree, creations>>
  PROVE  Disk' /\ (RecordsFresh => RecordsFresh')
<1>1. TypeOK /\ nextWd # 0 /\ kernel \in [Paths -> Nat] /\ ds \in SUBSET Dirs /\ nextWd \in Nat
  BY Types DEF Basics, Descriptors
<1>2. /\ \A p \in Paths : \/ kernel'[p] = kernel[p]
                          \/ (kernel[p] = 0 /\ p \in ds /\ nextWd <= kernel'[p] /\ kernel'[p] < nextWd')
      /\ records' = records \cup {[wd |-> kernel'[d], id |-> id, dir |-> d] : d \in ds}
  BY <1>1, WatchThemEffect
<1>3. \A r \in records : r.wd # 0 /\ r.dir \in Paths
  BY <1>1 DEF TypeOK, Record, Dirs
<1>4. \A r \in records' : r \in records \/ (r.dir \in tree /\ r.wd = kernel'[r.dir])
  BY <1>2
<1>5. Disk'
  BY <1>2, <1>4 DEF Disk, Made
<1>6. RecordsFresh => RecordsFresh'
  BY <1>2, <1>3, <1>4 DEF RecordsFresh, Returned
<1>. QED  BY <1>5, <1>6

LEMMA DiskStep ==
  ASSUME Basics, Disk, [Next]_vars
  PROVE  Disk' /\ (RecordsFresh => RecordsFresh')
<1>0. /\ TypeOK /\ kernel \in [Paths -> Nat] /\ creations \in [Paths -> Nat] /\ tree \subseteq Paths
      /\ \A r \in records : r.wd # 0 /\ r.dir \in Dirs /\ r.dir \in Paths
  BY Types DEF Basics, TypeOK, Record, Dirs
<1>1. ASSUME NEW p \in Paths, Create(p) PROVE Disk' /\ (RecordsFresh => RecordsFresh')
  <2>1. /\ p \notin tree /\ p # <<>> /\ Front(p) \in tree /\ tree' = tree \cup {p}
        /\ creations' = [creations EXCEPT ![p] = @ + 1] /\ UNCHANGED <<kernel, records>>
    BY <1>1 DEF Create, tables
  <2>2. creations'[p] = creations[p] + 1 /\ \A q \in Paths : Made(q) => Made(q)'
    BY <1>0, <2>1 DEF Made
  <2>3. Made(p)'
    BY <1>0, <2>2 DEF Made
  <2>4. Disk'
    BY <1>0, <2>1, <2>2, <2>3 DEF Disk
  <2>5. ASSUME RecordsFresh, NEW r \in records', r.dir \in tree' \ Returned' PROVE kernel'[r.dir] = r.wd
    <3>1. CASE r.dir \in tree
      <4>1. r.dir \notin Returned
        BY <1>0, <2>1, <2>2, <2>5 DEF Returned
      <4>. QED  BY <2>1, <2>5, <3>1, <4>1 DEF RecordsFresh
    <3>2. CASE r.dir = p
      <4>1. Made(p) /\ p \in Dirs
        BY <1>0, <2>1, <3>2 DEF Disk
      <4>2. creations'[p] <= IF p \in InitialTree THEN 0 ELSE 1
        BY <1>0, <2>2, <2>5, <3>2, <4>1 DEF Returned, Made
      <4>. QED  BY <1>0, <2>2, <4>1, <4>2 DEF Made
    <3>. QED  BY <2>1, <2>5, <3>1, <3>2
  <2>. QED  BY <2>4, <2>5 DEF RecordsFresh
<1>2. ASSUME NEW p \in Paths, Delete(p) PROVE Disk' /\ (RecordsFresh => RecordsFresh')
  <2>1. /\ tree' = tree \ {p} /\ ChildrenOf(p) \cap tree = {} /\ p # <<>>
        /\ kernel' = [kernel EXCEPT ![p] = 0] /\ UNCHANGED <<creations, records>>
    BY <1>2 DEF Delete, tables
  <2>2. \A q \in tree' : q # <<>> => Front(q) # p
    BY <1>0, <2>1 DEF ChildrenOf
  <2>3. \A q \in Paths : Made(q)' = Made(q) /\ kernel'[q] = IF q = p THEN 0 ELSE kernel[q]
    BY <1>0, <2>1 DEF Made
  <2>. QED  BY <1>0, <2>1, <2>2, <2>3 DEF Disk, RecordsFresh, Returned
<1>3. ASSUME NEW id \in Ids, AddWatch(id) PROVE Disk' /\ (RecordsFresh => RecordsFresh')
  <2>1. PICK ds \in SUBSET (Dirs \cap tree) : WatchThem(id, ds)
    BY <1>3, OptionsAssumption DEF AddWatch
  <2>2. UNCHANGED <<tree, creations>>
    BY <1>3 DEF AddWatch
  <2>. QED  BY <2>1, <2>2, NewWatchesKeepDisk
<1>4. ASSUME NEW id \in Ids, RemoveWatch(id) PROVE Disk' /\ (RecordsFresh => RecordsFresh')
  <2>1. /\ records' = {r \in records : r.id # id}
        /\ \A p \in Paths : kernel'[p] = kernel[p] \/ kernel'[p] = 0
        /\ \A r \in records', p \in Paths : kernel[p] = r.wd => kernel'[p] = kernel[p]
    BY <1>0, <1>4, RemoveWatchEffect
  <2>2. UNCHANGED <<tree, creations>>
    BY <1>4 DEF RemoveWatch
  <2>3. Disk'
    BY <1>0, <2>1, <2>2 DEF Disk, Made
  <2>4. RecordsFresh => RecordsFresh'
    BY <1>0, <2>1, <2>2 DEF RecordsFresh, Returned
  <2>. QED  BY <2>3, <2>4
<1>5. CASE StopBackend
  BY <1>0, <1>5 DEF StopBackend, Disk, Made, RecordsFresh
<1>6. CASE AddDiscoveredWatch
  <2>1. UNCHANGED <<tree, creations>>
    BY <1>6 DEF AddDiscoveredWatch
  <2>2. CASE UNCHANGED <<kernel, records>>
    BY <2>1, <2>2 DEF Disk, Made, RecordsFresh, Returned
  <2>3. CASE at \in tree /\ WatchThem(request.id, {at})
    <3>1. at \in Dirs /\ request.id \in Ids
      BY <1>6, ServedRequest DEF AddDiscoveredWatch, Basics, WalkPlaces, Busy
    <3>. QED  BY <2>1, <2>3, <3>1, NewWatchesKeepDisk
  <2>. QED  BY <1>6, <2>2, <2>3 DEF AddDiscoveredWatch, AddOne
<1>7. CASE UNCHANGED <<tree, creations, kernel, nextWd, records>>
  BY <1>7 DEF Disk, Made, RecordsFresh, Returned
<1>. QED  BY <1>1, <1>2, <1>3, <1>4, <1>5, <1>6, <1>7, WhoTouchesWatches
-----------------------------------------------------------------------------
(* Removed watches. *)

\* A removed watch has neither record nor walk that could add one: WatchThem is
\* reached only under a live watch (add_discovered_watch) or by add_watch itself.
LEMMA WatchThemRecords ==
  ASSUME NEW id, NEW ds, WatchThem(id, ds)
  PROVE  \A r \in records' : r \in records \/ (ds # {} /\ r.id = id)
<1>1. PICK order : records' = records \cup {[wd |-> kernel'[d], id |-> id, dir |-> d] : d \in ds}
  BY DEF WatchThem
<1>. QED  BY <1>1

LEMMA RemovedInit == Init => RemovedStaysRemoved
BY DEF Init, RemovedStaysRemoved

LEMMA EnvironmentKeepsRemoved ==
  ASSUME RemovedStaysRemoved, NEW p \in Paths, Create(p) \/ Delete(p)
  PROVE  RemovedStaysRemoved'
BY DEF RemovedStaysRemoved, Create, Delete, tables

LEMMA MethodsKeepRemoved ==
  ASSUME RemovedStaysRemoved,
         \/ \E id \in Ids : AddWatch(id) \/ RemoveWatch(id)
         \/ WatcherStops \/ StopBackend
  PROVE  RemovedStaysRemoved'
<1>1. ASSUME NEW id \in Ids, AddWatch(id) PROVE RemovedStaysRemoved'
  <2>1. PICK ds : WatchThem(id, ds) /\ active' = IF ds = {} THEN active ELSE active \cup {id}
    BY <1>1 DEF AddWatch
  <2>2. \A r \in records' : r \in records \/ (ds # {} /\ r.id = id)
    BY <2>1, WatchThemRecords
  <2>3. stage' = stage /\ stage # "stopped"
    BY <1>1 DEF AddWatch
  <2>. QED  BY <2>1, <2>2, <2>3 DEF RemovedStaysRemoved
<1>2. ASSUME NEW id \in Ids, RemoveWatch(id) PROVE RemovedStaysRemoved'
  <2>1. records' \subseteq records /\ (\A r \in records' : r.id # id)
    BY <1>2 DEF RemoveWatch, RecordsOf
  <2>2. stage' = stage /\ active' = active \ {id}
    BY <1>2 DEF RemoveWatch
  <2>3. stage # "stopped"
    BY <1>2 DEF RemoveWatch, Live, RecordsOf, RemovedStaysRemoved
  <2>. QED  BY <2>1, <2>2, <2>3 DEF RemovedStaysRemoved
<1>3. CASE WatcherStops
  BY <1>3 DEF WatcherStops, RemovedStaysRemoved
<1>4. CASE StopBackend
  BY <1>4 DEF StopBackend, RemovedStaysRemoved
<1>. QED  BY <1>1, <1>2, <1>3, <1>4

\* The raw worker adds no record, and no request once the backend is stopped.
LEMMA RawWorkerKeepsRemoved ==
  ASSUME RemovedStaysRemoved, RawStep
  PROVE  RemovedStaysRemoved'
<1>1. CASE MapForRecord
  <2>1. UNCHANGED <<active, records, stage>>
    BY <1>1 DEF MapForRecord, tables
  <2>2. stage = "stopped" => discovery' = discovery
    BY <1>1 DEF MapForRecord, EnqueueDiscovered
  <2>. QED  BY <2>1, <2>2 DEF RemovedStaysRemoved
<1>2. CASE ~ MapForRecord
  <2>1. UNCHANGED <<active, records, stage, discovery>>
    BY <1>2 DEF RawStep, PopReady, BeginPoll, PollTimesOut, Read, BeginMapping, PushMapped,
                EndBatch, Report, RawWorkerExits, tables
  <2>. QED  BY <2>1 DEF RemovedStaysRemoved
<1>. QED  BY <1>1, <1>2

\* The discovery worker adds a record only to a watch that is still there.
LEMMA WalkKeepsRemoved ==
  ASSUME RemovedStaysRemoved, DiscoveryStep
  PROVE  RemovedStaysRemoved'
<1>1. CASE AddDiscoveredWatch
  <2>1. UNCHANGED <<active, stage, discovery>>
    BY <1>1 DEF AddDiscoveredWatch
  <2>2. CASE ~ MayAdd(request.id, at)
    BY <1>1, <2>1, <2>2 DEF AddDiscoveredWatch, RemovedStaysRemoved
  <2>3. CASE MayAdd(request.id, at)
    <3>1. PICK s \in records : s.id = request.id
      BY <2>3 DEF MayAdd, Live, RecordsOf
    <3>2. AddOne(request.id, at)
      BY <1>1, <2>3 DEF AddDiscoveredWatch
    <3>3. \A r \in records' : r \in records \/ r.id = request.id
      <4>1. CASE WatchThem(request.id, {at})
        BY <4>1, WatchThemRecords
      <4>2. CASE UNCHANGED records
        BY <4>2
      <4>. QED  BY <3>2, <4>1, <4>2 DEF AddOne
    <3>4. s.id \in active /\ stage # "stopped"
      BY <3>1 DEF RemovedStaysRemoved
    <3>. QED  BY <2>1, <3>1, <3>3, <3>4 DEF RemovedStaysRemoved
  <2>. QED  BY <2>2, <2>3
<1>2. CASE TakeRequest
  BY <1>2 DEF TakeRequest, RemovedStaysRemoved, tables
<1>3. CASE ~ (AddDiscoveredWatch \/ TakeRequest)
  <2>1. UNCHANGED <<active, records, stage, discovery>>
    BY <1>3 DEF DiscoveryStep, LookAtRoot, ReportDiscovered, OpenDirectory, NextEntry,
                FinishWalk, DiscoveryExits, tables
  <2>. QED  BY <2>1 DEF RemovedStaysRemoved
<1>. QED  BY <1>1, <1>2, <1>3

LEMMA RemovedStep == RemovedStaysRemoved /\ [Next]_vars => RemovedStaysRemoved'
<1>. SUFFICES ASSUME RemovedStaysRemoved, [Next]_vars PROVE RemovedStaysRemoved'
  OBVIOUS
<1>1. CASE UNCHANGED vars
  BY <1>1 DEF RemovedStaysRemoved, vars, tables
<1>2. CASE Next
  BY <1>2, EnvironmentKeepsRemoved, MethodsKeepRemoved, RawWorkerKeepsRemoved,
     WalkKeepsRemoved DEF Next
<1>. QED  BY <1>1, <1>2

\* No step gives a removed watch, or a stopped backend, a record again: not even
\* the discovery worker in the middle of its walk.
THEOREM RemovedWatchesStayRemoved == Spec => []RemovedStaysRemoved
BY RemovedInit, RemovedStep, PTL DEF Spec
-----------------------------------------------------------------------------
(* Whose the records, requests and losses are. *)

Owners ==
  /\ stage = "running" => active \subseteq {r.id : r \in records}
  /\ \A r \in todo : r.id \in added
  /\ \A r \in Range(discovery) : r.id \in added
  /\ lost \subseteq added

LEMMA OwnersInit == Init => Owners
BY RangeOfEmpty DEF Init, Owners

\* Only these steps change what Owners speaks of.
LEMMA WhoTouchesOwners ==
  ASSUME [Next]_vars
  PROVE  \/ \E p \in Paths : Create(p) \/ Delete(p)
         \/ \E id \in Ids : AddWatch(id) \/ RemoveWatch(id)
         \/ WatcherStops \/ StopBackend
         \/ BeginMapping \/ MapForRecord \/ Report
         \/ TakeRequest \/ AddDiscoveredWatch
         \/ UNCHANGED <<tables, todo, discovery, lost>>
<1>1. RawStep => BeginMapping \/ MapForRecord \/ Report \/ UNCHANGED <<tables, todo, discovery, lost>>
  BY DEF RawStep, PopReady, BeginPoll, PollTimesOut, Read,
         PushMapped, EndBatch, RawWorkerExits, kernelVars, tables, history
<1>2. DiscoveryStep => TakeRequest \/ AddDiscoveredWatch \/ UNCHANGED <<tables, todo, discovery, lost>>
  BY DEF DiscoveryStep, LookAtRoot, ReportDiscovered, OpenDirectory, NextEntry,
         FinishWalk, DiscoveryExits, kernelVars, tables, rawVars, history
<1>3. UNCHANGED vars => UNCHANGED <<tables, todo, discovery, lost>>
  BY DEF vars, rawVars, history
<1>. QED  BY <1>1, <1>2, <1>3 DEF Next

LEMMA OwnersStep ==
  ASSUME Basics, RemovedStaysRemoved, Owners, [Next]_vars
  PROVE  Owners'
<1>0. /\ TypeOK /\ discovery \in Seq(Request) /\ active \subseteq added
      /\ \A r \in records : r.id \in added
  BY Types DEF Basics, TypeOK, RemovedStaysRemoved
<1>1. ASSUME NEW p \in Paths, Create(p) \/ Delete(p) PROVE Owners'
  <2>1. UNCHANGED <<tables, todo, discovery, lost>>
    BY <1>1 DEF Create, Delete, rawVars
  <2>. QED  BY <2>1 DEF Owners, tables
<1>2. ASSUME NEW id \in Ids, AddWatch(id) PROVE Owners'
  <2>1. PICK ds : WatchThem(id, ds) /\ active' = IF ds = {} THEN active ELSE active \cup {id}
    BY <1>2 DEF AddWatch
  <2>2. added' = added \cup {id} /\ UNCHANGED <<stage, todo, discovery, lost>>
    BY <1>2 DEF AddWatch, rawVars
  <2>3. PICK f : records' = records \cup {[wd |-> f[d], id |-> id, dir |-> d] : d \in ds}
    BY <2>1 DEF WatchThem
  <2>4. ds # {} => \E r \in records' : r.id = id
    <3>1. ASSUME NEW d \in ds PROVE \E r \in records' : r.id = id
      <4>1. [wd |-> f[d], id |-> id, dir |-> d] \in records'
        BY <2>3
      <4>. QED  BY <4>1
    <3>. QED  BY <3>1
  <2>5. stage' = "running" => active' \subseteq {r.id : r \in records'}
    BY <2>1, <2>2, <2>3, <2>4 DEF Owners
  <2>. QED  BY <2>2, <2>5 DEF Owners
<1>3. ASSUME NEW id \in Ids, RemoveWatch(id) PROVE Owners'
  <2>1. records' = {r \in records : r.id # id} /\ Range(discovery') \subseteq Range(discovery)
    BY <1>0, <1>3, RemoveWatchEffect
  <2>2. active' = active \ {id} /\ UNCHANGED <<added, stage, todo, lost>>
    BY <1>3 DEF RemoveWatch, rawVars, history
  <2>. QED  BY <2>1, <2>2 DEF Owners
<1>4. CASE WatcherStops \/ StopBackend
  <2>1. stage' # "running" /\ (discovery' = discovery \/ discovery' = <<>>) /\ UNCHANGED <<added, todo, lost>>
    BY <1>4 DEF WatcherStops, StopBackend, rawVars, history
  <2>. QED  BY <2>1, RangeOfEmpty DEF Owners
<1>5. CASE BeginMapping
  <2>1. todo' \subseteq todo \cup records /\ UNCHANGED <<tables, discovery, lost>>
    BY <1>5 DEF BeginMapping, history
  <2>. QED  BY <1>0, <2>1 DEF Owners, tables
<1>6. CASE MapForRecord
  <2>1. PICK r \in todo :
          /\ r \in Record /\ todo' = todo \ {r}
          /\ \/ Head(batch).path \in Dirs /\ EnqueueDiscovered(r.id, Head(batch).path)
             \/ UNCHANGED <<ready, discovery, overflowed, lost>>
    BY <1>6, MapEffect DEF ToDiscover
  <2>2. UNCHANGED tables
    BY <1>6 DEF MapForRecord
  <2>3. r.id \in added /\ r.id \in Ids
    BY <2>1 DEF Owners, Record
  <2>4. CASE Head(batch).path \in Dirs /\ EnqueueDiscovered(r.id, Head(batch).path)
    <3>1. /\ Range(discovery') \subseteq Range(discovery) \cup {[id |-> r.id, path |-> Head(batch).path]}
          /\ lost' \subseteq lost \cup {r.id} \cup {d.id : d \in Range(discovery)}
      BY <1>0, <2>3, <2>4, EnqueueEffect
    <3>. QED  BY <2>1, <2>2, <2>3, <3>1 DEF Owners, tables
  <2>5. CASE UNCHANGED <<ready, discovery, overflowed, lost>>
    BY <2>1, <2>2, <2>5 DEF Owners, tables
  <2>. QED  BY <2>1, <2>4, <2>5
<1>7. CASE Report
  <2>1. lost' \subseteq lost /\ UNCHANGED <<tables, todo, discovery>>
    <3>1. UNCHANGED <<tables, todo, discovery>>
      BY <1>7 DEF Report
    <3>2. lost' \subseteq lost
      BY <1>7 DEF Report, history
    <3>. QED  BY <3>1, <3>2
  <2>. QED  BY <2>1 DEF Owners, tables
<1>8. CASE TakeRequest
  <2>1. Range(discovery') \subseteq Range(discovery) /\ UNCHANGED <<tables, todo, lost>>
    <3>1. discovery # <<>> /\ discovery' = Tail(discovery) /\ UNCHANGED <<tables, todo, lost>>
      BY <1>8 DEF TakeRequest, rawVars, history
    <3>. QED  BY <1>0, <3>1, RangeOfTail
  <2>. QED  BY <2>1 DEF Owners, tables
<1>9. CASE AddDiscoveredWatch
  <2>1. UNCHANGED <<added, active, stage, todo, discovery, lost>>
    BY <1>9 DEF AddDiscoveredWatch, rawVars, history
  <2>2. records \subseteq records'
    BY <1>9 DEF AddDiscoveredWatch, AddOne, WatchThem
  <2>. QED  BY <2>1, <2>2 DEF Owners
<1>10. CASE UNCHANGED <<tables, todo, discovery, lost>>
  BY <1>10 DEF Owners, tables
<1>. QED  BY <1>1, <1>2, <1>3, <1>4, <1>5, <1>6, <1>7, <1>8, <1>9, <1>10, WhoTouchesOwners
-----------------------------------------------------------------------------
(* No loss is left untold. *)

\* As long as no marker was taken away: while a loss is untold, a marker is on its
\* way; while the backend takes a marker for pending, one is.
Losses ==
  stage = "running" /\ ~ erased =>
    /\ \A e \in Range(mapped) : ~ IsMarker(e)
    /\ lost \cap active # {} => \E e \in Range(ready) \cup next : IsMarker(e)
    /\ overflowed => \E e \in Range(ready) : IsMarker(e)

LEMMA LossesInit == Init => Losses
BY RangeOfEmpty DEF Init, Losses

LEMMA LossesOfMethods ==
  ASSUME Basics, Owners, Losses,
         \/ \E id \in Ids : AddWatch(id) \/ RemoveWatch(id)
         \/ WatcherStops \/ StopBackend
  PROVE  Losses'
<1>0. TypeOK /\ active \subseteq added
  BY DEF Basics, TypeOK
<1>1. ASSUME NEW id \in Ids, AddWatch(id) PROVE Losses'
  <2>1. /\ id \notin added /\ (active' = active \/ active' = active \cup {id})
        /\ UNCHANGED <<stage, ready, overflowed, next, mapped, lost, erased>>
    <3>1. added = {i \in Ids : i < id} /\ id \in Nat
      BY <1>1, OptionsAssumption DEF AddWatch
    <3>2. id \notin added
      BY <3>1
    <3>. QED  BY <1>1, <3>2 DEF AddWatch, rawVars
  <2>2. lost \cap active' = lost \cap active
    BY <2>1 DEF Owners
  <2>. QED  BY <2>1, <2>2 DEF Losses, IsMarker
<1>2. ASSUME NEW id \in Ids, RemoveWatch(id) PROVE Losses'
  <2>1. Range(ready') = {e \in Range(ready) : e.source # id}
    BY <1>0, <1>2, RemoveWatchEffect
  <2>2. /\ active' \subseteq active
        /\ UNCHANGED <<stage, overflowed, next, mapped, lost>>
    BY <1>2 DEF RemoveWatch, rawVars
  <2>3. SUFFICES ASSUME ~ erased' PROVE Losses'
    BY DEF Losses
  <2>4. ~ erased /\ \A e \in Range(ready) : IsMarker(e) => e.source # id
    BY <1>2, <2>3 DEF RemoveWatch
  <2>5. \A e \in Range(ready) : IsMarker(e) => e \in Range(ready')
    BY <2>1, <2>4
  <2>6. lost' \cap active' # {} => lost \cap active # {}
    BY <2>2
  <2>. QED  BY <2>2, <2>4, <2>5, <2>6 DEF Losses, IsMarker
<1>3. CASE WatcherStops \/ StopBackend
  BY <1>3 DEF WatcherStops, StopBackend, Losses
<1>. QED  BY <1>1, <1>2, <1>3

LEMMA LossesOfMapping ==
  ASSUME Basics, Losses, MapForRecord
  PROVE  Losses'
<1>. DEFINE raw == Head(batch)
            event(r) == EventOf(raw.kind, r.id, raw.path)
<1>0. TypeOK /\ mapped \in Seq(Events)
  BY Types DEF Basics
<1>1. PICK r \in todo :
        /\ raw \in Raw /\ r \in Record /\ event(r) \in Events
        /\ mapped' = mapped \/ mapped' = Append(mapped, event(r))
        /\ \/ raw.path \in Dirs /\ EnqueueDiscovered(r.id, raw.path)
           \/ UNCHANGED <<ready, discovery, overflowed, lost>>
  BY MapEffect DEF ToDiscover
<1>2. UNCHANGED <<active, stage, next, erased>>
  BY DEF MapForRecord, tables
<1>3. \A e \in Range(mapped') : e \in Range(mapped) \/ ~ IsMarker(e)
  <2>1. Range(Append(mapped, event(r))) = Range(mapped) \cup {event(r)}
    BY <1>0, <1>1, RangeOfAppend
  <2>2. ~ IsMarker(event(r))
    BY <1>1 DEF IsMarker, EventOf, Raw
  <2>. QED  BY <1>1, <2>1, <2>2
<1>4. CASE UNCHANGED <<ready, discovery, overflowed, lost>>
  BY <1>2, <1>3, <1>4 DEF Losses, IsMarker
<1>5. CASE raw.path \in Dirs /\ EnqueueDiscovered(r.id, raw.path)
  <2>. DEFINE marker == EventOf("marker", r.id, <<>>)
  <2>1. /\ Range(ready) \subseteq Range(ready')
        /\ lost' # lost => overflowed'
        /\ overflowed' => overflowed \/ marker \in Range(ready')
    BY <1>0, <1>1, <1>5, EnqueueEffect DEF Record
  <2>2. IsMarker(marker)
    BY DEF EventOf, IsMarker
  <2>. HIDE DEF marker
  <2>. QED  BY <1>2, <1>3, <2>1, <2>2 DEF Losses, IsMarker
<1>. QED  BY <1>1, <1>4, <1>5

LEMMA LossesOfRawWorker ==
  ASSUME Basics, Losses, PopReady \/ BeginMapping \/ PushMapped \/ Report
  PROVE  Losses'
<1>0. TypeOK /\ ready \in Seq(Events) /\ mapped \in Seq(Events) /\ RawPlaces
  BY Types DEF Basics
<1>1. CASE PopReady
  <2>1. /\ ready # <<>> /\ next = {} /\ next' = {Head(ready)} /\ ready' = Tail(ready)
        /\ overflowed' = IF IsMarker(Head(ready)) THEN FALSE ELSE overflowed
        /\ UNCHANGED <<active, stage, mapped, lost, erased>>
    BY <1>0, <1>1 DEF PopReady, RawPlaces, tables, history
  <2>2. Range(ready) = {Head(ready)} \cup Range(ready')
    BY <1>0, <2>1, RangeOfTail
  <2>3. Range(ready') \cup next' = Range(ready) \cup next
    BY <2>1, <2>2
  <2>. QED  BY <2>1, <2>2, <2>3 DEF Losses, IsMarker
<1>2. CASE BeginMapping
  <2>1. /\ UNCHANGED <<active, stage, ready, overflowed, next, lost, erased>>
        /\ mapped' = mapped \/ mapped' = <<EventOf("overflow", NoSource, <<>>)>>
    BY <1>2 DEF BeginMapping, tables, history
  <2>2. \A e \in Range(mapped') : e \in Range(mapped) \/ ~ IsMarker(e)
    <3>1. ASSUME mapped' = <<EventOf("overflow", NoSource, <<>>)>>, NEW e \in Range(mapped')
          PROVE  ~ IsMarker(e)
      BY <3>1 DEF Range, EventOf, IsMarker
    <3>. QED  BY <2>1, <3>1
  <2>. QED  BY <2>1, <2>2 DEF Losses, IsMarker
<1>3. CASE PushMapped
  <2>. DEFINE e == Head(mapped)
  <2>1. /\ mapped # <<>> /\ mapped' = Tail(mapped)
        /\ UNCHANGED <<active, stage, overflowed, lost, erased>>
        /\ \/ next = {} /\ next' = {e} /\ ready' = ready
           \/ ready' = Append(ready, e) /\ next' = next
    BY <1>3 DEF PushMapped, tables, history
  <2>2. Range(mapped) = {e} \cup Range(mapped') /\ e \in Events
    BY <1>0, <2>1, RangeOfTail
  <2>3. Range(Append(ready, e)) = Range(ready) \cup {e}
    BY <1>0, <2>2, RangeOfAppend
  <2>4. /\ Range(ready) \subseteq Range(ready')
        /\ next \subseteq next'
    BY <2>1, <2>3
  <2>. HIDE DEF e
  <2>. QED  BY <2>1, <2>2, <2>4 DEF Losses, IsMarker
<1>4. CASE Report
  <2>1. PICK e \in next : IF stage = "running" /\ e.source \in active
                            THEN /\ IsMarker(e) => lost' = lost \ active
                                 /\ lost' \subseteq lost
                                 /\ erased' = erased
                            ELSE lost' = lost /\ erased' = (erased \/ IsMarker(e))
    BY <1>4 DEF Report, IsMarker
  <2>2. next' = {} /\ UNCHANGED <<active, stage, ready, overflowed, mapped>>
    BY <1>4 DEF Report, tables
  <2>3. SUFFICES ASSUME stage = "running", ~ erased' PROVE Losses'
    BY <2>2 DEF Losses
  <2>4. ~ erased
    BY <2>1, <2>3
  <2>5. lost' \cap active # {} => lost \cap active # {} /\ ~ IsMarker(e)
    BY <2>1, <2>3
  <2>6. \A f \in next : f = e
    BY <1>0, <2>1 DEF RawPlaces
  <2>7. lost' \cap active # {} => \E f \in Range(ready) : IsMarker(f)
    BY <2>3, <2>4, <2>5, <2>6 DEF Losses
  <2>. QED  BY <2>2, <2>3, <2>4, <2>7 DEF Losses, IsMarker
<1>. QED  BY <1>1, <1>2, <1>3, <1>4

\* The discovery worker makes no marker.
LEMMA PushedEvent ==
  ASSUME Basics, ReportDiscovered \/ FinishWalk
  PROVE  \E e \in Events : (PushReady(e) \/ UNCHANGED ready) /\ ~ IsMarker(e)
<1>1. request.id \in Ids /\ at \in Paths /\ <<>> \in Paths /\ problems \subseteq {"warning", "error"}
  BY ServedRequest, Types DEF ReportDiscovered, FinishWalk, Busy, Basics, TypeOK
<1>2. CASE ReportDiscovered
  <2>1. EventOf("created", request.id, at) \in Events /\ ~ IsMarker(EventOf("created", request.id, at))
    BY <1>1 DEF EventOf, Events, IsMarker
  <2>. QED  BY <1>2, <2>1 DEF ReportDiscovered
<1>3. CASE FinishWalk
  <2>1. \A level \in {"warning", "error"} : /\ EventOf(level, request.id, <<>>) \in Events
                                            /\ ~ IsMarker(EventOf(level, request.id, <<>>))
    BY <1>1 DEF EventOf, Events, IsMarker
  <2>. QED  BY <1>1, <1>3, <2>1 DEF FinishWalk
<1>. QED  BY <1>2, <1>3

LEMMA LossesOfDiscovery ==
  ASSUME Basics, Losses, ReportDiscovered \/ FinishWalk
  PROVE  Losses'
<1>0. TypeOK /\ ready \in Seq(Events)
  BY Types DEF Basics
<1>1. UNCHANGED <<active, stage, overflowed, next, mapped, lost, erased>>
  BY DEF ReportDiscovered, FinishWalk, tables, rawVars, history
<1>2. Range(ready) \subseteq Range(ready')
  <2>1. PICK e \in Events : (PushReady(e) \/ UNCHANGED ready) /\ ~ IsMarker(e)
    BY PushedEvent
  <2>. QED  BY <1>0, <2>1, PushReadyEffect
<1>. QED  BY <1>1, <1>2 DEF Losses, IsMarker

\* Only these steps change what Losses speaks of.
LEMMA WhoTouchesLosses ==
  ASSUME [Next]_vars
  PROVE  \/ \E id \in Ids : AddWatch(id) \/ RemoveWatch(id)
         \/ WatcherStops \/ StopBackend
         \/ PopReady \/ BeginMapping \/ MapForRecord \/ PushMapped \/ Report
         \/ ReportDiscovered \/ FinishWalk
         \/ UNCHANGED <<active, stage, ready, overflowed, next, mapped, lost, erased>>
<1>1. RawStep => \/ PopReady \/ BeginMapping \/ MapForRecord \/ PushMapped \/ Report
                 \/ UNCHANGED <<active, stage, ready, overflowed, next, mapped, lost, erased>>
  BY DEF RawStep, BeginPoll, PollTimesOut, Read, EndBatch, RawWorkerExits, kernelVars, tables, history
<1>2. DiscoveryStep => \/ ReportDiscovered \/ FinishWalk
                       \/ UNCHANGED <<active, stage, ready, overflowed, next, mapped, lost, erased>>
  BY DEF DiscoveryStep, TakeRequest, LookAtRoot, AddDiscoveredWatch, OpenDirectory, NextEntry,
         DiscoveryExits, kernelVars, tables, rawVars, history
<1>3. \A p \in Paths : Create(p) \/ Delete(p) =>
        UNCHANGED <<active, stage, ready, overflowed, next, mapped, lost, erased>>
  BY DEF Create, Delete, tables, rawVars
<1>4. UNCHANGED vars => UNCHANGED <<active, stage, ready, overflowed, next, mapped, lost, erased>>
  BY DEF vars, tables, rawVars, history
<1>. QED  BY <1>1, <1>2, <1>3, <1>4 DEF Next

LEMMA LossesStep ==
  ASSUME Basics, Owners, Losses, [Next]_vars
  PROVE  Losses'
<1>1. ASSUME UNCHANGED <<active, stage, ready, overflowed, next, mapped, lost, erased>>
      PROVE  Losses'
  BY <1>1 DEF Losses, IsMarker
<1>. QED  BY <1>1, WhoTouchesLosses, LossesOfMethods, LossesOfMapping, LossesOfRawWorker,
             LossesOfDiscovery

\* When everything has settled, every watch that lost a discovery request has been
\* told since, as long as no marker went with its watch: for any number of watches,
\* whatever the kernel's queue drops.
THEOREM LossesAreTold == Spec => []LossIsTold
<1>1. Init => Basics /\ RemovedStaysRemoved /\ Owners /\ Losses
  BY BasicsInit, RemovedInit, OwnersInit, LossesInit
<1>2. Basics /\ RemovedStaysRemoved /\ Owners /\ Losses /\ [Next]_vars
        => (Basics /\ RemovedStaysRemoved /\ Owners /\ Losses)'
  BY BasicsStep, RemovedStep, OwnersStep, LossesStep
<1>3. Losses => LossIsTold
  BY RangeOfEmpty DEF LossIsTold, Quiet, Losses
<1>. QED  BY <1>1, <1>2, <1>3, PTL DEF Spec
-----------------------------------------------------------------------------
(* No directory is left unwatched, and no entry unreported. *)

Serves(id) == request # NoRequest /\ request.id = id

\* What makes the application distrust a watch, sooner or later: a loss, a walk
\* that met a problem, a warning on its way.
FailedWalk(id) == Serves(id) /\ problems # {}
Warned(id) == \E e \in Range(ready) \cup next : e.source = id /\ e.kind \in {"warning", "error"}
Doomed(id) == id \in lost \/ FailedWalk(id) \/ Warned(id)
Sound(id) ==
  /\ id \in (active \cap Recursive) \ (told \cup missed) /\ "dir" \in Wanted[id]
  /\ ~ Doomed(id)

RootsMade == \A id \in added : Made(RootOf[id])

\* The kernel has an event for a new entry, in a batch that is not mapped yet or
\* at hand with a record of the watch still to be mapped.
Unmapped == IF todo = {} THEN Range(batch) ELSE Range(Tail(batch))
InFlight(id, p) ==
  \/ \E q \in Range(queued) \cup Unmapped : q.kind = "created" /\ q.path = p /\ q.wd = kernel[Front(p)]
  \/ /\ \E r \in todo : r.id = id
     /\ Head(batch).kind = "created" /\ Head(batch).path = p

\* The discovery worker has the entry on its list, or will list its directory.
InWalk(id, p) ==
  /\ Serves(id)
  /\ p \in listed \/ (walker \in {"report", "open"} /\ at = Front(p))

\* A directory that a request names, in the queue or served.
Requested(id, d) ==
  \/ [id |-> id, path |-> d] \in Range(discovery)
  \/ walker = "look" /\ request = [id |-> id, path |-> d]
  \/ walker = "add" /\ Serves(id) /\ at = d

\* An event for the entry is made, or the discovery worker is at it.
Announced(id, p) ==
  \/ EventOf("created", id, p) \in Range(mapped) \cup Range(ready) \cup next
  \/ walker \in {"add", "report"} /\ Serves(id) /\ at = p /\ at # request.path

Covered(id, d) ==
  \/ Watches(id, d)
  \/ /\ d # RootOf[id]
     /\ Watches(id, Front(d)) => InFlight(id, d) \/ InWalk(id, d) \/ Requested(id, d)

Coverage ==
  stage = "running" =>
    \A id \in Ids : Sound(id) => \A d \in Under(RootOf[id]) \cap Dirs \cap tree : MadeOnce(d) => Covered(id, d)

Reported(id, p) ==
  \/ p \in known[id]
  \/ /\ p # RootOf[id]
     /\ Watches(id, Front(p)) => InFlight(id, p) \/ InWalk(id, p) \/ Announced(id, p)

Reports ==
  stage = "running" =>
    \A id \in Ids : Sound(id) =>
      \A p \in Under(RootOf[id]) \cap tree : TypeOf(p) \in Wanted[id] /\ MadeOnce(p) => Reported(id, p)

\* Nothing but the watcher's and the backend's stop ends the running stage.
LEMMA StageStep ==
  ASSUME [Next]_vars, stage' = "running"
  PROVE  stage = "running" /\ ~ WatcherStops /\ ~ StopBackend
<1>1. ~ WatcherStops /\ ~ StopBackend
  BY DEF WatcherStops, StopBackend
<1>2. RawStep => stage' = stage
  BY DEF RawStep, PopReady, BeginPoll, PollTimesOut, Read, BeginMapping, MapForRecord,
         PushMapped, EndBatch, Report, RawWorkerExits, tables
<1>3. DiscoveryStep => stage' = stage
  BY DEF DiscoveryStep, TakeRequest, LookAtRoot, AddDiscoveredWatch, ReportDiscovered,
         OpenDirectory, NextEntry, FinishWalk, DiscoveryExits, tables
<1>4. \A p \in Paths : Create(p) \/ Delete(p) => stage' = stage
  BY DEF Create, Delete, tables
<1>5. \A id \in Ids : AddWatch(id) \/ RemoveWatch(id) => stage' = stage
  BY DEF AddWatch, RemoveWatch
<1>6. UNCHANGED vars => stage' = stage
  BY DEF vars, tables
<1>. QED  BY <1>1, <1>2, <1>3, <1>4, <1>5, <1>6 DEF Next

\* What no longer comes to nothing: a reason to distrust a watch stays one until
\* the application is told.
LEMMA LossStays ==
  ASSUME Basics, [Next]_vars, NEW id \in active, stage = "running", id \in lost
  PROVE  id \in lost' \/ id \in told'
<1>0. TypeOK
  BY DEF Basics
<1>1. ASSUME NEW p \in Paths, Create(p) \/ Delete(p) PROVE lost' = lost
  BY <1>1 DEF Create, Delete
<1>2. ASSUME NEW i \in Ids, AddWatch(i) \/ RemoveWatch(i) PROVE lost' = lost
  BY <1>2 DEF AddWatch, RemoveWatch, history
<1>3. MapForRecord => lost \subseteq lost'
  BY DEF MapForRecord, EnqueueDiscovered
<1>4. Report => lost' = lost \/ \E heard : lost' = lost \ heard /\ told' = told \cup heard
  BY DEF Report, history
<1>5. RawStep => MapForRecord \/ Report \/ lost' = lost
  BY DEF RawStep, PopReady, BeginPoll, PollTimesOut, Read, BeginMapping, PushMapped,
         EndBatch, RawWorkerExits, history
<1>6. DiscoveryStep => lost' = lost
  BY DEF DiscoveryStep, TakeRequest, LookAtRoot, AddDiscoveredWatch, ReportDiscovered,
         OpenDirectory, NextEntry, FinishWalk, DiscoveryExits, history
<1>7. WatcherStops \/ StopBackend \/ UNCHANGED vars => lost' = lost
  BY DEF WatcherStops, StopBackend, vars, history
<1>. QED  BY <1>1, <1>2, <1>3, <1>4, <1>5, <1>6, <1>7 DEF Next

LEMMA FailureStays ==
  ASSUME Basics, Owners, [Next]_vars, NEW id \in active, stage = "running", FailedWalk(id)
  PROVE  FailedWalk(id)' \/ Warned(id)'
<1>0. TypeOK /\ WalkPlaces /\ problems \subseteq {"warning", "error"}
  BY DEF Basics, TypeOK
<1>1. CASE FinishWalk
  <2>1. PICK level \in problems : /\ PushReady(EventOf(level, request.id, <<>>))
                                  /\ UNCHANGED <<request, next>>
    BY <1>1 DEF FinishWalk, FailedWalk, rawVars
  <2>. DEFINE e == EventOf(level, request.id, <<>>)
  <2>2. e.source = id /\ e.kind = level
    BY DEF FailedWalk, Serves, EventOf
  <2>3. e \in Events
    BY <1>0, <2>2, Types DEF EventOf, Events, TypeOK, Dirs
  <2>4. Live(e.source)
    BY <2>2 DEF Owners, Live, RecordsOf
  <2>5. e \in Range(ready')
    BY <1>0, <2>1, <2>3, <2>4, PushReadyEffect
  <2>. QED  BY <1>0, <2>2, <2>5 DEF Warned
<1>2. walker = "idle" => ~ FailedWalk(id)
  BY <1>0 DEF WalkPlaces, Busy, FailedWalk, Serves
<1>3. walker = "look" => ~ FailedWalk(id)
  BY <1>0 DEF WalkPlaces, FailedWalk
<1>4. AddDiscoveredWatch \/ OpenDirectory => request' = request /\ problems \subseteq problems'
  BY DEF AddDiscoveredWatch, AddOne, OpenDirectory
<1>5. ReportDiscovered \/ NextEntry => UNCHANGED <<request, problems>>
  BY DEF ReportDiscovered, NextEntry
<1>6. TakeRequest \/ DiscoveryExits => walker = "idle"
  BY DEF TakeRequest, DiscoveryExits
<1>7. LookAtRoot => walker = "look"
  BY DEF LookAtRoot
<1>8. RawStep => UNCHANGED <<request, problems>>
  BY DEF RawStep, PopReady, BeginPoll, PollTimesOut, Read, BeginMapping, MapForRecord,
         PushMapped, EndBatch, Report, RawWorkerExits, walkVars
<1>9. /\ \A p \in Paths : Create(p) \/ Delete(p) => UNCHANGED <<request, problems>>
      /\ \A i \in Ids : AddWatch(i) \/ RemoveWatch(i) => UNCHANGED <<request, problems>>
      /\ WatcherStops \/ StopBackend \/ UNCHANGED vars => UNCHANGED <<request, problems>>
  BY DEF Create, Delete, AddWatch, RemoveWatch, WatcherStops, StopBackend, vars, walkVars
<1>. QED  BY <1>1, <1>2, <1>3, <1>4, <1>5, <1>6, <1>7, <1>8, <1>9 DEF Next, DiscoveryStep, FailedWalk, Serves

LEMMA WarningStays ==
  ASSUME Basics, [Next]_vars, NEW id \in active, stage = "running", stage' = "running",
         id \in active', Warned(id)
  PROVE  Warned(id)' \/ id \in told'
<1>0. TypeOK /\ RawPlaces /\ ready \in Seq(Events) /\ mapped \in Seq(Events) /\ discovery \in Seq(Request)
  BY Types DEF Basics
<1>. DEFINE Warns(e) == e.source = id /\ e.kind \in {"warning", "error"}
<1>1. PICK e \in Range(ready) \cup next : Warns(e)
  BY DEF Warned
<1>2. e \in Range(ready') \cup next' => Warned(id)'
  BY <1>1 DEF Warned
<1>3. CASE PopReady
  <2>1. ready # <<>> /\ next = {} /\ next' = {Head(ready)} /\ ready' = Tail(ready)
    BY <1>0, <1>3 DEF PopReady, RawPlaces
  <2>2. Range(ready) = {Head(ready)} \cup Range(ready')
    BY <1>0, <2>1, RangeOfTail
  <2>. QED  BY <1>1, <1>2, <2>1, <2>2
<1>4. CASE PushMapped
  <2>1. /\ mapped # <<>>
        /\ \/ next = {} /\ ready' = ready
           \/ ready' = Append(ready, Head(mapped)) /\ next' = next
    BY <1>4 DEF PushMapped
  <2>2. Head(mapped) \in Events
    BY <1>0, <2>1, RangeOfTail
  <2>3. Range(Append(ready, Head(mapped))) = Range(ready) \cup {Head(mapped)}
    BY <1>0, <2>2, RangeOfAppend
  <2>. QED  BY <1>1, <1>2, <2>1, <2>3
<1>5. CASE Report
  <2>1. CASE e \in Range(ready)
    BY <1>2, <1>5, <2>1 DEF Report
  <2>2. CASE e \in next
    <3>1. PICK f \in next : stage = "running" /\ f.source \in active =>
            told' = told \cup CASE f.kind \in {"overflow", "marker"} -> active
                                [] f.kind \in {"warning", "error"} -> {f.source}
                                [] OTHER -> {}
      BY <1>5 DEF Report
    <3>2. f = e
      BY <1>0, <2>2, <3>1 DEF RawPlaces
    <3>3. told' = told \cup {id}
      BY <1>1, <3>1, <3>2
    <3>. QED  BY <3>3
  <2>. QED  BY <1>1, <2>1, <2>2
<1>6. CASE MapForRecord
  <2>1. next' = next
    BY <1>6 DEF MapForRecord
  <2>2. Range(ready) \subseteq Range(ready')
    <3>1. PICK r \in todo :
            /\ r \in Record
            /\ \/ Head(batch).path \in Dirs /\ EnqueueDiscovered(r.id, Head(batch).path)
               \/ ready' = ready
      BY <1>6, MapEffect DEF ToDiscover
    <3>. QED  BY <1>0, <3>1, EnqueueEffect DEF Record
  <2>. QED  BY <1>1, <1>2, <2>1, <2>2
<1>7. ASSUME NEW i \in Ids, RemoveWatch(i) PROVE Warned(id)'
  <2>1. Range(ready') = {g \in Range(ready) : g.source # i} /\ next' = next
    BY <1>0, <1>7, RemoveWatchEffect DEF RemoveWatch, rawVars
  <2>2. id # i
    BY <1>7 DEF RemoveWatch
  <2>. QED  BY <1>1, <1>2, <2>1, <2>2
<1>8. CASE ReportDiscovered \/ FinishWalk
  <2>1. next' = next /\ (ready' = ready \/ \E g \in Events : PushReady(g))
    BY <1>0, <1>8, PushedEvent DEF ReportDiscovered, FinishWalk, rawVars
  <2>2. Range(ready) \subseteq Range(ready')
    BY <1>0, <2>1, PushReadyEffect
  <2>. QED  BY <1>1, <1>2, <2>1, <2>2
<1>9. RawStep => PopReady \/ PushMapped \/ Report \/ MapForRecord \/ UNCHANGED <<ready, next>>
  BY DEF RawStep, BeginPoll, PollTimesOut, Read, BeginMapping, EndBatch, RawWorkerExits
<1>10. DiscoveryStep => ReportDiscovered \/ FinishWalk \/ UNCHANGED <<ready, next>>
  BY DEF DiscoveryStep, TakeRequest, LookAtRoot, AddDiscoveredWatch, OpenDirectory, NextEntry,
         DiscoveryExits, rawVars
<1>11. /\ \A p \in Paths : Create(p) \/ Delete(p) => UNCHANGED <<ready, next>>
       /\ \A i \in Ids : AddWatch(i) => UNCHANGED <<ready, next>>
       /\ UNCHANGED vars => UNCHANGED <<ready, next>>
  BY DEF Create, Delete, AddWatch, vars, rawVars
<1>12. ~ WatcherStops /\ ~ StopBackend
  BY StageStep
<1>. QED  BY <1>1, <1>2, <1>3, <1>4, <1>5, <1>6, <1>7, <1>8, <1>9, <1>10, <1>11, <1>12 DEF Next

\* A watch is sound only if it was before the step, or is just added.
LEMMA SoundStep ==
  ASSUME Basics, Owners, [Next]_vars, stage' = "running", NEW id \in Ids, ~ AddWatch(id), Sound(id)'
  PROVE  Sound(id)
<1>1. stage = "running"
  BY StageStep
<1>2. id \in active /\ id \notin told /\ id \notin missed
  <2>1. active' \subseteq active \/ \E i \in Ids : AddWatch(i) /\ active' \subseteq active \cup {i}
    <3>1. \A i \in Ids : AddWatch(i) => active' \subseteq active \cup {i}
      BY DEF AddWatch
    <3>2. \A i \in Ids : RemoveWatch(i) => active' \subseteq active
      BY DEF RemoveWatch
    <3>3. RawStep => active' = active
      BY DEF RawStep, PopReady, BeginPoll, PollTimesOut, Read, BeginMapping, MapForRecord,
             PushMapped, EndBatch, Report, RawWorkerExits, tables
    <3>4. DiscoveryStep => active' = active
      BY DEF DiscoveryStep, TakeRequest, LookAtRoot, AddDiscoveredWatch, ReportDiscovered,
             OpenDirectory, NextEntry, FinishWalk, DiscoveryExits, tables
    <3>5. /\ \A p \in Paths : Create(p) \/ Delete(p) => active' = active
          /\ WatcherStops \/ StopBackend \/ UNCHANGED vars => active' = active
      BY DEF Create, Delete, WatcherStops, StopBackend, vars, tables
    <3>. QED  BY <3>1, <3>2, <3>3, <3>4, <3>5 DEF Next
  <2>2. told \subseteq told'
    <3>1. RawStep => told \subseteq told'
      BY DEF RawStep, PopReady, BeginPoll, PollTimesOut, Read, BeginMapping, MapForRecord,
             PushMapped, EndBatch, Report, RawWorkerExits, history
    <3>2. DiscoveryStep => told' = told
      BY DEF DiscoveryStep, TakeRequest, LookAtRoot, AddDiscoveredWatch, ReportDiscovered,
             OpenDirectory, NextEntry, FinishWalk, DiscoveryExits, history
    <3>3. /\ \A p \in Paths : Create(p) \/ Delete(p) => told' = told
          /\ \A i \in Ids : AddWatch(i) \/ RemoveWatch(i) => told \subseteq told'
          /\ WatcherStops \/ StopBackend \/ UNCHANGED vars => told' = told
      BY DEF Create, Delete, AddWatch, RemoveWatch, WatcherStops, StopBackend, vars, history
    <3>. QED  BY <3>1, <3>2, <3>3 DEF Next
  <2>3. missed \subseteq missed'
    <3>1. RawStep => missed \subseteq missed'
      BY DEF RawStep, PopReady, BeginPoll, PollTimesOut, Read, BeginMapping, MapForRecord,
             PushMapped, EndBatch, Report, RawWorkerExits, history
    <3>2. DiscoveryStep => missed' = missed
      BY DEF DiscoveryStep, TakeRequest, LookAtRoot, AddDiscoveredWatch, ReportDiscovered,
             OpenDirectory, NextEntry, FinishWalk, DiscoveryExits, history
    <3>3. /\ \A p \in Paths : Create(p) \/ Delete(p) => missed \subseteq missed'
          /\ \A i \in Ids : AddWatch(i) \/ RemoveWatch(i) => missed' = missed
          /\ WatcherStops \/ StopBackend \/ UNCHANGED vars => missed' = missed
      BY DEF Create, Delete, Notify, AddWatch, RemoveWatch, WatcherStops, StopBackend, vars, history
    <3>. QED  BY <3>1, <3>2, <3>3 DEF Next
  <2>. QED  BY <2>1, <2>2, <2>3 DEF Sound
<1>. QED  BY <1>1, <1>2, LossStays, FailureStays, WarningStays DEF Sound, Doomed

\* Watches that are new to a set of directories leave the others as they were.
LEMMA WatchThemWatches ==
  ASSUME Basics, NEW id \in Ids, NEW ds \in SUBSET Dirs, WatchThem(id, ds)
  PROVE  /\ \A d \in Paths : kernel[d] # 0 => kernel'[d] = kernel[d]
         /\ records \subseteq records'
         /\ \A i, d : d \in Paths /\ Watches(i, d)' =>
              (Watches(i, d) /\ kernel'[d] = kernel[d]) \/ (i = id /\ d \in ds)
         /\ \A d \in ds : Watches(id, d)'
<1>1. TypeOK /\ nextWd # 0 /\ nextWd \in Nat /\ kernel \in [Paths -> Nat] /\ ds \subseteq Paths
  BY Types DEF Basics, Descriptors
<1>2. /\ kernel' \in [Paths -> Nat]
      /\ \A p \in Paths : \/ kernel'[p] = kernel[p]
                          \/ (kernel[p] = 0 /\ p \in ds /\ nextWd <= kernel'[p])
      /\ \A p \in ds : kernel[p] = 0 => nextWd <= kernel'[p]
      /\ records' = records \cup {[wd |-> kernel'[d], id |-> id, dir |-> d] : d \in ds}
  BY <1>1, WatchThemEffect
<1>3. \A r \in records : r.wd < nextWd /\ r.wd \in Nat
  BY <1>1 DEF Basics, Descriptors, TypeOK, Record
<1>4. ASSUME NEW i, NEW d \in Paths, Watches(i, d)', ~ (i = id /\ d \in ds)
      PROVE  Watches(i, d) /\ kernel'[d] = kernel[d]
  <2>. DEFINE r == [wd |-> kernel'[d], id |-> i, dir |-> d]
  <2>1. r \in records' /\ kernel'[d] # 0
    BY <1>4 DEF Watches
  <2>2. r \in records
    BY <1>2, <1>4, <2>1
  <2>3. kernel'[d] < nextWd
    BY <1>3, <2>2
  <2>4. kernel'[d] = kernel[d]
    BY <1>1, <1>2, <2>3
  <2>. QED  BY <2>1, <2>2, <2>4 DEF Watches
<1>5. \A d \in ds : Watches(id, d)'
  BY <1>1, <1>2 DEF Watches
<1>. QED  BY <1>2, <1>4, <1>5

\* A watch of a directory that exists stays, as long as its owner does.
LEMMA WatchesStay ==
  ASSUME Basics, [Next]_vars, stage' = "running", NEW id \in active', NEW d \in tree', Watches(id, d)
  PROVE  Watches(id, d)' /\ kernel'[d] = kernel[d]
<1>0. TypeOK /\ kernel \in [Paths -> Nat] /\ d \in Paths
  <2>1. TypeOK' /\ TypeOK
    BY BasicsStep DEF Basics
  <2>. QED  BY <2>1, Types DEF TypeOK
<1>1. ASSUME NEW p \in Paths, Create(p) PROVE UNCHANGED <<kernel, records>>
  BY <1>1 DEF Create, tables
<1>2. ASSUME NEW p \in Paths, Delete(p) PROVE kernel'[d] = kernel[d] /\ records' = records
  BY <1>0, <1>2 DEF Delete, tables
<1>3. ASSUME NEW i \in Ids, NEW ds \in SUBSET Dirs, WatchThem(i, ds)
      PROVE  kernel'[d] = kernel[d] /\ records \subseteq records'
  BY <1>0, <1>3, WatchThemWatches DEF Watches
<1>4. ASSUME NEW i \in Ids, AddWatch(i) PROVE kernel'[d] = kernel[d] /\ records \subseteq records'
  <2>1. PICK ds \in SUBSET Dirs : WatchThem(i, ds)
    BY <1>4, OptionsAssumption DEF AddWatch
  <2>. QED  BY <1>3, <2>1
<1>5. ASSUME AddDiscoveredWatch PROVE kernel'[d] = kernel[d] /\ records \subseteq records'
  <2>1. UNCHANGED <<kernel, records>> \/ WatchThem(request.id, {at})
    BY <1>5 DEF AddDiscoveredWatch, AddOne
  <2>2. request.id \in Ids /\ {at} \in SUBSET Dirs
    BY <1>5, ServedRequest DEF AddDiscoveredWatch, Busy, Basics, WalkPlaces
  <2>. QED  BY <1>3, <2>1, <2>2
<1>6. ASSUME NEW i \in Ids, RemoveWatch(i) PROVE Watches(id, d)' /\ kernel'[d] = kernel[d]
  <2>1. /\ records' = {r \in records : r.id # i} /\ i # id
        /\ \A r \in records', p \in Paths : kernel[p] = r.wd => kernel'[p] = kernel[p]
    BY <1>0, <1>6, RemoveWatchEffect DEF RemoveWatch
  <2>2. [wd |-> kernel[d], id |-> id, dir |-> d] \in records'
    BY <2>1 DEF Watches
  <2>. QED  BY <1>0, <2>1, <2>2 DEF Watches
<1>7. ~ StopBackend
  BY StageStep
<1>. QED  BY <1>1, <1>2, <1>4, <1>5, <1>6, <1>7, WhoTouchesWatches DEF Watches

\* Only the discovery worker adds a watch for an owner that is not just added.
LEMMA NewWatches ==
  ASSUME Basics, [Next]_vars, stage' = "running", NEW id \in Ids, ~ AddWatch(id),
         NEW d \in Paths, Watches(id, d)'
  PROVE  \/ Watches(id, d) /\ kernel'[d] = kernel[d]
         \/ AddDiscoveredWatch /\ Serves(id) /\ at = d
<1>0. TypeOK /\ kernel \in [Paths -> Nat]
  BY Types DEF Basics
<1>1. ASSUME NEW p \in Paths, Create(p) \/ Delete(p) PROVE Watches(id, d) /\ kernel'[d] = kernel[d]
  <2>1. kernel' = kernel \/ kernel' = [kernel EXCEPT ![p] = 0]
    BY <1>1 DEF Create, Delete
  <2>2. records' = records
    BY <1>1 DEF Create, Delete, tables
  <2>. QED  BY <1>0, <2>1, <2>2 DEF Watches
<1>2. ASSUME NEW i \in Ids, AddWatch(i) PROVE Watches(id, d) /\ kernel'[d] = kernel[d]
  <2>1. PICK ds \in SUBSET Dirs : WatchThem(i, ds)
    BY <1>2, OptionsAssumption DEF AddWatch
  <2>. QED  BY <1>2, <2>1, WatchThemWatches
<1>3. ASSUME NEW i \in Ids, RemoveWatch(i) PROVE Watches(id, d) /\ kernel'[d] = kernel[d]
  <2>1. records' \subseteq records /\ \A p \in Paths : kernel'[p] = kernel[p] \/ kernel'[p] = 0
    BY <1>0, <1>3, RemoveWatchEffect
  <2>. QED  BY <2>1 DEF Watches
<1>4. CASE AddDiscoveredWatch
  <2>1. UNCHANGED <<kernel, records>> \/ WatchThem(request.id, {at})
    BY <1>4 DEF AddDiscoveredWatch, AddOne
  <2>2. request.id \in Ids /\ {at} \in SUBSET Dirs /\ request # NoRequest
    BY <1>4, ServedRequest DEF AddDiscoveredWatch, Busy, Basics, WalkPlaces
  <2>. QED  BY <1>4, <2>1, <2>2, WatchThemWatches DEF Watches, Serves
<1>5. ~ StopBackend
  BY StageStep
<1>. QED  BY <1>1, <1>2, <1>3, <1>4, <1>5, WhoTouchesWatches DEF Watches

LEMMA BelowRoot ==
  ASSUME NEW r \in Paths, NEW p \in Under(r), p # r
  PROVE  /\ p \in Paths /\ p # <<>> /\ Front(p) \in Dirs /\ Front(p) \in Under(r)
         /\ Len(Front(p)) \in Nat /\ Len(p) \in Nat /\ Len(Front(p)) < Len(p)
<1>1. p \in Seq(Names) /\ r \in Seq(Names) /\ p \in Paths /\ Len(p) \in Nat /\ Len(r) \in Nat
  BY PathsAssumption DEF Under
<1>2. Len(r) <= Len(p) /\ \A i \in 1 .. Len(r) : r[i] = p[i]
  <2>1. Len(r) <= Len(p) /\ SubSeq(r, 1, Len(r)) = SubSeq(p, 1, Len(r))
    BY DEF Under, IsPrefix
  <2>2. ASSUME NEW i \in 1 .. Len(r) PROVE r[i] = p[i]
    <3>1. SubSeq(r, 1, Len(r))[i] = r[i] /\ SubSeq(p, 1, Len(r))[i] = p[i]
      BY <1>1, <2>1, <2>2
    <3>. QED  BY <2>1, <3>1
  <2>. QED  BY <2>1, <2>2
<1>3. Len(r) # Len(p)
  <2>1. SUFFICES ASSUME Len(r) = Len(p) PROVE r = p
    OBVIOUS
  <2>. QED  BY <1>1, <1>2, <2>1
<1>4. p # <<>>
  BY <1>1, <1>2, <1>3
<1>5. /\ Front(p) \in Seq(Names) /\ Len(Front(p)) = Len(p) - 1
      /\ \A i \in 1 .. Len(p) - 1 : Front(p)[i] = p[i]
  BY <1>1, <1>4, FrontProperties
<1>6. Front(p) \in Dirs /\ Front(p) \in Paths
  BY <1>1, <1>4, PathsAssumption DEF Dirs
<1>7. Len(r) <= Len(Front(p)) /\ \A i \in 1 .. Len(r) : r[i] = Front(p)[i]
  BY <1>1, <1>2, <1>3, <1>5
<1>8. SubSeq(r, 1, Len(r)) = SubSeq(Front(p), 1, Len(r))
  BY <1>1, <1>5, <1>7
<1>. QED  BY <1>1, <1>4, <1>5, <1>6, <1>7, <1>8 DEF Under, IsPrefix

\* A path is under itself, and under what its parent is under.
LEMMA InItself ==
  ASSUME NEW p \in Paths
  PROVE  p \in Under(p)
<1>1. p \in Seq(Names)
  BY PathsAssumption
<1>. QED  BY <1>1 DEF Under, IsPrefix

LEMMA MadeOnceAbove ==
  ASSUME NEW p \in Paths, p # <<>>, MadeOnce(p)
  PROVE  MadeOnce(Front(p))
<1>. SUFFICES ASSUME NEW d \in Returned, Front(p) \in Under(d) PROVE FALSE
  BY DEF MadeOnce
<1>1. p \in Seq(Names) /\ d \in Seq(Names) /\ Len(p) \in Nat /\ Len(d) \in Nat
  BY PathsAssumption DEF Returned, Dirs
<1>2. /\ Front(p) \in Seq(Names) /\ Len(Front(p)) = Len(p) - 1
      /\ \A i \in 1 .. Len(p) - 1 : Front(p)[i] = p[i]
  BY <1>1, FrontProperties
<1>3. Len(d) <= Len(Front(p)) /\ SubSeq(d, 1, Len(d)) = SubSeq(Front(p), 1, Len(d))
  BY DEF Under, IsPrefix
<1>4. Len(d) <= Len(p) /\ SubSeq(Front(p), 1, Len(d)) = SubSeq(p, 1, Len(d))
  BY <1>1, <1>2, <1>3
<1>5. p \in Under(d)
  BY <1>3, <1>4 DEF Under, IsPrefix
<1>. QED  BY <1>5 DEF MadeOnce

\* What was made again stays so.
LEMMA MadeOnceBefore ==
  ASSUME Basics, [Next]_vars, NEW p, MadeOnce(p)'
  PROVE  MadeOnce(p)
<1>0. creations \in [Paths -> Nat] /\ Dirs \subseteq Paths
  BY DEF Basics, TypeOK, Dirs
<1>1. \A d \in Paths : creations[d] <= creations'[d]
  <2>1. ASSUME NEW x \in Paths, Create(x) PROVE \A d \in Paths : creations[d] <= creations'[d]
    <3>1. creations' = [creations EXCEPT ![x] = @ + 1]
      BY <2>1 DEF Create
    <3>. QED  BY <1>0, <3>1
  <2>2. /\ \A x \in Paths : Delete(x) => creations' = creations
        /\ \A i \in Ids : AddWatch(i) \/ RemoveWatch(i) => creations' = creations
        /\ StopBackend \/ AddDiscoveredWatch => creations' = creations
    BY DEF Delete, AddWatch, RemoveWatch, StopBackend, AddDiscoveredWatch
  <2>. QED  BY <1>0, <2>1, <2>2, WhoTouchesWatches
<1>2. \A d \in Dirs : d \in Returned => d \in Returned'
  <2>1. creations' \in [Paths -> Nat]
    BY BasicsStep DEF Basics, TypeOK
  <2>. QED  BY <1>0, <1>1, <2>1 DEF Returned
<1>. QED  BY <1>2 DEF MadeOnce, Returned, Under

LEMMA RootsStep ==
  ASSUME Basics, Disk, RootsMade, [Next]_vars
  PROVE  RootsMade'
<1>0. TypeOK /\ creations \in [Paths -> Nat] /\ added \subseteq Ids
  BY DEF Basics, TypeOK
<1>1. \A p \in Paths : Made(p) => Made(p)'
  <2>1. ASSUME NEW p \in Paths, Create(p) \/ Delete(p) PROVE \A q \in Paths : creations'[q] >= creations[q]
    BY <1>0, <2>1 DEF Create, Delete
  <2>2. ASSUME NEW id \in Ids, AddWatch(id) \/ RemoveWatch(id) PROVE creations' = creations
    BY <2>2 DEF AddWatch, RemoveWatch
  <2>3. StopBackend \/ AddDiscoveredWatch => creations' = creations
    BY DEF StopBackend, AddDiscoveredWatch
  <2>4. \A q \in Paths : creations'[q] >= creations[q]
    BY <1>0, <2>1, <2>2, <2>3, WhoTouchesWatches
  <2>5. \A p \in Paths : creations'[p] \in Nat
    BY BasicsStep DEF Basics, TypeOK
  <2>. QED  BY <1>0, <2>4, <2>5 DEF Made
<1>2. \A id \in added' : id \in added \/ Made(RootOf[id])
  <2>1. RawStep => added' = added
    BY DEF RawStep, PopReady, BeginPoll, PollTimesOut, Read, BeginMapping, MapForRecord,
           PushMapped, EndBatch, Report, RawWorkerExits, tables
  <2>2. DiscoveryStep => added' = added
    BY DEF DiscoveryStep, TakeRequest, LookAtRoot, AddDiscoveredWatch, ReportDiscovered,
           OpenDirectory, NextEntry, FinishWalk, DiscoveryExits, tables
  <2>3. /\ \A p \in Paths : Create(p) \/ Delete(p) => added' = added
        /\ \A id \in Ids : RemoveWatch(id) => added' = added
        /\ WatcherStops \/ StopBackend \/ UNCHANGED vars => added' = added
    BY DEF Create, Delete, RemoveWatch, WatcherStops, StopBackend, vars, tables
  <2>4. \A id \in Ids : AddWatch(id) => added' = added \cup {id} /\ Made(RootOf[id])
    BY DEF AddWatch, Disk
  <2>. QED  BY <2>1, <2>2, <2>3, <2>4 DEF Next
<1>3. \A id \in added' : RootOf[id] \in Paths
  BY BasicsStep, OptionsAssumption DEF Basics, TypeOK, Dirs
<1>. QED  BY <1>0, <1>1, <1>2, <1>3, OptionsAssumption DEF RootsMade, Dirs

\* Only these steps touch the raw events.
LEMMA WhoTouchesRaws ==
  ASSUME [Next]_vars
  PROVE  \/ \E p \in Paths : Create(p) \/ Delete(p)
         \/ StopBackend \/ Read \/ BeginMapping \/ MapForRecord
         \/ UNCHANGED <<queued, batch, todo>>
<1>1. RawStep => Read \/ BeginMapping \/ MapForRecord \/ UNCHANGED <<queued, batch, todo>>
  BY DEF RawStep, PopReady, BeginPoll, PollTimesOut, PushMapped, EndBatch, Report,
         RawWorkerExits, kernelVars
<1>2. DiscoveryStep => UNCHANGED <<queued, batch, todo>>
  BY DEF DiscoveryStep, TakeRequest, LookAtRoot, AddDiscoveredWatch, ReportDiscovered,
         OpenDirectory, NextEntry, FinishWalk, DiscoveryExits, kernelVars, rawVars
<1>3. /\ \A i \in Ids : AddWatch(i) \/ RemoveWatch(i) => UNCHANGED <<queued, batch, todo>>
      /\ WatcherStops \/ UNCHANGED vars => UNCHANGED <<queued, batch, todo>>
  BY DEF AddWatch, RemoveWatch, WatcherStops, vars, kernelVars, rawVars
<1>. QED  BY <1>1, <1>2, <1>3 DEF Next

\* What becomes of an entry when its raw event is mapped for a record.
Mapped(id, p) ==
  /\ p \in Dirs => [id |-> id, path |-> p] \in Range(discovery') \/ id \in lost'
  /\ IsWanted(id, p) => EventOf("created", id, p) \in Range(mapped')

LEMMA InFlightStep ==
  ASSUME Basics, [Next]_vars, stage' = "running", NEW id \in Recursive, "dir" \in Wanted[id],
         NEW p \in Paths, Watches(id, Front(p)), kernel'[Front(p)] = kernel[Front(p)],
         InFlight(id, p)
  PROVE  InFlight(id, p)' \/ Mapped(id, p)
<1>0. /\ TypeOK /\ RawPlaces /\ queued \in Seq(Raw) /\ batch \in Seq(Raw)
      /\ stage = "running" /\ ~ StopBackend /\ id \in Ids
  BY Types, StageStep, OptionsAssumption DEF Basics
<1>. DEFINE Is(q) == q.kind = "created" /\ q.path = p /\ q.wd = kernel[Front(p)]
<1>1. (\E q \in Range(queued') \cup Unmapped' : Is(q)) => InFlight(id, p)'
  BY DEF InFlight
<1>2. ASSUME NEW x \in Paths, Create(x) \/ Delete(x) PROVE InFlight(id, p)'
  <2>1. PICK kind \in {"created", "removed"} : Notify(x, kind)
    BY <1>2 DEF Create, Delete
  <2>2. UNCHANGED <<batch, todo>>
    BY <1>2 DEF Create, Delete, rawVars
  <2>3. Range(queued) \subseteq Range(queued')
    <3>. DEFINE event == [wd |-> kernel[Front(x)], kind |-> kind, path |-> x]
                overflow == [wd |-> 0, kind |-> "overflow", path |-> <<>>]
    <3>1. queued' \in {queued, Append(queued, event), Append(queued, overflow)}
      BY <2>1 DEF Notify
    <3>2. x # <<>> /\ Front(x) \in Paths
      BY <1>2, PathsAssumption DEF Create, Delete, Dirs
    <3>3. event \in Raw /\ overflow \in Raw
      BY <1>0, <3>2, Types DEF Raw, Dirs
    <3>4. /\ Range(Append(queued, event)) = Range(queued) \cup {event}
          /\ Range(Append(queued, overflow)) = Range(queued) \cup {overflow}
      BY <1>0, <3>3, RangeOfAppend
    <3>. HIDE DEF event, overflow
    <3>. QED  BY <3>1, <3>4
  <2>. QED  BY <1>2, <2>2, <2>3 DEF InFlight, Unmapped
<1>3. CASE Read
  <2>1. batch = <<>> /\ todo = {} /\ todo' = {} /\ batch' = queued
    BY <1>0, <1>3 DEF Read, RawPlaces
  <2>2. PICK q \in Range(queued) : Is(q)
    BY <2>1, RangeOfEmpty DEF InFlight, Unmapped
  <2>3. q \in Unmapped'
    BY <2>1, <2>2 DEF Unmapped
  <2>. QED  BY <1>1, <2>2, <2>3
<1>4. CASE BeginMapping
  <2>1. /\ todo = {} /\ batch # <<>> /\ UNCHANGED <<queued, kernel>>
        /\ \/ batch' = Tail(batch) /\ todo' = {} /\ Head(batch).kind = "overflow"
           \/ /\ todo' = {r \in records : r.wd = Head(batch).wd}
              /\ batch' = IF todo' = {} THEN Tail(batch) ELSE batch
    BY <1>4 DEF BeginMapping, kernelVars
  <2>2. Range(batch) = {Head(batch)} \cup Range(Tail(batch))
    BY <1>0, <2>1, RangeOfTail
  <2>3. PICK q \in Range(queued) \cup Range(batch) : Is(q)
    BY <2>1 DEF InFlight, Unmapped
  <2>4. Range(Tail(batch)) \subseteq Unmapped'
    BY <2>1 DEF Unmapped
  <2>5. CASE q = Head(batch)
    <3>1. Head(batch).kind = "created" /\ Head(batch).path = p /\ Head(batch).wd = kernel[Front(p)]
      BY <2>3, <2>5
    <3>2. todo' = {r \in records : r.wd = kernel[Front(p)]}
      BY <2>1, <3>1
    <3>3. [wd |-> kernel[Front(p)], id |-> id, dir |-> Front(p)] \in todo'
      BY <3>2 DEF Watches
    <3>4. batch' = batch /\ \E r \in todo' : r.id = id
      BY <2>1, <3>1, <3>3
    <3>. QED  BY <3>1, <3>4 DEF InFlight
  <2>. QED  BY <1>1, <2>1, <2>2, <2>3, <2>4, <2>5
<1>5. CASE MapForRecord
  <2>. DEFINE raw == Head(batch)
              event(r) == EventOf(raw.kind, r.id, raw.path)
  <2>1. PICK r \in todo :
          /\ batch # <<>> /\ raw \in Raw /\ r \in Record /\ event(r) \in Events
          /\ todo' = todo \ {r} /\ batch' = IF todo' = {} THEN Tail(batch) ELSE batch
          /\ mapped' = IF IsWanted(r.id, raw.path) THEN Append(mapped, event(r)) ELSE mapped
          /\ IF IsWanted(r.id, raw.path) /\ ToDiscover(r, raw, raw.path)
               THEN EnqueueDiscovered(r.id, raw.path)
               ELSE UNCHANGED <<ready, discovery, overflowed, lost>>
    BY <1>5, MapEffect
  <2>2. UNCHANGED <<queued, kernel>> /\ Unmapped' = Unmapped
    BY <1>5, <2>1 DEF MapForRecord, Unmapped, kernelVars
  <2>3. CASE \E q \in Range(queued) \cup Unmapped : Is(q)
    BY <1>1, <2>2, <2>3
  <2>4. ASSUME NEW s \in todo, s.id = id, raw.kind = "created", raw.path = p
        PROVE  InFlight(id, p)' \/ Mapped(id, p)
    <3>1. CASE s # r
      <4>1. s \in todo' /\ batch' = batch
        BY <2>1, <2>4, <3>1
      <4>. QED  BY <2>4, <4>1 DEF InFlight
    <3>2. CASE s = r
      <4>1. event(r) = EventOf("created", id, p) /\ r.id = id
        BY <2>4, <3>2
      <4>2. IsWanted(id, p) => EventOf("created", id, p) \in Range(mapped')
        <5>1. mapped \in Seq(Events)
          BY <1>0 DEF TypeOK
        <5>2. Range(Append(mapped, event(r))) = Range(mapped) \cup {event(r)}
          BY <2>1, <5>1, RangeOfAppend
        <5>. QED  BY <2>1, <2>4, <4>1, <5>2
      <4>3. p \in Dirs => [id |-> id, path |-> p] \in Range(discovery') \/ id \in lost'
        <5>1. SUFFICES ASSUME p \in Dirs PROVE [id |-> id, path |-> p] \in Range(discovery') \/ id \in lost'
          OBVIOUS
        <5>2. IsWanted(id, p) /\ ToDiscover(r, raw, p)
          BY <2>4, <4>1, <5>1 DEF IsWanted, TypeOf, Dirs, ToDiscover
        <5>3. EnqueueDiscovered(id, p)
          BY <2>1, <2>4, <4>1, <5>2
        <5>. QED  BY <1>0, <5>1, <5>3, EnqueueEffect
      <4>. QED  BY <4>2, <4>3 DEF Mapped
    <3>. QED  BY <3>1, <3>2
  <2>. QED  BY <2>3, <2>4 DEF InFlight
<1>6. CASE UNCHANGED <<queued, batch, todo>>
  BY <1>6 DEF InFlight, Unmapped
<1>. QED  BY <1>0, <1>2, <1>3, <1>4, <1>5, <1>6, WhoTouchesRaws

\* Only the discovery worker moves itself.
LEMMA WhoMovesTheWalk ==
  ASSUME [Next]_vars
  PROVE  DiscoveryStep \/ UNCHANGED walkVars
<1>1. RawStep => UNCHANGED walkVars
  BY DEF RawStep, PopReady, BeginPoll, PollTimesOut, Read, BeginMapping, MapForRecord,
         PushMapped, EndBatch, Report, RawWorkerExits
<1>2. /\ \A p \in Paths : Create(p) \/ Delete(p) => UNCHANGED walkVars
      /\ \A i \in Ids : AddWatch(i) \/ RemoveWatch(i) => UNCHANGED walkVars
      /\ WatcherStops \/ StopBackend \/ UNCHANGED vars => UNCHANGED walkVars
  BY DEF Create, Delete, AddWatch, RemoveWatch, WatcherStops, StopBackend, vars
<1>. QED  BY <1>1, <1>2 DEF Next

\* The walk comes to an entry on its list, lists the directory it is in, or fails.
LEMMA InWalkStep ==
  ASSUME Basics, Disk, [Next]_vars, NEW id \in Ids, NEW p \in tree, p # <<>>, InWalk(id, p)
  PROVE  \/ InWalk(id, p)' \/ FailedWalk(id)'
         \/ /\ Serves(id)' /\ at' = p /\ p # request'.path
            /\ walker' = IF p \in Dirs THEN "add" ELSE "report"
<1>0. /\ TypeOK /\ WalkPlaces /\ p \in Paths /\ Front(p) \in Dirs /\ Front(p) \in tree
      /\ request # NoRequest /\ request.id = id
  BY Types DEF Basics, TypeOK, Disk, InWalk, Serves
<1>1. walker \notin {"idle", "look", "finish", "done", "add"} \/ (walker = "add" /\ p \in listed)
  BY <1>0 DEF InWalk, WalkPlaces, Busy
<1>2. CASE UNCHANGED walkVars
  BY <1>2 DEF InWalk, Serves, walkVars
<1>3. CASE AddDiscoveredWatch
  BY <1>1, <1>3 DEF AddDiscoveredWatch, InWalk, Serves
<1>4. CASE ReportDiscovered
  BY <1>0, <1>4 DEF ReportDiscovered, InWalk, Serves
<1>5. CASE OpenDirectory
  <2>1. UNCHANGED <<request, at>> /\ walker = "open"
    BY <1>5 DEF OpenDirectory
  <2>2. CASE at \notin tree
    BY <1>0, <1>5, <2>1, <2>2 DEF OpenDirectory, FailedWalk, Serves
  <2>3. CASE at \in tree
    <3>1. listed' = listed \cup (ChildrenOf(at) \cap tree)
      BY <1>5, <2>3 DEF OpenDirectory
    <3>2. p \in listed'
      BY <1>0, <2>1, <3>1 DEF ChildrenOf, InWalk
    <3>. QED  BY <1>0, <2>1, <3>2 DEF InWalk, Serves
  <2>. QED  BY <2>2, <2>3
<1>6. CASE NextEntry
  <2>1. p \in listed /\ UNCHANGED request
    BY <1>6 DEF NextEntry, InWalk
  <2>2. PICK x \in listed : at' = x /\ listed' = listed \ {x} /\ walker' = IF x \in Dirs THEN "add" ELSE "report"
    BY <1>6, <2>1 DEF NextEntry
  <2>3. p # request.path
    <3>1. Len(request.path) < Len(p) /\ request.path \in Paths
      BY <1>0, <2>1, ServedRequest DEF WalkPlaces, Basics, Dirs
    <3>2. Len(p) \in Nat
      BY <1>0, PathsAssumption
    <3>. QED  BY <3>1, <3>2
  <2>. QED  BY <1>0, <2>1, <2>2, <2>3 DEF InWalk, Serves
<1>7. ~ TakeRequest /\ ~ LookAtRoot /\ ~ FinishWalk /\ ~ DiscoveryExits
  BY <1>1 DEF TakeRequest, LookAtRoot, FinishWalk, DiscoveryExits
<1>. QED  BY <1>2, <1>3, <1>4, <1>5, <1>6, <1>7, WhoMovesTheWalk DEF DiscoveryStep

\* A request is served, given up with a loss, or its walk finds the directory watched.
LEMMA RequestedStep ==
  ASSUME Basics, Owners, RecordsFresh, [Next]_vars, stage' = "running",
         NEW id \in active, id \in active', NEW d \in Dirs, d \in tree, MadeOnce(d), Requested(id, d)
  PROVE  Requested(id, d)' \/ Watches(id, d)' \/ FailedWalk(id)' \/ id \in lost'
<1>0. /\ TypeOK /\ WalkPlaces /\ stage = "running" /\ ~ StopBackend /\ id \in Ids
      /\ discovery \in Seq(Request)
  BY StageStep, Types DEF Basics, TypeOK
<1>. DEFINE new == [id |-> id, path |-> d]
<1>1. CASE new \in Range(discovery)
  <2>1. new \in Range(discovery') => Requested(id, d)'
    BY DEF Requested
  <2>2. CASE TakeRequest
    <3>1. /\ discovery # <<>> /\ discovery' = Tail(discovery)
          /\ request' = Head(discovery) /\ walker' = "look"
      BY <2>2 DEF TakeRequest
    <3>2. Range(discovery) = {Head(discovery)} \cup Range(discovery')
      BY <1>0, <3>1, RangeOfTail
    <3>. QED  BY <1>1, <3>1, <3>2 DEF Requested
  <2>3. CASE MapForRecord
    <3>1. PICK r \in todo :
            /\ r \in Record
            /\ \/ Head(batch).path \in Dirs /\ EnqueueDiscovered(r.id, Head(batch).path)
               \/ discovery' = discovery
      BY <2>3, MapEffect DEF ToDiscover
    <3>2. CASE Head(batch).path \in Dirs /\ EnqueueDiscovered(r.id, Head(batch).path)
      <4>1. new \in Range(discovery') \/ new.id \in lost'
        BY <1>0, <1>1, <3>1, <3>2, EnqueueEffect DEF Record
      <4>. QED  BY <2>1, <4>1
    <3>. QED  BY <1>1, <2>1, <3>1, <3>2
  <2>4. ASSUME NEW i \in Ids, RemoveWatch(i) PROVE Requested(id, d)'
    <3>1. Range(discovery') = {r \in Range(discovery) : r.id # i} /\ i # id
      BY <1>0, <2>4, RemoveWatchEffect DEF RemoveWatch
    <3>. QED  BY <1>1, <2>1, <3>1
  <2>5. RawStep => MapForRecord \/ discovery' = discovery
    BY DEF RawStep, PopReady, BeginPoll, PollTimesOut, Read, BeginMapping, PushMapped,
           EndBatch, Report, RawWorkerExits
  <2>6. DiscoveryStep => TakeRequest \/ discovery' = discovery
    BY DEF DiscoveryStep, LookAtRoot, AddDiscoveredWatch, ReportDiscovered, OpenDirectory,
           NextEntry, FinishWalk, DiscoveryExits
  <2>7. /\ \A p \in Paths : Create(p) \/ Delete(p) => discovery' = discovery
        /\ \A i \in Ids : AddWatch(i) => discovery' = discovery
        /\ WatcherStops \/ UNCHANGED vars => discovery' = discovery
    BY DEF Create, Delete, AddWatch, WatcherStops, vars
  <2>. QED  BY <1>0, <1>1, <2>1, <2>2, <2>3, <2>4, <2>5, <2>6, <2>7 DEF Next
<1>2. CASE walker = "look" /\ request = new
  <2>1. CASE LookAtRoot
    <3>1. request' = request /\ walker' = "add" /\ at' = d
      BY <1>2, <2>1 DEF LookAtRoot
    <3>2. Serves(id)
      BY <1>0, <1>2 DEF Serves, WalkPlaces, Busy
    <3>. QED  BY <3>1, <3>2 DEF Requested, Serves
  <2>2. CASE UNCHANGED walkVars
    BY <1>2, <2>2 DEF Requested, walkVars
  <2>3. DiscoveryStep => LookAtRoot
    BY <1>2 DEF DiscoveryStep, TakeRequest, LookAtRoot, AddDiscoveredWatch, ReportDiscovered,
                OpenDirectory, NextEntry, FinishWalk, DiscoveryExits
  <2>. QED  BY <2>1, <2>2, <2>3, WhoMovesTheWalk
<1>3. CASE walker = "add" /\ Serves(id) /\ at = d
  <2>1. CASE AddDiscoveredWatch
    <3>1. Live(id)
      BY <1>0 DEF Owners, Live, RecordsOf
    <3>2. CASE ~ MayAdd(id, d)
      <4>1. PICK r \in records : r.id = id /\ r.dir = d
        BY <3>1, <3>2 DEF MayAdd, HasRecord, RecordsOf
      <4>2. r \in Record /\ d \notin Returned
        BY <1>0, InItself DEF TypeOK, MadeOnce, Dirs
      <4>3. kernel[d] = r.wd /\ r = [wd |-> r.wd, id |-> id, dir |-> d] /\ r.wd # 0
        BY <4>1, <4>2 DEF RecordsFresh, Record
      <4>4. UNCHANGED <<kernel, records>>
        BY <1>3, <2>1, <3>2 DEF AddDiscoveredWatch, Serves
      <4>5. [wd |-> kernel'[d], id |-> id, dir |-> d] \in records'
        BY <4>3, <4>4
      <4>. QED  BY <4>3, <4>4, <4>5 DEF Watches
    <3>3. CASE MayAdd(id, d)
      <4>1. AddOne(id, d) /\ request' = request
        BY <1>3, <2>1, <3>3 DEF AddDiscoveredWatch, Serves
      <4>2. CASE WatchThem(id, {d})
        BY <1>0, <4>2, WatchThemWatches
      <4>3. CASE problems' = problems \cup {"error"}
        BY <1>3, <4>1, <4>3 DEF FailedWalk, Serves
      <4>. QED  BY <4>1, <4>2, <4>3 DEF AddOne
    <3>. QED  BY <3>2, <3>3
  <2>2. CASE UNCHANGED walkVars
    BY <1>3, <2>2 DEF Requested, Serves, walkVars
  <2>3. DiscoveryStep => AddDiscoveredWatch
    BY <1>3 DEF DiscoveryStep, TakeRequest, LookAtRoot, AddDiscoveredWatch, ReportDiscovered,
                OpenDirectory, NextEntry, FinishWalk, DiscoveryExits
  <2>. QED  BY <2>1, <2>2, <2>3, WhoMovesTheWalk
<1>. QED  BY <1>1, <1>2, <1>3 DEF Requested

LEMMA KnownGrows ==
  ASSUME Basics, [Next]_vars, NEW id \in Recursive, ~ AddWatch(id)
  PROVE  known[id] \subseteq known'[id]
<1>0. known \in [Recursive -> SUBSET Paths]
  BY DEF Basics, TypeOK
<1>1. ASSUME NEW i \in Ids, AddWatch(i) PROVE known[id] \subseteq known'[id]
  <2>1. i # id /\ known' = [known EXCEPT ![i] = tree \cap Under(RootOf[i])]
    BY <1>1 DEF AddWatch
  <2>. QED  BY <1>0, <2>1
<1>2. CASE Report
  <2>1. known' = known \/ \E e \in next : known' = [known EXCEPT ![e.source] = @ \cup {e.path}]
    BY <1>2 DEF Report, history
  <2>. QED  BY <1>0, <2>1
<1>3. RawStep => Report \/ known' = known
  BY DEF RawStep, PopReady, BeginPoll, PollTimesOut, Read, BeginMapping, MapForRecord,
         PushMapped, EndBatch, RawWorkerExits, history
<1>4. DiscoveryStep => known' = known
  BY DEF DiscoveryStep, TakeRequest, LookAtRoot, AddDiscoveredWatch, ReportDiscovered,
         OpenDirectory, NextEntry, FinishWalk, DiscoveryExits, history
<1>5. /\ \A p \in Paths : Create(p) \/ Delete(p) => known' = known
      /\ \A i \in Ids : RemoveWatch(i) => known' = known
      /\ WatcherStops \/ StopBackend \/ UNCHANGED vars => known' = known
  BY DEF Create, Delete, RemoveWatch, WatcherStops, StopBackend, vars, history
<1>. QED  BY <1>1, <1>2, <1>3, <1>4, <1>5 DEF Next

\* An event that is made reaches the application; the discovery worker makes the
\* one of the entry it is at.
LEMMA AnnouncedStep ==
  ASSUME Basics, Owners, [Next]_vars, stage' = "running",
         NEW id \in active, id \in active', id \in Recursive, NEW p \in Paths, IsWanted(id, p),
         Announced(id, p)
  PROVE  Announced(id, p)' \/ p \in known'[id]
<1>0. /\ TypeOK /\ RawPlaces /\ ready \in Seq(Events) /\ mapped \in Seq(Events)
      /\ stage = "running" /\ id \in Ids /\ known \in [Recursive -> SUBSET Paths]
      /\ ~ WatcherStops /\ ~ StopBackend
  BY StageStep, Types DEF Basics, TypeOK
<1>. DEFINE e == EventOf("created", id, p)
<1>1. e \in Range(mapped') \cup Range(ready') \cup next' => Announced(id, p)'
  BY DEF Announced
<1>2. e \in Events /\ e.source = id /\ e.kind = "created" /\ e.path = p
  BY <1>0 DEF EventOf, Events
<1>3. CASE e \in Range(mapped) \cup Range(ready) \cup next
  <2>. HIDE DEF e
  <2>1. CASE PopReady
    <3>1. /\ ready # <<>> /\ next = {} /\ next' = {Head(ready)} /\ ready' = Tail(ready) /\ mapped' = mapped
      BY <1>0, <2>1 DEF PopReady, RawPlaces
    <3>2. Range(ready) = {Head(ready)} \cup Range(ready')
      BY <1>0, <3>1, RangeOfTail
    <3>. QED  BY <1>1, <1>3, <3>1, <3>2
  <2>2. CASE PushMapped
    <3>1. /\ mapped # <<>> /\ mapped' = Tail(mapped)
          /\ \/ next = {} /\ ready' = ready /\ next' = {Head(mapped)}
             \/ ready' = Append(ready, Head(mapped)) /\ next' = next
      BY <2>2 DEF PushMapped
    <3>2. Range(mapped) = {Head(mapped)} \cup Range(mapped') /\ Head(mapped) \in Events
      BY <1>0, <3>1, RangeOfTail
    <3>3. Range(Append(ready, Head(mapped))) = Range(ready) \cup {Head(mapped)}
      BY <1>0, <3>2, RangeOfAppend
    <3>. QED  BY <1>1, <1>3, <3>1, <3>2, <3>3
  <2>3. CASE Report
    <3>1. UNCHANGED <<ready, mapped>>
      BY <2>3 DEF Report
    <3>2. CASE e \in next
      <4>1. PICK f \in next : stage = "running" /\ f.source \in active =>
              known' = IF f.kind = "created" THEN [known EXCEPT ![f.source] = @ \cup {f.path}] ELSE known
        BY <2>3 DEF Report
      <4>2. f = e
        BY <1>0, <3>2, <4>1 DEF RawPlaces
      <4>3. known' = [known EXCEPT ![id] = @ \cup {p}]
        BY <1>0, <1>2, <4>1, <4>2
      <4>. QED  BY <1>0, <4>3
    <3>. QED  BY <1>1, <1>3, <3>1, <3>2
  <2>4. CASE BeginMapping
    <3>1. UNCHANGED <<ready, next>> /\ (mapped' = mapped \/ mapped = <<>>)
      BY <2>4 DEF BeginMapping
    <3>. QED  BY <1>1, <1>3, <3>1, RangeOfEmpty
  <2>5. CASE MapForRecord
    <3>1. PICK r \in todo :
            /\ r \in Record /\ EventOf(Head(batch).kind, r.id, Head(batch).path) \in Events
            /\ \/ mapped' = mapped
               \/ mapped' = Append(mapped, EventOf(Head(batch).kind, r.id, Head(batch).path))
            /\ \/ Head(batch).path \in Dirs /\ EnqueueDiscovered(r.id, Head(batch).path)
               \/ ready' = ready
      BY <2>5, MapEffect DEF ToDiscover
    <3>2. Range(mapped) \subseteq Range(mapped')
      <4>. DEFINE made == EventOf(Head(batch).kind, r.id, Head(batch).path)
      <4>1. Range(Append(mapped, made)) = Range(mapped) \cup {made}
        BY <1>0, <3>1, RangeOfAppend
      <4>. HIDE DEF made
      <4>2. mapped' = mapped \/ mapped' = Append(mapped, made)
        BY <3>1 DEF made
      <4>. QED  BY <4>1, <4>2
    <3>3. Range(ready) \subseteq Range(ready')
      BY <1>0, <3>1, EnqueueEffect DEF Record
    <3>4. next' = next
      BY <2>5 DEF MapForRecord
    <3>. QED  BY <1>1, <1>3, <3>2, <3>3, <3>4
  <2>6. ASSUME NEW i \in Ids, RemoveWatch(i) PROVE Announced(id, p)'
    <3>1. Range(ready') = {g \in Range(ready) : g.source # i} /\ i # id
      BY <1>0, <2>6, RemoveWatchEffect DEF RemoveWatch
    <3>2. UNCHANGED <<mapped, next>>
      BY <2>6 DEF RemoveWatch, rawVars
    <3>. QED  BY <1>1, <1>2, <1>3, <3>1, <3>2
  <2>7. CASE ReportDiscovered \/ FinishWalk
    <3>1. UNCHANGED <<mapped, next>> /\ (ready' = ready \/ \E g \in Events : PushReady(g))
      BY <1>0, <2>7, PushedEvent DEF ReportDiscovered, FinishWalk, rawVars
    <3>2. Range(ready) \subseteq Range(ready')
      BY <1>0, <3>1, PushReadyEffect
    <3>. QED  BY <1>1, <1>3, <3>1, <3>2
  <2>8. RawStep => \/ PopReady \/ PushMapped \/ Report \/ BeginMapping \/ MapForRecord
                   \/ UNCHANGED <<mapped, ready, next>>
    BY DEF RawStep, BeginPoll, PollTimesOut, Read, EndBatch, RawWorkerExits
  <2>9. DiscoveryStep => ReportDiscovered \/ FinishWalk \/ UNCHANGED <<mapped, ready, next>>
    BY DEF DiscoveryStep, TakeRequest, LookAtRoot, AddDiscoveredWatch, OpenDirectory, NextEntry,
           DiscoveryExits, rawVars
  <2>10. /\ \A x \in Paths : Create(x) \/ Delete(x) => UNCHANGED <<mapped, ready, next>>
         /\ \A i \in Ids : AddWatch(i) => UNCHANGED <<mapped, ready, next>>
         /\ UNCHANGED vars => UNCHANGED <<mapped, ready, next>>
    BY DEF Create, Delete, AddWatch, vars, rawVars
  <2>. QED  BY <1>0, <1>1, <1>3, <2>1, <2>2, <2>3, <2>4, <2>5, <2>6, <2>7, <2>8, <2>9, <2>10 DEF Next
<1>4. CASE walker \in {"add", "report"} /\ Serves(id) /\ at = p /\ at # request.path
  <2>1. CASE UNCHANGED walkVars
    BY <1>4, <2>1 DEF Announced, Serves, walkVars
  <2>2. CASE AddDiscoveredWatch
    BY <1>4, <2>2 DEF AddDiscoveredWatch, Announced, Serves
  <2>3. CASE ReportDiscovered
    <3>1. PushReady(e)
      BY <1>4, <2>3 DEF ReportDiscovered, Serves
    <3>2. Live(e.source)
      BY <1>0, <1>2 DEF Owners, Live, RecordsOf
    <3>3. e \in Range(ready')
      BY <1>0, <1>2, <3>1, <3>2, PushReadyEffect
    <3>. QED  BY <1>1, <3>3
  <2>4. DiscoveryStep => AddDiscoveredWatch \/ ReportDiscovered
    BY <1>4 DEF DiscoveryStep, TakeRequest, LookAtRoot, OpenDirectory, NextEntry, FinishWalk,
                DiscoveryExits
  <2>. QED  BY <2>1, <2>2, <2>3, <2>4, WhoMovesTheWalk
<1>. QED  BY <1>3, <1>4 DEF Announced

\* An entry that is just made is not a watched root, and the kernel has its event.
LEMMA CreatedEntry ==
  ASSUME Basics, Disk, RootsMade, [Next]_vars,
         NEW id \in added, id \notin missed', NEW p \in tree', p \notin tree, MadeOnce(p)'
  PROVE  p # RootOf[id] /\ (Watches(id, Front(p))' => InFlight(id, p)')
<1>0. /\ TypeOK /\ creations \in [Paths -> Nat] /\ kernel \in [Paths -> Nat] /\ queued \in Seq(Raw)
      /\ id \in Ids
  BY Types DEF Basics, TypeOK
<1>1. p \in Paths /\ Create(p)
  <2>1. ASSUME NEW x \in Paths, Create(x) PROVE x = p
    BY <2>1 DEF Create
  <2>2. ASSUME NEW x \in Paths, Delete(x) PROVE FALSE
    BY <2>2 DEF Delete
  <2>3. \A i \in Ids : AddWatch(i) \/ RemoveWatch(i) => tree' = tree
    BY DEF AddWatch, RemoveWatch
  <2>4. StopBackend \/ AddDiscoveredWatch => tree' = tree
    BY DEF StopBackend, AddDiscoveredWatch
  <2>. QED  BY <2>1, <2>2, <2>3, <2>4, WhoTouchesWatches
<1>2. /\ p # <<>> /\ Notify(p, "created") /\ creations'[p] = creations[p] + 1
      /\ UNCHANGED <<kernel, records>>
  BY <1>0, <1>1 DEF Create, tables
<1>3. p # RootOf[id]
  <2>1. SUFFICES ASSUME p = RootOf[id] PROVE FALSE
    OBVIOUS
  <2>2. p \in Dirs /\ Made(p)
    BY <1>0, <2>1, OptionsAssumption DEF RootsMade
  <2>3. p \notin Returned'
    BY <2>2, InItself DEF MadeOnce, Dirs
  <2>. QED  BY <1>0, <1>1, <1>2, <2>2, <2>3 DEF Made, Returned
<1>4. ASSUME Watches(id, Front(p))' PROVE InFlight(id, p)'
  <2>. DEFINE event == [wd |-> kernel[Front(p)], kind |-> "created", path |-> p]
  <2>1. kernel[Front(p)] # 0
    BY <1>2, <1>4 DEF Watches
  <2>2. queued' = Append(queued, event)
    <3>1. [wd |-> kernel[Front(p)], id |-> id, dir |-> Front(p)] \in records
      BY <1>2, <1>4 DEF Watches
    <3>2. id \in {r.id : r \in {s \in records : s.wd = kernel[Front(p)]}}
      BY <3>1
    <3>. QED  BY <1>2, <2>1, <3>2 DEF Notify
  <2>3. event \in Raw
    BY <1>0, <1>1, <1>2, Types DEF Raw, Dirs
  <2>4. event \in Range(queued')
    BY <1>0, <2>2, <2>3, RangeOfAppend
  <2>5. event.kind = "created" /\ event.path = p /\ event.wd = kernel'[Front(p)]
    BY <1>2
  <2>. HIDE DEF event
  <2>. QED  BY <2>4, <2>5 DEF InFlight
<1>. QED  BY <1>3, <1>4

\* What the discovery worker just watched, it lists next.
LEMMA OpenedDirectory ==
  ASSUME AddDiscoveredWatch, NEW id, NEW p, Serves(id), at = Front(p)
  PROVE  InWalk(id, p)'
BY DEF AddDiscoveredWatch, InWalk, Serves

LEMMA CoverageStep ==
  ASSUME Basics, Owners, Disk, RecordsFresh, RootsMade, Coverage, [Next]_vars
  PROVE  Coverage'
<1>. SUFFICES ASSUME stage' = "running", NEW id \in Ids, Sound(id)',
                     NEW d \in Under(RootOf[id]) \cap Dirs, d \in tree', MadeOnce(d)'
              PROVE  Covered(id, d)'
  BY DEF Coverage
<1>0. /\ TypeOK /\ TypeOK' /\ stage = "running" /\ RootOf[id] \in Dirs /\ RootOf[id] \in Paths /\ Dirs \subseteq Paths
      /\ id \notin missed' /\ "dir" \in Wanted[id]
  BY BasicsStep, StageStep, OptionsAssumption DEF Basics, Dirs, Sound
<1>1. CASE AddWatch(id)
  <2>. DEFINE here == Under(RootOf[id]) \cap Dirs \cap tree
  <2>1. id \in Recursive
    BY DEF Sound
  <2>2. PICK ds \in SUBSET here : WatchThem(id, ds) /\ told' = IF ds = here THEN told ELSE told \cup {id}
    BY <1>1, <2>1 DEF AddWatch
  <2>3. ds = here
    BY <2>2 DEF Sound
  <2>4. tree' = tree
    BY <1>1 DEF AddWatch
  <2>. QED  BY <2>2, <2>3, <2>4, <1>0, WatchThemWatches DEF Covered, Basics
<1>2. CASE ~ AddWatch(id)
  <2>1. Sound(id) /\ id \in active /\ id \in active' /\ id \in Recursive /\ id \in added
    <3>1. Sound(id)
      BY <1>2, SoundStep
    <3>. QED  BY <1>0, <3>1 DEF Sound, TypeOK
  <2>2. CASE d \notin tree
    BY <1>0, <2>1, <2>2, CreatedEntry DEF Covered
  <2>3. CASE d \in tree
    <3>0. MadeOnce(d)
      BY MadeOnceBefore
    <3>1. Covered(id, d)
      BY <1>0, <2>1, <2>3, <3>0 DEF Coverage
    <3>2. CASE Watches(id, d)
      BY <2>1, <3>2, WatchesStay DEF Covered
    <3>3. CASE d # RootOf[id] /\ ~ Watches(id, d)
      <4>1. SUFFICES ASSUME Watches(id, Front(d))' PROVE Covered(id, d)'
        BY <3>3 DEF Covered
      <4>2. d \in Paths /\ d # <<>> /\ Front(d) \in Paths
        BY <1>0, <3>3, BelowRoot
      <4>3. ~ FailedWalk(id)' /\ id \notin lost'
        BY DEF Sound, Doomed
      <4>4. InFlight(id, d)' \/ InWalk(id, d)' \/ Requested(id, d)' \/ Watches(id, d)' => Covered(id, d)'
        BY <3>3 DEF Covered
      <4>5. CASE AddDiscoveredWatch /\ Serves(id) /\ at = Front(d)
        BY <4>4, <4>5, OpenedDirectory
      <4>6. CASE Watches(id, Front(d)) /\ kernel'[Front(d)] = kernel[Front(d)]
        <5>1. CASE InFlight(id, d)
          <6>1. InFlight(id, d)' \/ Mapped(id, d)
            BY <1>0, <2>1, <4>2, <4>6, <5>1, InFlightStep
          <6>. QED  BY <4>3, <4>4, <6>1 DEF Mapped, Requested
        <5>2. CASE InWalk(id, d)
          <6>1. InWalk(id, d)' \/ (Serves(id)' /\ at' = d /\ walker' = "add")
            BY <2>3, <4>2, <4>3, <5>2, InWalkStep
          <6>. QED  BY <4>4, <6>1 DEF Requested
        <5>3. CASE Requested(id, d)
          BY <2>1, <2>3, <3>0, <4>3, <4>4, <5>3, RequestedStep
        <5>. QED  BY <3>1, <3>3, <4>6, <5>1, <5>2, <5>3 DEF Covered
      <4>. QED  BY <1>2, <4>1, <4>2, <4>5, <4>6, NewWatches
    <3>. QED  BY <3>1, <3>2, <3>3 DEF Covered
  <2>. QED  BY <2>2, <2>3
<1>. QED  BY <1>1, <1>2

LEMMA ReportsStep ==
  ASSUME Basics, Owners, Disk, RootsMade, Reports, [Next]_vars
  PROVE  Reports'
<1>. SUFFICES ASSUME stage' = "running", NEW id \in Ids, Sound(id)',
                     NEW p \in Under(RootOf[id]), p \in tree', TypeOf(p) \in Wanted[id], MadeOnce(p)'
              PROVE  Reported(id, p)'
  BY DEF Reports
<1>0. /\ TypeOK /\ TypeOK' /\ stage = "running" /\ RootOf[id] \in Paths /\ p \in Paths
      /\ known \in [Recursive -> SUBSET Paths] /\ id \notin missed' /\ "dir" \in Wanted[id]
  BY BasicsStep, StageStep, OptionsAssumption DEF Basics, Dirs, TypeOK, Sound
<1>1. CASE AddWatch(id)
  <2>1. id \in Recursive
    BY DEF Sound
  <2>2. known'[id] = tree \cap Under(RootOf[id]) /\ tree' = tree
    BY <1>0, <1>1, <2>1 DEF AddWatch
  <2>. QED  BY <2>2 DEF Reported
<1>2. CASE ~ AddWatch(id)
  <2>1. Sound(id) /\ id \in active /\ id \in active' /\ id \in Recursive /\ id \in added
    <3>1. Sound(id)
      BY <1>2, SoundStep
    <3>. QED  BY <1>0, <3>1 DEF Sound, TypeOK
  <2>2. CASE p \notin tree
    BY <1>0, <2>1, <2>2, CreatedEntry DEF Reported
  <2>3. CASE p \in tree
    <3>0. MadeOnce(p)
      BY MadeOnceBefore
    <3>1. Reported(id, p)
      BY <1>0, <2>1, <2>3, <3>0 DEF Reports
    <3>2. CASE p \in known[id]
      BY <1>2, <2>1, <3>2, KnownGrows DEF Reported
    <3>3. CASE p # RootOf[id] /\ p \notin known[id]
      <4>1. SUFFICES ASSUME Watches(id, Front(p))' PROVE Reported(id, p)'
        BY <3>3 DEF Reported
      <4>2. p # <<>> /\ Front(p) \in Paths
        BY <1>0, <3>3, BelowRoot DEF Dirs
      <4>3. ~ FailedWalk(id)'
        BY DEF Sound, Doomed
      <4>4. InFlight(id, p)' \/ InWalk(id, p)' \/ Announced(id, p)' \/ p \in known'[id] => Reported(id, p)'
        BY <3>3 DEF Reported
      <4>5. CASE AddDiscoveredWatch /\ Serves(id) /\ at = Front(p)
        BY <4>4, <4>5, OpenedDirectory
      <4>6. CASE Watches(id, Front(p)) /\ kernel'[Front(p)] = kernel[Front(p)]
        <5>1. CASE InFlight(id, p)
          <6>1. InFlight(id, p)' \/ Mapped(id, p)
            BY <1>0, <2>1, <4>2, <4>6, <5>1, InFlightStep
          <6>. QED  BY <4>4, <6>1 DEF Mapped, Announced, IsWanted
        <5>2. CASE InWalk(id, p)
          <6>1. InWalk(id, p)' \/ (Serves(id)' /\ at' = p /\ p # request'.path /\ walker' \in {"add", "report"})
            BY <2>3, <4>2, <4>3, <5>2, InWalkStep
          <6>. QED  BY <4>4, <6>1 DEF Announced
        <5>3. CASE Announced(id, p)
          BY <1>0, <2>1, <4>4, <5>3, AnnouncedStep DEF IsWanted
        <5>. QED  BY <3>1, <3>3, <4>6, <5>1, <5>2, <5>3 DEF Reported
      <4>. QED  BY <1>2, <4>1, <4>2, <4>5, <4>6, NewWatches
    <3>. QED  BY <3>1, <3>2, <3>3 DEF Reported
  <2>. QED  BY <2>2, <2>3
<1>. QED  BY <1>1, <1>2

LEMMA CoverageInit == Init => RootsMade /\ Coverage /\ Reports
BY DEF Init, RootsMade, Coverage, Reports, Sound

\* When everything has settled, no watch that is still trusted is doomed, and
\* nothing is on its way for it.
LEMMA AtRest ==
  ASSUME Basics, Losses, stage = "running", Quiet, NEW id \in Trusted
  PROVE  /\ id \in Ids /\ Sound(id)
         /\ \A p : ~ InFlight(id, p) /\ ~ InWalk(id, p) /\ ~ Requested(id, p) /\ ~ Announced(id, p)
<1>1. id \in Ids /\ id \in active /\ ~ (erased /\ id \in lost)
  BY OptionsAssumption DEF Trusted
<1>2. /\ Range(queued) = {} /\ Range(batch) = {} /\ Range(ready) = {} /\ Range(mapped) = {}
      /\ Range(discovery) = {} /\ next = {} /\ todo = {} /\ walker = "idle"
  BY RangeOfEmpty DEF Quiet
<1>3. request = NoRequest
  BY <1>2 DEF Basics, WalkPlaces, Busy
<1>4. id \notin lost
  BY <1>1, <1>2 DEF Losses
<1>. QED  BY <1>1, <1>2, <1>3, <1>4 DEF Trusted, Sound, Doomed, FailedWalk, Warned, Serves, InFlight, Unmapped,
            InWalk, Requested, Announced

\* The shortest path without a watch would have a watched parent.
LEMMA CoveredAtRest ==
  ASSUME Basics, Losses, Disk, Coverage
  PROVE  CoveredOrTold
<1>. SUFFICES ASSUME stage = "running", Quiet, NEW id \in Trusted
              PROVE  \A d \in Under(RootOf[id]) \cap Dirs \cap tree : MadeOnce(d) => Watches(id, d)
  BY DEF CoveredOrTold
<1>. DEFINE Unwatched == {d \in Under(RootOf[id]) \cap Dirs \cap tree : MadeOnce(d) /\ ~ Watches(id, d)}
            Lengths == {n \in Nat : \E d \in Unwatched : Len(d) = n}
<1>1. /\ id \in Ids /\ RootOf[id] \in Paths
      /\ \A d \in Unwatched : d # RootOf[id] /\ ~ Watches(id, Front(d))
  BY AtRest, OptionsAssumption DEF Coverage, Covered, Dirs
<1>2. ASSUME Unwatched # {} PROVE FALSE
  <2>1. Lengths # {}
    <3>1. PICK d \in Unwatched : TRUE
      BY <1>2
    <3>2. Len(d) \in Nat
      BY <1>1, <3>1, BelowRoot
    <3>. QED  BY <3>1, <3>2
  <2>2. PICK m \in Lengths : \A n \in Lengths : m <= n
    BY <2>1, LeastNumber
  <2>3. PICK d \in Unwatched : Len(d) = m
    BY <2>2
  <2>4. /\ d # <<>> /\ Front(d) \in Dirs /\ Front(d) \in Under(RootOf[id])
        /\ Len(Front(d)) \in Nat /\ Len(d) \in Nat /\ Len(Front(d)) < Len(d)
    BY <1>1, <2>3, BelowRoot
  <2>5. Front(d) \in tree
    BY <2>3, <2>4 DEF Disk
  <2>6. Front(d) \in Unwatched
    <3>1. MadeOnce(Front(d))
      BY <2>3, <2>4, MadeOnceAbove DEF Dirs
    <3>. QED  BY <1>1, <2>3, <2>4, <2>5, <3>1
  <2>7. Len(Front(d)) \in Lengths
    BY <2>4, <2>6
  <2>. QED  BY <2>2, <2>3, <2>4, <2>7
<1>. QED  BY <1>2

LEMMA ReportedAtRest ==
  ASSUME Basics, Losses, Disk, Coverage, Reports
  PROVE  ReportedOrTold
<1>. SUFFICES ASSUME stage = "running", Quiet, NEW id \in Trusted,
                     NEW p \in tree \cap Under(RootOf[id]), TypeOf(p) \in Wanted[id], MadeOnce(p)
              PROVE  p \in known[id]
  BY DEF ReportedOrTold
<1>1. id \in Ids /\ RootOf[id] \in Paths /\ Reported(id, p)
  BY AtRest, OptionsAssumption DEF Reports, Dirs
<1>2. ASSUME p # RootOf[id] PROVE Watches(id, Front(p))
  <2>1. p # <<>> /\ Front(p) \in Dirs /\ Front(p) \in Under(RootOf[id])
    BY <1>1, <1>2, BelowRoot
  <2>2. Front(p) \in tree /\ MadeOnce(Front(p))
    BY <2>1, MadeOnceAbove DEF Disk, Under
  <2>. QED  BY <2>1, <2>2, CoveredAtRest DEF CoveredOrTold
<1>. QED  BY <1>1, <1>2, AtRest DEF Reported

\* What the two theorems on discovery rest on.
Discovery ==
  /\ Basics /\ RemovedStaysRemoved /\ Owners /\ Losses
  /\ Disk /\ RecordsFresh /\ RootsMade /\ Coverage /\ Reports

LEMMA DiscoveryInvariant == Spec => []Discovery
<1>1. Init => Discovery
  BY BasicsInit, RemovedInit, OwnersInit, LossesInit, DiskInit, CoverageInit DEF Discovery
<1>2. Discovery /\ [Next]_vars => Discovery'
  BY BasicsStep, RemovedStep, OwnersStep, LossesStep, DiskStep, RootsStep, CoverageStep,
     ReportsStep DEF Discovery
<1>. QED  BY <1>1, <1>2, PTL DEF Spec

\* When everything has settled, every directory under a watch the application may rely
\* on is watched, but below one made again: directories made while their parent was
\* being discovered included.
THEOREM DirectoriesAreCovered == Spec => []CoveredOrTold
<1>1. Discovery => CoveredOrTold
  BY CoveredAtRest DEF Discovery
<1>. QED  BY <1>1, DiscoveryInvariant, PTL

\* When everything has settled, the application has an event for every entry that was
\* made under such a watch and is still there, but below a directory made again.
THEOREM EntriesAreReported == Spec => []ReportedOrTold
<1>1. Discovery => ReportedOrTold
  BY ReportedAtRest DEF Discovery
<1>. QED  BY <1>1, DiscoveryInvariant, PTL
=============================================================================
