-------------------------- MODULE DesktopBundleProofs --------------------------
(***************************************************************************)
(* What the operations on a bundle leave of other programs' registrations, *)
(* of their own, and of the files they report.  For any applications,      *)
(* bundles, options, calls and faults.                                     *)
(***************************************************************************)
EXTENDS DesktopBundle, SequenceTheorems, WellFoundedInduction, TLAPS

\* Other programs' ids are not ours.
ForeignIsForeign ==
  \A i \in Items : i.kind \in Registrations => ToSet(i.ids) \cap ToSet(Foreign[Slot(i)]) = {}

\* No two items register the same id at the same place.
Indices == {s \in Apps \X Nat : s[2] \in DOMAIN Bundle[s[1]]}
ItemOf(s) == Bundle[s[1]][s[2]]
RegistrationsDiffer ==
  \A s, t \in Indices :
    ItemOf(s).kind \in Registrations /\ ItemOf(t).kind \in Registrations
      /\ Slot(ItemOf(s)) = Slot(ItemOf(t)) /\ ToSet(ItemOf(s).ids) \cap ToSet(ItemOf(t).ids) # {} => s = t

\* No two items place the same file, and two applications share none at all.
Placed == OwnedKinds \cup {"policy"}
FilesDiffer ==
  \A s, t \in Indices :
    s # t /\ (s[1] # t[1] \/ (ItemOf(s).kind \in Placed /\ ItemOf(t).kind \in Placed))
      => PathsOf(ItemOf(s)) \cap PathsOf(ItemOf(t)) \subseteq {"mimeapps.list"}

\* No cleanup rule names the files of a policy, and no lock is there at first
\* without a value.
PoliciesAreOwn ==
  \A i \in Items : i.kind = "policy" =>
    /\ \A j \in Items : j.kind = "cleanup" => j.path \notin PathsOf(i)
    /\ i.lock \in DOMAIN Litter => i.path \in DOMAIN Litter /\ Litter[i.path] # Absent
-----------------------------------------------------------------------------
(* Types *)

Ids ==
  (UNION {ToSet(i.ids) : i \in {j \in Items : j.kind \in Registrations}}) \cup UNION {ToSet(Foreign[slot]) : slot \in DOMAIN Foreign}
Lists == [DOMAIN Foreign -> Seq(Ids)]
Contents == {Absent, Torn} \cup {i.content : i \in Items} \cup {Litter[q] : q \in DOMAIN Litter}
OptionSet == [dryRun : BOOLEAN, write : BOOLEAN, policy : BOOLEAN, global : BOOLEAN]
Places == {"start", "write", "lock", "probe", "remove", "unlock", "look", "read", "update", "clean"}
Statuses == {"failed", "present", "missing", "planned", "staged", "done"}
RowStatuses == {"skipped_duplicate", "failed", "manual_follow_up", "planned", "already_absent", "removed"}
AllPaths == UNION {PathsOf(i) : i \in Items}
Rows == SUBSET (AllPaths \X RowStatuses)
Calls == [op : Ops, options : OptionSet, item : Nat \ {0}, pc : Places, present : BOOLEAN,
          read : SUBSET Lists, blind : SUBSET Nat, seen : SUBSET AllPaths, status : Seq(Statuses), rows : Rows]
Reports == [op : Ops, dryRun : BOOLEAN, status : Seq(Statuses), rows : Rows, blind : SUBSET Nat]

Typed ==
  /\ files \in [Paths -> Contents]
  /\ list \in Lists
  /\ call \in [Apps -> Calls \cup {Idle}]
  /\ report \in [Apps -> Reports \cup {NoReport}]

\* Where a call can be, by the kind of its item and the operation.
PlaceFits(c, item) ==
  /\ c.pc \in {"write", "lock"} => c.op = "apply" /\ item.kind \in Placed
  /\ c.pc \in {"probe", "remove", "unlock"} => c.op = "remove" /\ item.kind \in Placed
  /\ c.pc \in {"lock", "unlock"} => item.kind = "policy"
  /\ c.pc \in {"look", "read", "update"} => c.op \in {"apply", "remove"} /\ item.kind \in Registrations
  /\ c.pc = "clean" => c.op = "remove" /\ item.kind = "cleanup"

CallsFit ==
  \A a \in Apps : call[a].op # "none" =>
    /\ call[a].item <= Len(Bundle[a]) + 1
    /\ Len(call[a].status) = call[a].item - 1
    /\ report[a].op = "none"
    /\ call[a].pc # "start" => /\ call[a].item <= Len(Bundle[a]) /\ PlaceFits(call[a], Item(a))
                               /\ ~IsDryRun(call[a]) \/ call[a].pc = "clean"
    /\ call[a].pc # "update" => call[a].read = {}
    /\ call[a].pc = "update" => \E l \in Lists : call[a].read = {l}

Inv == Typed /\ CallsFit
-----------------------------------------------------------------------------
KeepsForeign(l) == \A slot \in DOMAIN Foreign : KeepIn(l[slot], ToSet(Foreign[slot])) = Foreign[slot]
ReadsKeepForeign == KeepsForeign(list) /\ \A a \in Apps : call[a].op # "none" => \A l \in call[a].read : KeepsForeign(l)

StagedListed(l) == \A s \in staged : ToSet(ItemOf(s).ids) \subseteq ToSet(l[Slot(ItemOf(s))])
OneUpdate ==
  /\ staged \subseteq {s \in Indices : ItemOf(s).kind \in Registrations}
  /\ ~raced => /\ \A a, b \in Apps : At(a, "update") /\ At(b, "update") => a = b
               /\ \A a \in Apps : At(a, "update") => call[a].read = {list}
               /\ StagedListed(list)

PoliciesHalf ==
  /\ LockHasValue
  /\ \A a \in Apps : call[a].op # "none" =>
       /\ call[a].pc = "lock" => files[Item(a).path] = Item(a).content /\ Item(a).enforced
       /\ call[a].pc = "unlock" => Item(a).path \in halfRemoved /\ files[Item(a).path] = Absent
-----------------------------------------------------------------------------
MaySay(op, s) ==
  /\ op = "apply" => s \in {"failed", "staged", "done"}
  /\ op = "remove" => s \in {"failed", "missing", "done"}

\* What a status, a row and a whole report claim of the files f.
FoundIn(f, item) == IF item.kind = "policy" THEN f[item.path] = item.content ELSE f[item.path] # Absent
\* (n is the item's number, and blind holds the items whose look failed.)
ItemTold(f, op, item, s, n, blind) ==
  item.kind \in Placed =>
    /\ s = "staged" => /\ f[item.path] = item.content
                       /\ item.kind = "policy" /\ item.enforced => f[item.lock] = item.content
    /\ s = "missing" => IF op = "query" THEN FoundIn(f, item) => n \in blind /\ TakesErrorForAbsence(item)
                        ELSE f[item.path] = Absent
    /\ s = "present" => FoundIn(f, item)
RowTold(f, r) == r[2] \in {"removed", "already_absent"} => r[1] \in Paths /\ f[r[1]] = Absent

Told(f, a, op, status, rows, blind) ==
  /\ \A i \in DOMAIN status : ItemTold(f, op, Bundle[a][i], status[i], i, blind) /\ MaySay(op, status[i])
  /\ \A r \in rows : \E i \in DOMAIN Bundle[a] : r[1] \in PathsOf(Bundle[a][i])
  /\ op # "apply" => \A r \in rows : RowTold(f, r)

Real == {"apply", "query", "remove"}
CallTold(a) ==
  call[a].op \in Real /\ ~call[a].options.dryRun =>
    Told(files, a, call[a].op, call[a].status, call[a].rows, call[a].blind)
ReportTold(a) ==
  report[a].op \in Real /\ ~report[a].dryRun =>
    /\ DOMAIN report[a].status = DOMAIN Bundle[a]
    /\ Told(files, a, report[a].op, report[a].status, report[a].rows, report[a].blind)
HalfTold(a) ==
  call[a].op # "none" =>
    /\ call[a].pc = "unlock" => files[Item(a).path] = Absent
    /\ call[a].pc = "lock" => files[Item(a).path] = Item(a).content /\ Item(a).enforced
AllTold == \A a \in Apps : CallTold(a) /\ ReportTold(a) /\ HalfTold(a)
-----------------------------------------------------------------------------
(* Filtering a sequence *)

\* Every set of natural numbers that is not empty has a least one.
LEMMA LeastNumber ==
  ASSUME NEW S, S \subseteq Nat, S # {}
  PROVE  \E m \in S : \A n \in S : m <= n
<1> DEFINE Less == OpToRel(<, Nat)
<1>1. \A m, n \in Nat : m < n => <<m, n>> \in Less
  BY DEF OpToRel
<1>. HIDE DEF Less
<1>2. IsWellFoundedOn(Less, Nat)
  BY NatLessThanWellFounded DEF Less
<1>3. PICK m \in S : \A n \in S : ~ (<<n, m>> \in Less)
  BY <1>2, WFMin
<1>4. \A n \in S : ~ (n < m)
  BY <1>1, <1>3
<1>. QED  BY <1>4

\* Induction up to n, over the set of the numbers a claim holds for.
LEMMA Induction ==
  ASSUME NEW S, NEW n \in Nat, 0 \in S, \A i \in 0 .. n - 1 : i \in S => i + 1 \in S
  PROVE  \A i \in 0 .. n : i \in S
<1> DEFINE Bad == {i \in 0 .. n : i \notin S}
<1> SUFFICES ASSUME Bad # {} PROVE FALSE
  OBVIOUS
<1>1. PICK k \in Bad : \A i \in Bad : k <= i
  <2>1. Bad \subseteq Nat
    OBVIOUS
  <2>. HIDE DEF Bad
  <2>. QED BY <2>1, LeastNumber
<1>2. k # 0 /\ k - 1 \in 0 .. n - 1 /\ k - 1 \notin Bad
  BY <1>1
<1>3. k - 1 \in S /\ k - 1 + 1 = k
  BY <1>2
<1>. QED  BY <1>1, <1>2, <1>3

\* The filter of the first n elements, for every n.
Kept(s, S, f, n) ==
  f = [i \in 0 .. n |-> IF i = 0 THEN <<>>
                        ELSE IF s[i] \in S THEN Append(f[i - 1], s[i]) ELSE f[i - 1]]

Filtered(s, S, f, n) ==
  /\ f[0] = <<>>
  /\ \A i \in 1 .. n : f[i] = IF s[i] \in S THEN Append(f[i - 1], s[i]) ELSE f[i - 1]

LEMMA KeptStep ==
  \A s, S, f : \A n \in Nat : Kept(s, S, f, n) => Filtered(s, S, f, n)
<1>. SUFFICES ASSUME NEW s, NEW S, NEW f, NEW n \in Nat, Kept(s, S, f, n) PROVE Filtered(s, S, f, n)
  OBVIOUS
<1>1. f = [i \in 0 .. n |-> IF i = 0 THEN <<>> ELSE IF s[i] \in S THEN Append(f[i - 1], s[i]) ELSE f[i - 1]]
  BY DEF Kept
<1>2. \A i \in 0 .. n : f[i] = IF i = 0 THEN <<>> ELSE IF s[i] \in S THEN Append(f[i - 1], s[i]) ELSE f[i - 1]
  BY <1>1, Zenon
<1>. QED  BY <1>2 DEF Filtered

LEMMA KeptExists ==
  ASSUME NEW s, NEW S, NEW m \in Nat
  PROVE  \E f : Kept(s, S, f, m)
<1> DEFINE Good == {n \in Nat : \E f : Kept(s, S, f, n)}
<1>1. 0 \in Good
  <2>1. Kept(s, S, [i \in 0 .. 0 |-> <<>>], 0)
    BY DEF Kept
  <2>. QED BY <2>1
<1>2. ASSUME NEW n \in 0 .. m - 1, n \in Good PROVE n + 1 \in Good
  <2>1. PICK f : Kept(s, S, f, n)
    BY <1>2
  <2> DEFINE g == [i \in 0 .. n + 1 |-> IF i <= n THEN f[i]
                   ELSE IF s[n + 1] \in S THEN Append(f[n], s[n + 1]) ELSE f[n]]
  <2>2. /\ f[0] = <<>>
        /\ \A i \in 1 .. n : f[i] = IF s[i] \in S THEN Append(f[i - 1], s[i]) ELSE f[i - 1]
    BY <2>1, KeptStep DEF Filtered
  <2>3. \A i \in 0 .. n + 1 : g[i] = IF i = 0 THEN <<>> ELSE IF s[i] \in S THEN Append(g[i - 1], s[i]) ELSE g[i - 1]
    <3> SUFFICES ASSUME NEW i \in 0 .. n + 1
                 PROVE g[i] = IF i = 0 THEN <<>> ELSE IF s[i] \in S THEN Append(g[i - 1], s[i]) ELSE g[i - 1]
      OBVIOUS
    <3>1. CASE i = 0
      BY <3>1, <2>2
    <3>2. CASE i \in 1 .. n
      BY <3>2, <2>2
    <3>3. CASE i = n + 1
      BY <3>3
    <3>. QED BY <3>1, <3>2, <3>3
  <2>4. Kept(s, S, g, n + 1)
    BY <2>3 DEF Kept
  <2>. QED BY <2>4
<1>. HIDE DEF Good
<1>3. \A i \in 0 .. m : i \in Good
  BY <1>1, <1>2, Induction
<1>. QED BY <1>3 DEF Good

LEMMA KeepInIsKept ==
  ASSUME NEW s, NEW S, Len(s) \in Nat
  PROVE  \E f : Kept(s, S, f, Len(s)) /\ KeepIn(s, S) = f[Len(s)]
<1>1. \E f : Kept(s, S, f, Len(s))
  BY KeptExists
<1>2. KeepIn(s, S) = (CHOOSE f : Kept(s, S, f, Len(s)))[Len(s)]
  BY Zenon DEF KeepIn, Kept
<1>. QED  BY <1>1, <1>2

\* Sequences that agree are filtered alike.
LEMMA KeptAlike ==
  ASSUME NEW s, NEW t, NEW S, NEW m \in Nat, NEW n \in Nat, n <= m, NEW f, NEW g,
         Kept(s, S, f, n), Kept(t, S, g, m), \A i \in 1 .. n : s[i] = t[i]
  PROVE  f[n] = g[n]
<1>. DEFINE Good == {i \in 0 .. n : f[i] = g[i]}
<1>1. /\ f[0] = <<>> /\ g[0] = <<>>
      /\ \A i \in 1 .. n : f[i] = IF s[i] \in S THEN Append(f[i - 1], s[i]) ELSE f[i - 1]
      /\ \A i \in 1 .. n : g[i] = IF s[i] \in S THEN Append(g[i - 1], s[i]) ELSE g[i - 1]
  <2>1. \A i \in 1 .. m : g[i] = IF t[i] \in S THEN Append(g[i - 1], t[i]) ELSE g[i - 1]
    BY KeptStep DEF Filtered
  <2>2. /\ f[0] = <<>> /\ g[0] = <<>>
        /\ \A i \in 1 .. n : f[i] = IF s[i] \in S THEN Append(f[i - 1], s[i]) ELSE f[i - 1]
    BY KeptStep DEF Filtered
  <2>. QED  BY <2>1, <2>2
<1>2. 0 \in Good
  BY <1>1
<1>3. \A i \in 0 .. n - 1 : i \in Good => i + 1 \in Good
  <2>1. \A i \in 0 .. n - 1 : i + 1 \in 1 .. n /\ i + 1 - 1 = i
    OBVIOUS
  <2>. QED  BY <1>1, <2>1
<1>. HIDE DEF Good
<1>4. \A i \in 0 .. n : i \in Good
  BY <1>2, <1>3, Induction
<1>. QED  BY <1>4 DEF Good

LEMMA KeepInAppend ==
  ASSUME NEW T, NEW s \in Seq(T), NEW x \in T, NEW S
  PROVE  KeepIn(Append(s, x), S) = IF x \in S THEN Append(KeepIn(s, S), x) ELSE KeepIn(s, S)
<1>. DEFINE t == Append(s, x)
            n == Len(s)
<1>1. n \in Nat /\ Len(t) = n + 1 /\ t[n + 1] = x /\ \A i \in 1 .. n : s[i] = t[i]
  OBVIOUS
<1>. HIDE DEF t, n
<1>2. PICK f : Kept(s, S, f, n) /\ KeepIn(s, S) = f[n]
  BY <1>1, KeepInIsKept DEF n
<1>3. PICK g : Kept(t, S, g, n + 1) /\ KeepIn(t, S) = g[n + 1]
  BY <1>1, KeepInIsKept
<1>4. f[n] = g[n]
  BY <1>1, <1>2, <1>3, KeptAlike, n + 1 \in Nat, n <= n + 1
<1>5. g[n + 1] = IF t[n + 1] \in S THEN Append(g[n], t[n + 1]) ELSE g[n]
  <2>1. Filtered(t, S, g, n + 1)
    BY <1>1, <1>3, KeptStep
  <2>2. PICK k \in 1 .. n + 1 : k = n + 1 /\ k - 1 = n
    BY <1>1
  <2>3. g[k] = IF t[k] \in S THEN Append(g[k - 1], t[k]) ELSE g[k - 1]
    BY <2>1 DEF Filtered
  <2>. QED  BY <2>2, <2>3
<1>. QED  BY <1>1, <1>2, <1>3, <1>4, <1>5 DEF t

LEMMA KeepInEmpty == ASSUME NEW S PROVE KeepIn(<<>>, S) = <<>>
<1>1. PICK f : Kept(<<>>, S, f, 0) /\ KeepIn(<<>>, S) = f[0]
  BY KeepInIsKept, Len(<<>>) = 0
<1>. QED  BY <1>1, KeptStep DEF Filtered

\* Induction over a sequence, from its front.
LEMMA FrontInduction ==
  ASSUME NEW T, NEW s \in Seq(T), NEW C, <<>> \in C,
         \A t \in Seq(T) : \A x \in T : t \in C => Append(t, x) \in C
  PROVE  s \in C
<1>. DEFINE Part(i) == SubSeq(s, 1, i)
            Good == {i \in 0 .. Len(s) : Part(i) \in C}
<1>1. Len(s) \in Nat /\ \A i \in 1 .. Len(s) : s[i] \in T
  OBVIOUS
<1>2. 0 \in Good
  <2>1. Part(0) = <<>>
    BY SubSeqEmpty, 0 < 1
  <2>2. Part(0) \in C
    BY <2>1
  <2>. HIDE DEF Part
  <2>. QED  BY <1>1, <2>2
<1>3. \A i \in 0 .. Len(s) - 1 : i \in Good => i + 1 \in Good
  <2>. SUFFICES ASSUME NEW i \in 0 .. Len(s) - 1, Part(i) \in C PROVE Part(i + 1) \in C
    BY <1>1
  <2>1. i \in Nat /\ i <= Len(s) /\ i + 1 \in 1 .. Len(s) /\ i + 1 <= Len(s)
    BY <1>1
  <2>2. Part(i) \in Seq(T) /\ Len(Part(i)) = i /\ \A j \in 1 .. i : Part(i)[j] = s[j]
    BY <1>1, <2>1
  <2>3. Part(i + 1) \in Seq(T) /\ Len(Part(i + 1)) = i + 1 /\ \A j \in 1 .. i + 1 : Part(i + 1)[j] = s[j]
    BY <1>1, <2>1
  <2>4. s[i + 1] \in T
    BY <1>1, <2>1
  <2>. HIDE DEF Part
  <2>. DEFINE app == Append(Part(i), s[i + 1])
  <2>5. app \in Seq(T) /\ Len(app) = i + 1 /\ \A j \in 1 .. i + 1 : app[j] = s[j]
    BY <2>1, <2>2, <2>4
  <2>. HIDE DEF app
  <2>6. app = Part(i + 1)
    BY <2>3, <2>5, SeqEqual
  <2>. QED  BY <2>2, <2>4, <2>6 DEF app
<1>4. Len(s) \in Good
  <2>. HIDE DEF Good
  <2>1. Len(s) \in 0 .. Len(s)
    BY <1>1
  <2>. QED  BY <1>1, <1>2, <1>3, <2>1, Induction
<1>5. Part(Len(s)) = s
  BY SubSeqFull
<1>. QED  BY <1>4, <1>5

LEMMA ToSetAppend ==
  ASSUME NEW T, NEW s \in Seq(T), NEW x \in T
  PROVE  Append(s, x) \in Seq(T) /\ ToSet(Append(s, x)) = ToSet(s) \cup {x}
<1>1. DOMAIN Append(s, x) = 1 .. Len(s) + 1 /\ DOMAIN s = 1 .. Len(s)
  OBVIOUS
<1>2. Append(s, x)[Len(s) + 1] = x /\ \A i \in 1 .. Len(s) : Append(s, x)[i] = s[i]
  OBVIOUS
<1>3. Len(s) \in Nat
  OBVIOUS
<1>. QED  BY <1>1, <1>2, <1>3 DEF ToSet

\* What a filter leaves: a sequence of the same kind with the elements it lets
\* through; nothing changes if it lets all through; and a filter before a
\* stricter one makes no difference to it.
LEMMA KeepInProperties ==
  ASSUME NEW T, NEW s \in Seq(T), NEW S
  PROVE  /\ KeepIn(s, S) \in Seq(T)
         /\ ToSet(KeepIn(s, S)) = ToSet(s) \cap S
         /\ ToSet(s) \subseteq S => KeepIn(s, S) = s
         /\ \A A : ToSet(s) \cap S \subseteq A => KeepIn(KeepIn(s, A), S) = KeepIn(s, S)
<1>. DEFINE Claim(t) == /\ KeepIn(t, S) \in Seq(T)
                        /\ ToSet(KeepIn(t, S)) = ToSet(t) \cap S
                        /\ ToSet(t) \subseteq S => KeepIn(t, S) = t
            C == {t \in Seq(T) : Claim(t)}
<1>1. <<>> \in C
  <2>1. ToSet(<<>>) = {} /\ <<>> \in Seq(T)
    BY DEF ToSet
  <2>. QED  BY <2>1, KeepInEmpty
<1>2. ASSUME NEW t \in Seq(T), NEW x \in T, t \in C PROVE Append(t, x) \in C
  <2>1. Claim(t)
    BY <1>2
  <2>2. Append(t, x) \in Seq(T) /\ ToSet(Append(t, x)) = ToSet(t) \cup {x}
    BY ToSetAppend
  <2>3. KeepIn(Append(t, x), S) = IF x \in S THEN Append(KeepIn(t, S), x) ELSE KeepIn(t, S)
    BY KeepInAppend
  <2>4. Append(KeepIn(t, S), x) \in Seq(T) /\ ToSet(Append(KeepIn(t, S), x)) = ToSet(KeepIn(t, S)) \cup {x}
    BY <2>1, ToSetAppend
  <2>. QED  BY <2>1, <2>2, <2>3, <2>4
<1>3. s \in C
  <2>. HIDE DEF C
  <2>. QED  BY <1>1, <1>2, FrontInduction
<1>4. ASSUME NEW A, ToSet(s) \cap S \subseteq A PROVE KeepIn(KeepIn(s, A), S) = KeepIn(s, S)
  <2>. DEFINE D == {t \in Seq(T) : /\ KeepIn(t, A) \in Seq(T)
                                   /\ ToSet(t) \cap S \subseteq A => KeepIn(KeepIn(t, A), S) = KeepIn(t, S)}
  <2>1. <<>> \in D
    <3>1. <<>> \in Seq(T)
      OBVIOUS
    <3>. QED  BY <3>1, KeepInEmpty
  <2>2. ASSUME NEW t \in Seq(T), NEW x \in T, t \in D PROVE Append(t, x) \in D
    <3>1. Append(t, x) \in Seq(T) /\ ToSet(Append(t, x)) = ToSet(t) \cup {x}
      BY ToSetAppend
    <3>2. KeepIn(Append(t, x), S) = IF x \in S THEN Append(KeepIn(t, S), x) ELSE KeepIn(t, S)
      BY KeepInAppend
    <3>3. KeepIn(Append(t, x), A) = IF x \in A THEN Append(KeepIn(t, A), x) ELSE KeepIn(t, A)
      BY KeepInAppend
    <3>4. KeepIn(t, A) \in Seq(T) /\ (ToSet(t) \cap S \subseteq A => KeepIn(KeepIn(t, A), S) = KeepIn(t, S))
      BY <2>2
    <3>5. KeepIn(Append(KeepIn(t, A), x), S)
            = IF x \in S THEN Append(KeepIn(KeepIn(t, A), S), x) ELSE KeepIn(KeepIn(t, A), S)
      BY <3>4, KeepInAppend
    <3>6. Append(KeepIn(t, A), x) \in Seq(T)
      BY <3>4, ToSetAppend
    <3>. QED  BY <3>1, <3>2, <3>3, <3>4, <3>5, <3>6
  <2>. HIDE DEF D
  <2>3. s \in D
    BY <2>1, <2>2, FrontInduction
  <2>. QED  BY <1>4, <2>3 DEF D
<1>. QED  BY <1>3, <1>4
\* What is put behind a sequence, its elements and what a filter lets through of
\* the whole when it lets nothing through of what is behind.
LEMMA KeepInBehind ==
  ASSUME NEW T, NEW s \in Seq(T), NEW t \in Seq(T)
  PROVE  /\ s \o t \in Seq(T)
         /\ ToSet(s \o t) = ToSet(s) \cup ToSet(t)
         /\ \A F : ToSet(t) \cap F = {} => KeepIn(s \o t, F) = KeepIn(s, F)
<1>1. s \o t \in Seq(T) /\ ToSet(s \o t) = ToSet(s) \cup ToSet(t)
  <2>1. /\ s \o t \in Seq(T) /\ DOMAIN s = 1 .. Len(s) /\ DOMAIN t = 1 .. Len(t) /\ Len(s) \in Nat /\ Len(t) \in Nat
        /\ DOMAIN (s \o t) = 1 .. Len(s) + Len(t)
        /\ \A i \in 1 .. Len(s) + Len(t) : (s \o t)[i] = IF i <= Len(s) THEN s[i] ELSE t[i - Len(s)]
    OBVIOUS
  <2>. DEFINE m == Len(s)
              n == Len(t)
              u == s \o t
  <2>2. m \in Nat /\ n \in Nat /\ DOMAIN s = 1 .. m /\ DOMAIN t = 1 .. n /\ DOMAIN u = 1 .. m + n
        /\ \A i \in 1 .. m + n : u[i] = IF i <= m THEN s[i] ELSE t[i - m]
    BY <2>1
  <2>. HIDE DEF m, n, u
  <2>3. \A i \in 1 .. m : i \in 1 .. m + n /\ u[i] = s[i]
    BY <2>2
  <2>4. \A i \in 1 .. n : m + i \in 1 .. m + n /\ u[m + i] = t[i]
    BY <2>2
  <2>5. \A i \in 1 .. m + n : u[i] \in {s[j] : j \in 1 .. m} \cup {t[j] : j \in 1 .. n}
    BY <2>2
  <2>6. ToSet(u) = ToSet(s) \cup ToSet(t)
    <3>1. /\ ToSet(u) = {u[i] : i \in 1 .. m + n}
          /\ ToSet(s) = {s[i] : i \in 1 .. m} /\ ToSet(t) = {t[i] : i \in 1 .. n}
      BY <2>2 DEF ToSet
    <3>2. ToSet(u) \subseteq ToSet(s) \cup ToSet(t)
      BY <2>5, <3>1
    <3>3. ToSet(s) \subseteq ToSet(u)
      BY <2>3, <3>1
    <3>4. ToSet(t) \subseteq ToSet(u)
      BY <2>4, <3>1
    <3>. QED  BY <3>2, <3>3, <3>4
  <2>. QED  BY <2>1, <2>6 DEF u
<1>2. ASSUME NEW F, ToSet(t) \cap F = {} PROVE KeepIn(s \o t, F) = KeepIn(s, F)
  <2>. DEFINE C == {r \in Seq(T) : ToSet(r) \cap F = {} => KeepIn(s \o r, F) = KeepIn(s, F)}
  <2>1. <<>> \in C
    <3>1. <<>> \in Seq(T) /\ s \o <<>> = s
      OBVIOUS
    <3>. QED  BY <3>1
  <2>2. ASSUME NEW r \in Seq(T), NEW x \in T, r \in C PROVE Append(r, x) \in C
    <3>1. Append(r, x) \in Seq(T) /\ ToSet(Append(r, x)) = ToSet(r) \cup {x}
      BY ToSetAppend
    <3>2. s \o r \in Seq(T) /\ s \o Append(r, x) = Append(s \o r, x)
      OBVIOUS
    <3>3. KeepIn(Append(s \o r, x), F) = IF x \in F THEN Append(KeepIn(s \o r, F), x) ELSE KeepIn(s \o r, F)
      BY <3>2, KeepInAppend
    <3>. QED  BY <2>2, <3>1, <3>2, <3>3
  <2>. HIDE DEF C
  <2>3. t \in C
    BY <2>1, <2>2, FrontInduction
  <2>. QED  BY <1>2, <2>3 DEF C
<1>. QED  BY <1>1, <1>2
-----------------------------------------------------------------------------
(* What the steps do to a call *)

Current(a) == call[a] \in Calls /\ call[a].item \in DOMAIN Bundle[a]

\* The call goes on with its item ...
Moves(a, pc) ==
  /\ call' \in [Apps -> Calls \cup {Idle}] /\ call'[a] \in Calls
  /\ call'[a].op = call[a].op /\ call'[a].options = call[a].options /\ call'[a].item = call[a].item
  /\ call'[a].status = call[a].status /\ call'[a].rows = call[a].rows /\ call'[a].pc = pc
  /\ call[a].blind \subseteq call'[a].blind
  /\ \A b \in Apps \ {a} : call'[b] = call[b]

\* ... or is done with it: status s, and rows R for its files.
Ends(a, s, R) ==
  /\ call' \in [Apps -> Calls \cup {Idle}] /\ call'[a] \in Calls
  /\ call'[a].op = call[a].op /\ call'[a].options = call[a].options /\ call'[a].item = call[a].item + 1
  /\ call'[a].status = Append(call[a].status, s) /\ call'[a].rows = call[a].rows \cup R
  /\ call'[a].pc = "start" /\ call'[a].read = {} /\ call[a].blind \subseteq call'[a].blind
  /\ \A b \in Apps \ {a} : call'[b] = call[b]

\* The rows of an item that is concluded.
RowsOf(c, item, ok, present) ==
  {<<p, GeneratedStatus(c, item, p, ok, present, seen)>> : p \in PathsOf(item), seen \in BOOLEAN}

LEMMA ItemType ==
  ASSUME NEW a \in Apps, NEW i \in DOMAIN Bundle[a]
  PROVE  Bundle[a][i] \in Items /\ Bundle[a][i].kind \in Kinds /\ PathsOf(Bundle[a][i]) \subseteq AllPaths
<1>1. Bundle[a] \in Seq(Items)
  BY DesktopAssumption
<1>2. Bundle[a][i] \in Items
  BY <1>1
<1>. QED  BY <1>2, DesktopAssumption DEF AllPaths

LEMMA StatusType ==
  ASSUME NEW c \in Calls, NEW ok \in BOOLEAN, NEW present \in BOOLEAN
  PROVE  StatusFor(c, ok, present) \in Statuses
BY DEF StatusFor, Statuses

LEMMA RowType ==
  ASSUME NEW c \in Calls, NEW item, NEW p, NEW ok \in BOOLEAN, NEW present \in BOOLEAN, NEW seen \in BOOLEAN
  PROVE  GeneratedStatus(c, item, p, ok, present, seen) \in RowStatuses
<1>1. c.op \in Ops
  BY DEF Calls
<1>2. CASE p \in c.seen
  BY <1>2 DEF GeneratedStatus, RowStatuses
<1>3. CASE p \notin c.seen /\ Withheld(c, item)
  BY <1>3 DEF GeneratedStatus, RowStatuses
<1>4. CASE p \notin c.seen /\ ~Withheld(c, item)
  <2>1. CASE item.kind \in Registrations
    BY <1>4, <2>1 DEF GeneratedStatus, RowStatuses
  <2>2. CASE item.kind \notin Registrations /\ c.op \in {"plan", "apply"}
    BY <1>4, <2>2 DEF GeneratedStatus, RowStatuses
  <2>3. CASE item.kind \notin Registrations /\ c.op = "query"
    BY <1>4, <2>3 DEF GeneratedStatus, RowStatuses
  <2>4. CASE item.kind \notin Registrations /\ c.op = "remove"
    BY <1>4, <2>4 DEF GeneratedStatus, RowStatuses
  <2>. QED  BY <1>1, <2>1, <2>2, <2>3, <2>4 DEF Ops
<1>. QED  BY <1>2, <1>3, <1>4

LEMMA ConcludeSeeingEffect ==
  ASSUME Typed, NEW a \in Apps, Current(a), NEW ok \in BOOLEAN, NEW known \in BOOLEAN,
         NEW present \in BOOLEAN, NEW looked \in BOOLEAN, NEW saw \in BOOLEAN,
         ConcludeSeeing(a, ok, known, present, looked, saw)
  PROVE  /\ \E R \in SUBSET RowsOf(call[a], Item(a), ok, present) :
              Ends(a, StatusFor(call[a], ok, present), R)
         /\ ~looked => call[a].item \in call'[a].blind
<1>. DEFINE c == call[a]
            item == Item(a)
            P == IF item.kind = "policy"
                 THEN (IF known THEN {item.path} ELSE {}) \cup (IF item.enforced THEN {item.lock} ELSE {})
                 ELSE IF known THEN PathsOf(item) ELSE {}
            R == {<<p, GeneratedStatus(c, item, p, ok, present, saw)>> : p \in P}
            s == StatusFor(c, ok, present)
            seen == c.seen \cup {r[1] : r \in R}
            blind == IF looked THEN c.blind ELSE c.blind \cup {c.item}
            d == [c EXCEPT !.item = @ + 1, !.pc = "start", !.present = FALSE, !.read = {},
                           !.seen = seen, !.blind = blind, !.status = Append(@, s), !.rows = @ \cup R]
<1>1. call' = [call EXCEPT ![a] = d]
  BY DEF ConcludeSeeing
<1>2. P \subseteq PathsOf(item)
  BY DEF PathsOf, Registrations
<1>3. PathsOf(item) \subseteq AllPaths
  BY ItemType DEF Current, Item
<1>4. R \subseteq RowsOf(c, item, ok, present) /\ R \subseteq AllPaths \X RowStatuses
  <2>. HIDE DEF P, item
  <2>1. \A p \in P : GeneratedStatus(c, item, p, ok, present, saw) \in RowStatuses
    BY RowType DEF Current
  <2>. QED  BY <1>2, <1>3, <2>1 DEF RowsOf
<1>5. s \in Statuses
  BY StatusType DEF Current
<1>6. {r[1] : r \in R} \subseteq AllPaths
  BY <1>4
<1>. HIDE DEF P, R, s, item
<1>7. c \in Calls /\ c.status \in Seq(Statuses) /\ c.rows \in Rows /\ c.seen \subseteq AllPaths /\ c.item \in Nat \ {0}
      /\ c.blind \in SUBSET Nat
  BY DEF Current, Calls
<1>8. /\ seen \in SUBSET AllPaths /\ Append(c.status, s) \in Seq(Statuses) /\ c.rows \cup R \in Rows
      /\ c.item + 1 \in Nat \ {0} /\ "start" \in Places /\ {} \in SUBSET Lists
      /\ blind \in SUBSET Nat /\ c.blind \subseteq blind /\ (~looked => c.item \in blind)
  BY <1>4, <1>5, <1>6, <1>7 DEF Rows, Places
<1>. HIDE DEF seen, blind
<1>9. d \in Calls /\ d.op = c.op /\ d.options = c.options /\ d.item = c.item + 1
      /\ d.status = Append(c.status, s) /\ d.rows = c.rows \cup R /\ d.pc = "start" /\ d.read = {}
      /\ d.blind = blind
  BY <1>7, <1>8 DEF Calls
<1>. HIDE DEF d, c
<1>10. call' \in [Apps -> Calls \cup {Idle}] /\ call'[a] = d /\ \A b \in Apps \ {a} : call'[b] = call[b]
  BY <1>1, <1>9 DEF Typed
<1>11. Ends(a, s, R)
  BY <1>8, <1>9, <1>10 DEF Ends, c
<1>12. ~looked => call[a].item \in call'[a].blind
  BY <1>8, <1>9, <1>10 DEF c
<1>. QED  BY <1>4, <1>11, <1>12 DEF s, c, item

LEMMA ConcludeEffect ==
  ASSUME Typed, NEW a \in Apps, Current(a), NEW ok \in BOOLEAN, NEW known \in BOOLEAN,
         NEW present \in BOOLEAN, Conclude(a, ok, known, present)
  PROVE  \E R \in SUBSET RowsOf(call[a], Item(a), ok, present) :
           Ends(a, StatusFor(call[a], ok, present), R)
BY ConcludeSeeingEffect DEF Conclude

LEMMA CleanupRowEffect ==
  ASSUME Typed, NEW a \in Apps, Current(a), Item(a).kind = "cleanup",
         call[a].read = {}, NEW st \in RowStatuses, CleanupRow(a, st)
  PROVE  Ends(a, IF st = "failed" THEN "failed" ELSE "done", {<<Item(a).path, st>>})
<1>. DEFINE c == call[a]
            p == Item(a).path
            s == IF st = "failed" THEN "failed" ELSE "done"
            d == [c EXCEPT !.item = @ + 1, !.pc = "start", !.seen = @ \cup {p},
                           !.status = Append(@, s), !.rows = @ \cup {<<p, st>>}]
<1>1. call' = [call EXCEPT ![a] = d]
  BY DEF CleanupRow
<1>2. p \in AllPaths
  <2>1. PathsOf(Item(a)) = {p}
    BY DEF PathsOf, Registrations
  <2>. QED  BY <2>1, ItemType DEF Current, Item
<1>3. s \in Statuses
  BY DEF Statuses
<1>. HIDE DEF p, s
<1>4. c \in Calls /\ c.status \in Seq(Statuses) /\ c.rows \in Rows /\ c.seen \subseteq AllPaths /\ c.item \in Nat \ {0}
  BY DEF Current, Calls
<1>5. /\ c.seen \cup {p} \in SUBSET AllPaths /\ Append(c.status, s) \in Seq(Statuses) /\ c.rows \cup {<<p, st>>} \in Rows
      /\ c.item + 1 \in Nat \ {0} /\ "start" \in Places
  BY <1>2, <1>3, <1>4 DEF Rows, Places
<1>6. d \in Calls /\ d.op = c.op /\ d.options = c.options /\ d.item = c.item + 1 /\ d.read = c.read /\ d.blind = c.blind
      /\ d.status = Append(c.status, s) /\ d.rows = c.rows \cup {<<p, st>>} /\ d.pc = "start"
  BY <1>4, <1>5 DEF Calls
<1>. HIDE DEF d, c
<1>7. call' \in [Apps -> Calls \cup {Idle}] /\ call'[a] = d /\ \A b \in Apps \ {a} : call'[b] = call[b]
  BY <1>1, <1>6 DEF Typed
<1>. QED  BY <1>6, <1>7 DEF Ends, c, p, s

LEMMA GotoEffect ==
  ASSUME Typed, NEW a \in Apps, Current(a), NEW pc \in Places, Goto(a, pc)
  PROVE  Moves(a, pc) /\ call'[a].read = call[a].read
<1>. DEFINE d == [call[a] EXCEPT !.pc = pc]
<1>1. call' = [call EXCEPT ![a] = d]
  BY DEF Goto, Typed
<1>2. /\ d \in Calls /\ d.op = call[a].op /\ d.options = call[a].options /\ d.item = call[a].item
      /\ d.status = call[a].status /\ d.rows = call[a].rows /\ d.pc = pc /\ d.read = call[a].read
      /\ d.blind = call[a].blind
  BY DEF Current, Calls
<1>. HIDE DEF d
<1>3. call' \in [Apps -> Calls \cup {Idle}] /\ call'[a] = d /\ \A b \in Apps \ {a} : call'[b] = call[b]
  BY <1>1, <1>2 DEF Typed
<1>. QED  BY <1>2, <1>3 DEF Moves

LEMMA WorkingIsCurrent ==
  ASSUME Typed, NEW a \in Apps, Working(a)
  PROVE  Current(a) /\ call[a].op \in Ops /\ Item(a) \in Items
<1>1. call[a] \in Calls
  BY DEF Typed, Working, Idle
<1>2. Bundle[a] \in Seq(Items) /\ call[a].item \in Nat \ {0} /\ call[a].op \in Ops
  BY <1>1, DesktopAssumption DEF Calls
<1>3. call[a].item \in DOMAIN Bundle[a]
  BY <1>2 DEF Working
<1>. QED  BY <1>1, <1>2, <1>3, ItemType DEF Current, Item

LEMMA EndsKeepsInv ==
  ASSUME Inv, NEW a \in Apps, Current(a), NEW s, NEW R, Ends(a, s, R), report' = report,
         files' \in [Paths -> Contents], list' \in Lists
  PROVE  Inv'
<1>1. Typed'
  BY DEF Inv, Typed, Ends
<1>2. call[a].op # "none" /\ call[a].item \in Nat /\ call[a].item <= Len(Bundle[a]) /\ call[a].status \in Seq(Statuses)
  <2>1. Bundle[a] \in Seq(Items) /\ call[a].item \in DOMAIN Bundle[a]
    BY DesktopAssumption DEF Current
  <2>. QED  BY <2>1 DEF Current, Calls, Ops
<1>3. Len(Append(call[a].status, s)) = Len(call[a].status) + 1
  BY <1>2
<1>4. ASSUME NEW b \in Apps, call'[b].op # "none"
      PROVE  /\ call'[b].item <= Len(Bundle[b]) + 1
             /\ Len(call'[b].status) = call'[b].item - 1
             /\ report'[b].op = "none"
             /\ call'[b].pc # "start" => /\ call'[b].item <= Len(Bundle[b]) /\ PlaceFits(call'[b], Bundle[b][call'[b].item])
                                         /\ ~IsDryRun(call'[b]) \/ call'[b].pc = "clean"
             /\ call'[b].pc # "update" => call'[b].read = {}
             /\ call'[b].pc = "update" => \E l \in Lists : call'[b].read = {l}
  <2>1. CASE b = a
    <3>1. Len(Bundle[a]) \in Nat
      BY DesktopAssumption
    <3>2. Len(call[a].status) = call[a].item - 1 /\ report[a].op = "none"
      BY <1>2 DEF Inv, CallsFit
    <3>3. /\ call'[a].item = call[a].item + 1 /\ call'[a].status = Append(call[a].status, s)
          /\ call'[a].pc = "start" /\ call'[a].read = {}
      BY DEF Ends
    <3>. QED  BY <1>2, <1>3, <2>1, <3>1, <3>2, <3>3
  <2>2. CASE b # a
    BY <1>4, <2>2 DEF Ends, Inv, CallsFit, Item
  <2>. QED  BY <2>1, <2>2
<1>5. CallsFit'
  BY <1>4 DEF CallsFit, Item
<1>. QED  BY <1>1, <1>5 DEF Inv

LEMMA MovesKeepsInv ==
  ASSUME Inv, NEW a \in Apps, Current(a), NEW pc, Moves(a, pc), report' = report,
         files' \in [Paths -> Contents], list' \in Lists,
         PlaceFits(call'[a], Item(a)), ~IsDryRun(call[a]) \/ pc = "clean",
         IF pc = "update" THEN \E l \in Lists : call'[a].read = {l} ELSE call'[a].read = {}
  PROVE  Inv'
<1>1. Typed'
  BY DEF Inv, Typed, Moves
<1>2. call[a].op # "none" /\ call[a].item \in Nat /\ call[a].item <= Len(Bundle[a])
  <2>1. Bundle[a] \in Seq(Items) /\ call[a].item \in DOMAIN Bundle[a]
    BY DesktopAssumption DEF Current
  <2>. QED  BY <2>1 DEF Current, Calls, Ops
<1>4. ASSUME NEW b \in Apps, call'[b].op # "none"
      PROVE  /\ call'[b].item <= Len(Bundle[b]) + 1
             /\ Len(call'[b].status) = call'[b].item - 1
             /\ report'[b].op = "none"
             /\ call'[b].pc # "start" => /\ call'[b].item <= Len(Bundle[b]) /\ PlaceFits(call'[b], Bundle[b][call'[b].item])
                                         /\ ~IsDryRun(call'[b]) \/ call'[b].pc = "clean"
             /\ call'[b].pc # "update" => call'[b].read = {}
             /\ call'[b].pc = "update" => \E l \in Lists : call'[b].read = {l}
  <2>1. CASE b = a
    <3>1. Len(Bundle[a]) \in Nat
      BY DesktopAssumption
    <3>2. IsDryRun(call'[a]) <=> IsDryRun(call[a])
      BY DEF IsDryRun, Moves
    <3>. QED  BY <1>2, <2>1, <3>1, <3>2 DEF Moves, Inv, CallsFit, Item
  <2>2. CASE b # a
    BY <1>4, <2>2 DEF Moves, Inv, CallsFit, Item
  <2>. QED  BY <2>1, <2>2
<1>5. CallsFit'
  BY <1>4 DEF CallsFit, Item
<1>. QED  BY <1>1, <1>5 DEF Inv
-----------------------------------------------------------------------------
(* The steps of a call, by what they do to the call and to what is shared *)

Concluded(a, ok, present) ==
  \E R \in SUBSET RowsOf(call[a], Item(a), ok, present) : Ends(a, StatusFor(call[a], ok, present), R)
shared == <<files, list, staged, raced, halfRemoved>>

QuietEnd(a) ==
  /\ UNCHANGED shared
  /\ \E ok \in BOOLEAN, present \in BOOLEAN :
       /\ Concluded(a, ok, present)
       /\ ok => \/ call[a].op = "query" /\ present = Found(Item(a))
                \/ /\ call[a].op = "query" /\ ~present
                   /\ TakesErrorForAbsence(Item(a)) /\ call[a].item \in call'[a].blind
                \/ call[a].op # "query" /\ IsDryRun(call[a])
QuietMove(a) ==
  /\ UNCHANGED shared
  /\ \E pc \in {"write", "probe", "remove", "look", "read", "clean"} : Moves(a, pc)
Skipped(a) ==
  /\ UNCHANGED shared
  /\ Item(a).kind = "cleanup"
  /\ \E st \in RowStatuses \ {"removed"} :
       /\ Ends(a, IF st = "failed" THEN "failed" ELSE "done", {<<Item(a).path, st>>})
       /\ st = "already_absent" => files[Item(a).path] = Absent
Wrote(a) ==
  /\ At(a, "write") /\ UNCHANGED <<list, staged, raced>>
  /\ files' = [files EXCEPT ![Item(a).path] = Item(a).content]
  /\ halfRemoved' = halfRemoved \ {Item(a).path}
  /\ \/ Item(a).kind = "policy" /\ Item(a).enforced /\ Moves(a, "lock")
     \/ ~(Item(a).kind = "policy" /\ Item(a).enforced) /\ Concluded(a, TRUE, TRUE)
     \/ Concluded(a, FALSE, TRUE)
Tore(a) ==
  /\ At(a, "write") /\ UNCHANGED <<list, staged, raced, halfRemoved>>
  /\ Item(a).kind = "icon"
  /\ files' = [files EXCEPT ![Item(a).path] = Torn]
  /\ Concluded(a, FALSE, TRUE)
Locked(a) ==
  /\ At(a, "lock") /\ UNCHANGED <<list, staged, raced, halfRemoved>>
  /\ files' = [files EXCEPT ![Item(a).lock] = Item(a).content]
  /\ Concluded(a, TRUE, TRUE) \/ Concluded(a, FALSE, TRUE)
Removed(a) ==
  /\ At(a, "remove") /\ UNCHANGED <<list, staged, raced>>
  /\ files' = [files EXCEPT ![Item(a).path] = Absent]
  /\ \/ Item(a).kind = "policy" /\ Moves(a, "unlock") /\ halfRemoved' = halfRemoved \cup {Item(a).path}
     \/ Item(a).kind # "policy" /\ Concluded(a, TRUE, call[a].present) /\ halfRemoved' = halfRemoved
Unlocked(a) ==
  /\ At(a, "unlock") /\ UNCHANGED <<list, staged, raced>>
  /\ files' = [files EXCEPT ![Item(a).lock] = Absent]
  /\ halfRemoved' = halfRemoved \ {Item(a).path}
  /\ Concluded(a, TRUE, call[a].present)
Cleaned(a) ==
  /\ At(a, "clean") /\ UNCHANGED <<list, staged, raced, halfRemoved>>
  /\ files' = [files EXCEPT ![Item(a).path] = Absent]
  /\ \/ Ends(a, "done", {<<Item(a).path, "removed">>})
     \/ Ends(a, "failed", {<<Item(a).path, "failed">>})
ReadIt(a) ==
  /\ At(a, "read") /\ UNCHANGED <<files, list, staged, halfRemoved>>
  /\ raced' = (raced \/ \E b \in Apps \ {a} : At(b, "update"))
  /\ Moves(a, "update") /\ call'[a].read = {list}
ReadFailed(a) ==
  /\ At(a, "read") /\ UNCHANGED <<files, list, staged, halfRemoved>>
  /\ raced' = (raced \/ \E b \in Apps \ {a} : At(b, "update"))
  /\ Concluded(a, FALSE, call[a].present)
\* The list is written, whatever the report says of it, ...
UpdatedIt(a) ==
  /\ At(a, "update") /\ UNCHANGED <<files, raced, halfRemoved>>
  /\ \E l \in call[a].read : list' = Updated(l, Item(a), Removing(Item(a), call[a].op))
  /\ staged' \subseteq staged \cup {Mine(a)} /\ (Removing(Item(a), call[a].op) => Mine(a) \notin staged')
  /\ \E ok \in BOOLEAN : Concluded(a, ok, call[a].present)
\* ... or it is not.
UpdateFailed(a) ==
  /\ At(a, "update") /\ UNCHANGED <<files, list, raced, halfRemoved>>
  /\ staged' \subseteq staged
  /\ Concluded(a, FALSE, call[a].present)

View(a) ==
  /\ Current(a) /\ call[a].op \in Ops /\ Item(a) \in Items
  /\ call[a].pc # "start" => PlaceFits(call[a], Item(a))
  /\ report' = report
  /\ \/ QuietEnd(a) \/ QuietMove(a) \/ Skipped(a) \/ Wrote(a) \/ Tore(a)
     \/ Locked(a) \/ Removed(a) \/ Unlocked(a) \/ Cleaned(a)
     \/ ReadIt(a) \/ ReadFailed(a) \/ UpdatedIt(a) \/ UpdateFailed(a)

\* The item in hand, as it is known at every place.
LEMMA InHand ==
  ASSUME Inv, NEW a \in Apps, Working(a)
  PROVE  /\ Current(a) /\ call[a].op \in Ops /\ Item(a) \in Items /\ call[a].present \in BOOLEAN
         /\ call[a].pc # "start" => PlaceFits(call[a], Item(a))
         /\ ~IsDryRun(call[a]) \/ call[a].pc \in {"start", "clean"}
         /\ IF call[a].pc = "update" THEN \E l \in Lists : call[a].read = {l} ELSE call[a].read = {}
<1>1. Current(a) /\ call[a].op \in Ops /\ Item(a) \in Items
  BY WorkingIsCurrent DEF Inv
<1>2. call[a].op # "none"
  BY DEF Working
<1>. QED  BY <1>1, <1>2 DEF Inv, CallsFit, Current, Calls

LEMMA RefusalIsQuiet ==
  ASSUME Inv, NEW a \in Apps, Working(a), UNCHANGED shared, NEW present \in BOOLEAN, NEW known \in BOOLEAN,
         Conclude(a, FALSE, known, present)
  PROVE  QuietEnd(a)
<1>1. Concluded(a, FALSE, present)
  BY InHand, ConcludeEffect DEF Inv, Concluded
<1>. QED  BY <1>1 DEF QuietEnd

LEMMA ItemKind == \A i \in Items : i.kind \in Kinds
BY DesktopAssumption

\* The query of an item, by its kind.
LEMMA FoundCases ==
  ASSUME NEW i
  PROVE  /\ i.kind \in Registrations => Found(i) = FoundRegistration(i)
         /\ i.kind = "policy" => Found(i) = FoundPolicy(i)
         /\ i.kind \notin Registrations /\ i.kind # "policy" => Found(i) = (files[i.path] # Absent)
BY DEF Found, Registrations

LEMMA QuietEndKeepsInv ==
  ASSUME Inv, NEW a \in Apps, Current(a), report' = report, QuietEnd(a)
  PROVE  Inv'
<1>1. PICK s, R : Ends(a, s, R)
  BY DEF QuietEnd, Concluded
<1>2. files' \in [Paths -> Contents] /\ list' \in Lists
  BY DEF QuietEnd, shared, Inv, Typed
<1>. QED  BY <1>1, <1>2, EndsKeepsInv

LEMMA QuietMoveKeepsInv ==
  ASSUME Inv, NEW a \in Apps, Current(a), report' = report, UNCHANGED shared,
         NEW pc \in {"write", "probe", "remove", "look", "read", "clean"}, Moves(a, pc),
         PlaceFits(call'[a], Item(a)), ~IsDryRun(call[a]) \/ pc = "clean", call'[a].read = call[a].read,
         call[a].read = {}
  PROVE  Inv' /\ QuietMove(a)
<1>1. files' \in [Paths -> Contents] /\ list' \in Lists
  BY DEF shared, Inv, Typed
<1>. QED  BY <1>1, MovesKeepsInv DEF QuietMove

LEMMA QuietView ==
  ASSUME Inv, NEW a \in Apps, Refuse(a) \/ Query(a) \/ QueryFails(a) \/ DryRun(a) \/ Start(a)
                              \/ RemoveFails(a) \/ Probe(a) \/ Look(a)
  PROVE  View(a) /\ (QuietEnd(a) \/ QuietMove(a)) /\ Inv'
<1>0. Working(a) /\ report' = report /\ UNCHANGED shared
  BY DEF At, Refuse, Query, QueryFails, DryRun, Start, RemoveFails, Probe, Look, Quiet, shared
<1>1. /\ Current(a) /\ call[a].op \in Ops /\ Item(a) \in Items /\ call[a].present \in BOOLEAN /\ call[a].item \in DOMAIN Bundle[a]
      /\ call[a].pc # "start" => PlaceFits(call[a], Item(a))
      /\ ~IsDryRun(call[a]) \/ call[a].pc \in {"start", "clean"}
      /\ IF call[a].pc = "update" THEN \E l \in Lists : call[a].read = {l} ELSE call[a].read = {}
  BY <1>0, InHand DEF Current
<1>2. CASE RemoveFails(a)
  <2>1. QuietEnd(a)
    BY <1>0, <1>1, <1>2, RefusalIsQuiet DEF RemoveFails, Fails
  <2>. QED  BY <1>0, <1>1, <2>1, QuietEndKeepsInv DEF View
<1>3. CASE Refuse(a)
  <2>1. PathKnown(call[a], Item(a), FALSE) \in BOOLEAN
    BY DEF PathKnown
  <2>2. QuietEnd(a)
    BY <1>0, <1>3, <2>1, RefusalIsQuiet DEF Refuse
  <2>. QED  BY <1>0, <1>1, <2>2, QuietEndKeepsInv DEF View
<1>f. Found(Item(a)) \in BOOLEAN
  <2>1. FoundRegistration(Item(a)) \in BOOLEAN
    BY DEF FoundRegistration
  <2>2. FoundPolicy(Item(a)) \in BOOLEAN
    BY DEF FoundPolicy
  <2>3. (files[Item(a).path] # Absent) \in BOOLEAN
    OBVIOUS
  <2>. QED  BY <2>1, <2>2, <2>3, FoundCases, Zenon
<1>4. CASE Query(a)
  <2>1. Found(Item(a)) \in BOOLEAN
    BY <1>f
  <2>2. Concluded(a, TRUE, Found(Item(a)))
    BY <1>1, <1>4, <2>1, ConcludeEffect DEF Query, Concluded, Inv
  <2>3. QuietEnd(a)
    BY <1>0, <1>4, <2>1, <2>2 DEF QuietEnd, Query
  <2>. QED  BY <1>0, <1>1, <2>3, QuietEndKeepsInv DEF View
<1>8. CASE QueryFails(a)
  <2>0. call[a].op = "query"
    BY <1>8 DEF QueryFails
  <2>1. CASE \E seen \in BOOLEAN : ConcludeSeeing(a, TakesErrorForAbsence(Item(a)), TRUE, FALSE, FALSE, seen)
    <3>1. PICK seen \in BOOLEAN : ConcludeSeeing(a, TakesErrorForAbsence(Item(a)), TRUE, FALSE, FALSE, seen)
      BY <2>1
    <3>0. TakesErrorForAbsence(Item(a)) \in BOOLEAN
      BY DEF TakesErrorForAbsence
    <3>2. \A ok \in BOOLEAN : ConcludeSeeing(a, ok, TRUE, FALSE, FALSE, seen) =>
                             Concluded(a, ok, FALSE) /\ call[a].item \in call'[a].blind
      <4>. SUFFICES ASSUME NEW ok \in BOOLEAN, ConcludeSeeing(a, ok, TRUE, FALSE, FALSE, seen)
                    PROVE  Concluded(a, ok, FALSE) /\ call[a].item \in call'[a].blind
        OBVIOUS
      <4>. QED  BY <1>1, ConcludeSeeingEffect DEF Concluded, Inv
    <3>3. Concluded(a, TakesErrorForAbsence(Item(a)), FALSE) /\ call[a].item \in call'[a].blind
      BY <3>0, <3>1, <3>2, Zenon
    <3>5. QuietEnd(a)
      BY <1>0, <2>0, <3>0, <3>3, Zenon DEF QuietEnd
    <3>. QED  BY <1>0, <1>1, <3>5, QuietEndKeepsInv DEF View
  <2>2. CASE Fails(a)
    <3>1. QuietEnd(a)
      BY <1>0, <1>1, <2>2, RefusalIsQuiet DEF Fails
    <3>. QED  BY <1>0, <1>1, <3>1, QuietEndKeepsInv DEF View
  <2>3. CASE ConcludeSeeing(a, TRUE, TRUE, Found(Item(a)), TRUE, FALSE)
    <3>1. PICK found \in BOOLEAN : found = Found(Item(a))
      BY <1>f
    <3>2. ConcludeSeeing(a, TRUE, TRUE, found, TRUE, FALSE)
      BY <2>3, <3>1
    <3>3. Concluded(a, TRUE, found)
      BY <1>1, <3>2, ConcludeSeeingEffect DEF Concluded, Inv
    <3>4. QuietEnd(a)
      BY <1>0, <2>0, <3>1, <3>3 DEF QuietEnd
    <3>. QED  BY <1>0, <1>1, <3>4, QuietEndKeepsInv DEF View
  <2>. QED  BY <1>8, <2>1, <2>2, <2>3 DEF QueryFails
<1>5. CASE DryRun(a)
  <2>1. (call[a].op # "remove") \in BOOLEAN
    OBVIOUS
  <2>2. Concluded(a, TRUE, call[a].op # "remove")
    BY <1>1, <1>5, <2>1, ConcludeEffect DEF DryRun, Concluded, Inv
  <2>3. QuietEnd(a)
    BY <1>0, <1>5, <2>1, <2>2 DEF QuietEnd, DryRun
  <2>. QED  BY <1>0, <1>1, <2>3, QuietEndKeepsInv DEF View
<1>6. CASE Start(a)
  <2>. DEFINE pc == FirstStep(Item(a), call[a].op)
  <2>1. /\ call[a].pc = "start" /\ Item(a).kind # "cleanup" /\ call[a].op \in {"apply", "remove"}
        /\ ~IsDryRun(call[a]) /\ Goto(a, pc)
    BY <1>6 DEF Start, At
  <2>2. /\ Item(a).kind \in Registrations => pc \in {"look", "read"}
        /\ Item(a).kind \notin Registrations /\ call[a].op = "remove" => pc \in {"remove", "probe"}
        /\ Item(a).kind \notin Registrations /\ call[a].op = "apply" => pc = "write"
    BY DEF FirstStep
  <2>3. Item(a).kind \in Registrations \cup Placed
    BY <1>1, <2>1, ItemKind DEF Kinds, Placed
  <2>. HIDE DEF pc
  <2>4. pc \in {"write", "probe", "remove", "look", "read"} /\ pc \in Places
    BY <2>1, <2>2 DEF Places
  <2>5. Moves(a, pc) /\ call'[a].read = call[a].read
    BY <1>1, <2>1, <2>4, GotoEffect DEF Inv
  <2>6. PlaceFits(call'[a], Item(a))
    BY <2>1, <2>2, <2>3, <2>4, <2>5 DEF PlaceFits, Moves
  <2>. QED  BY <1>0, <1>1, <2>1, <2>4, <2>5, <2>6, QuietMoveKeepsInv DEF View, QuietMove
<1>7. CASE Probe(a)
  <2>1. call[a].pc = "probe"
    BY <1>7 DEF Probe, At
  <2>2. CASE Fails(a)
    <3>1. QuietEnd(a)
      BY <1>0, <1>1, <2>2, RefusalIsQuiet DEF Fails
    <3>. QED  BY <1>0, <1>1, <3>1, QuietEndKeepsInv DEF View
  <2>3. CASE call' = [call EXCEPT ![a].present = files[Item(a).path] # Absent, ![a].pc = "remove"]
    <3>. DEFINE d == [call[a] EXCEPT !.present = files[Item(a).path] # Absent, !.pc = "remove"]
    <3>1. call' = [call EXCEPT ![a] = d]
      BY <2>3 DEF Inv, Typed
    <3>2. /\ d \in Calls /\ d.op = call[a].op /\ d.options = call[a].options /\ d.item = call[a].item
          /\ d.status = call[a].status /\ d.rows = call[a].rows /\ d.pc = "remove" /\ d.read = call[a].read
          /\ d.blind = call[a].blind
      BY <1>1 DEF Current, Calls, Places
    <3>. HIDE DEF d
    <3>3. call' \in [Apps -> Calls \cup {Idle}] /\ call'[a] = d /\ \A b \in Apps \ {a} : call'[b] = call[b]
      BY <3>1, <3>2 DEF Inv, Typed
    <3>4. Moves(a, "remove") /\ call'[a].read = call[a].read
      BY <3>2, <3>3 DEF Moves
    <3>5. PlaceFits(call'[a], Item(a)) /\ ~IsDryRun(call[a])
      BY <1>1, <2>1, <3>4 DEF PlaceFits, Moves
    <3>. QED  BY <1>0, <1>1, <2>1, <3>4, <3>5, QuietMoveKeepsInv DEF View, QuietMove
  <2>. QED  BY <1>7, <2>2, <2>3 DEF Probe
<1>9. CASE Look(a)
  <2>1. call[a].pc = "look" /\ ~IsDryRun(call[a])
    BY <1>1, <1>9 DEF Look, At
  <2>2. ASSUME Moves(a, "read"), call'[a].read = call[a].read
        PROVE  View(a) /\ (QuietEnd(a) \/ QuietMove(a)) /\ Inv'
    <3>1. PlaceFits(call'[a], Item(a))
      BY <1>1, <2>1, <2>2 DEF PlaceFits, Moves
    <3>. QED  BY <1>0, <1>1, <2>1, <2>2, <3>1, QuietMoveKeepsInv DEF View, QuietMove
  <2>3. CASE Goto(a, "read")
    <3>1. Moves(a, "read") /\ call'[a].read = call[a].read
      BY <1>1, <2>3, GotoEffect DEF Inv, Places
    <3>. QED  BY <2>2, <3>1
  <2>4. CASE Fails(a)
    <3>1. QuietEnd(a)
      BY <1>0, <1>1, <2>4, RefusalIsQuiet DEF Fails
    <3>. QED  BY <1>0, <1>1, <3>1, QuietEndKeepsInv DEF View
  <2>5. CASE call' = [call EXCEPT ![a].pc = "read", ![a].blind = @ \cup {call[a].item}]
    <3>. DEFINE d == [call[a] EXCEPT !.pc = "read", !.blind = @ \cup {call[a].item}]
    <3>1. call' = [call EXCEPT ![a] = d]
      BY <2>5 DEF Inv, Typed
    <3>2. /\ d \in Calls /\ d.op = call[a].op /\ d.options = call[a].options /\ d.item = call[a].item
          /\ d.status = call[a].status /\ d.rows = call[a].rows /\ d.pc = "read" /\ d.read = call[a].read
          /\ call[a].blind \subseteq d.blind
      BY <1>1 DEF Current, Calls, Places
    <3>. HIDE DEF d
    <3>3. call' \in [Apps -> Calls \cup {Idle}] /\ call'[a] = d /\ \A b \in Apps \ {a} : call'[b] = call[b]
      BY <3>1, <3>2 DEF Inv, Typed
    <3>4. Moves(a, "read") /\ call'[a].read = call[a].read
      BY <3>2, <3>3 DEF Moves
    <3>. QED  BY <2>2, <3>4
  <2>. QED  BY <1>9, <2>3, <2>4, <2>5 DEF Look
<1>. QED  BY <1>2, <1>3, <1>4, <1>5, <1>6, <1>7, <1>8, <1>9

LEMMA WriteView ==
  ASSUME Inv, NEW a \in Apps, Write(a) \/ WriteFails(a) \/ WriteLock(a)
  PROVE  View(a) /\ Inv'
<1>0. Working(a) /\ report' = report /\ UNCHANGED <<list, staged, raced>> /\ call[a].pc \in {"write", "lock"}
  BY DEF At, Write, WriteFails, WriteLock, Quiet
<1>1. /\ Current(a) /\ call[a].op \in Ops /\ Item(a) \in Items /\ call[a].present \in BOOLEAN /\ call[a].item \in DOMAIN Bundle[a]
      /\ PlaceFits(call[a], Item(a)) /\ ~IsDryRun(call[a]) /\ call[a].read = {}
  BY <1>0, InHand DEF Current
<1>2. list' \in Lists /\ files \in [Paths -> Contents] /\ Item(a).content \in Contents /\ Torn \in Contents /\ Typed
  BY <1>0, <1>1 DEF Inv, Typed, Contents
<1>3. \A f, p, c : c \in Contents /\ f = [files EXCEPT ![p] = c] => f \in [Paths -> Contents]
  BY <1>2
<1>4. \A ok, present \in BOOLEAN : Conclude(a, ok, TRUE, present) => Concluded(a, ok, present)
  BY <1>1, <1>2, ConcludeEffect DEF Concluded
<1>5. \A ok, present \in BOOLEAN : Concluded(a, ok, present) /\ files' \in [Paths -> Contents] => Inv'
  <2>. SUFFICES ASSUME NEW ok \in BOOLEAN, NEW present \in BOOLEAN, Concluded(a, ok, present), files' \in [Paths -> Contents]
                PROVE  Inv'
    OBVIOUS
  <2>1. PICK s, R : Ends(a, s, R)
    BY DEF Concluded
  <2>. QED  BY <1>0, <1>1, <1>2, <2>1, EndsKeepsInv
<1>6. CASE Write(a)
  <2>1. files' \in [Paths -> Contents]
    BY <1>2, <1>3, <1>6 DEF Write
  <2>2. CASE Item(a).kind = "policy" /\ Item(a).enforced
    <3>1. Moves(a, "lock") /\ call'[a].read = call[a].read
      BY <1>1, <1>2, <1>6, <2>2, GotoEffect DEF Write, Places
    <3>2. PlaceFits(call'[a], Item(a))
      BY <1>1, <1>6, <2>2, <3>1 DEF PlaceFits, Moves, Write, At
    <3>3. Wrote(a)
      BY <1>0, <1>6, <2>2, <3>1 DEF Wrote, Write
    <3>. QED  BY <1>0, <1>1, <1>2, <2>1, <3>1, <3>2, <3>3, MovesKeepsInv DEF View
  <2>3. CASE ~(Item(a).kind = "policy" /\ Item(a).enforced)
    <3>1. Concluded(a, TRUE, TRUE)
      BY <1>4, <1>6, <2>3 DEF Write
    <3>2. Wrote(a)
      BY <1>0, <1>6, <2>3, <3>1 DEF Wrote, Write
    <3>. QED  BY <1>0, <1>1, <1>5, <2>1, <3>1, <3>2 DEF View
  <2>. QED  BY <2>2, <2>3
<1>7. CASE WriteFails(a)
  <2>1. Concluded(a, FALSE, TRUE)
    BY <1>4, <1>7 DEF WriteFails
  <2>2. QuietEnd(a) \/ Tore(a) \/ Wrote(a)
    BY <1>0, <1>7, <2>1 DEF WriteFails, QuietEnd, Tore, Wrote, shared
  <2>3. files' \in [Paths -> Contents]
    BY <1>2, <1>3, <1>7 DEF WriteFails
  <2>. QED  BY <1>0, <1>1, <1>5, <2>1, <2>2, <2>3 DEF View
<1>8. CASE WriteLock(a)
  <2>1. CASE Conclude(a, FALSE, TRUE, TRUE)
    <3>1. Concluded(a, FALSE, TRUE)
      BY <1>4, <2>1
    <3>2. CASE UNCHANGED files
      <4>1. QuietEnd(a)
        BY <1>0, <1>8, <3>1, <3>2 DEF WriteLock, QuietEnd, shared
      <4>. QED  BY <1>0, <1>1, <1>2, <1>5, <3>1, <3>2, <4>1 DEF View
    <3>3. CASE files' = [files EXCEPT ![Item(a).lock] = Item(a).content]
      <4>1. Locked(a)
        BY <1>0, <1>8, <3>1, <3>3 DEF WriteLock, Locked
      <4>. QED  BY <1>0, <1>1, <1>2, <1>3, <1>5, <3>1, <3>3, <4>1 DEF View
    <3>4. UNCHANGED files \/ files' = [files EXCEPT ![Item(a).lock] = Item(a).content]
      BY <1>8 DEF WriteLock
    <3>. QED  BY <3>2, <3>3, <3>4
  <2>2. CASE Conclude(a, TRUE, TRUE, TRUE) /\ files' = [files EXCEPT ![Item(a).lock] = Item(a).content]
    <3>1. Concluded(a, TRUE, TRUE)
      BY <1>4, <2>2
    <3>2. Locked(a)
      BY <1>0, <1>8, <2>2, <3>1 DEF WriteLock, Locked
    <3>. QED  BY <1>0, <1>1, <1>2, <1>3, <1>5, <2>2, <3>1, <3>2 DEF View
  <2>. QED  BY <1>8, <2>1, <2>2 DEF WriteLock
<1>. QED  BY <1>6, <1>7, <1>8

LEMMA RemovalView ==
  ASSUME Inv, NEW a \in Apps, RemoveFile(a) \/ RemoveLock(a) \/ Cleanup(a) \/ CleanupRemove(a)
  PROVE  View(a) /\ Inv'
<1>0. Working(a) /\ report' = report /\ UNCHANGED <<list, staged, raced>>
      /\ call[a].pc \in {"remove", "unlock", "clean", "start"} /\ (call[a].pc = "start" => Cleanup(a))
  BY DEF At, RemoveFile, RemoveLock, Cleanup, CleanupRemove, Quiet
<1>1. /\ Current(a) /\ call[a].op \in Ops /\ Item(a) \in Items /\ call[a].present \in BOOLEAN /\ call[a].item \in DOMAIN Bundle[a]
      /\ call[a].pc # "start" => PlaceFits(call[a], Item(a))
      /\ ~IsDryRun(call[a]) \/ call[a].pc \in {"start", "clean"}
      /\ call[a].read = {}
  BY <1>0, InHand DEF Current
<1>2. list' \in Lists /\ files \in [Paths -> Contents] /\ Absent \in Contents /\ Typed
  BY <1>0, <1>1 DEF Inv, Typed, Contents
<1>3. \A f, p : f = [files EXCEPT ![p] = Absent] => f \in [Paths -> Contents]
  BY <1>2
<1>4. \A ok, present \in BOOLEAN : Conclude(a, ok, TRUE, present) => Concluded(a, ok, present)
  BY <1>1, <1>2, ConcludeEffect DEF Concluded
<1>5. \A s, R : Ends(a, s, R) /\ files' \in [Paths -> Contents] => Inv'
  BY <1>0, <1>1, <1>2, EndsKeepsInv
<1>6. \A ok, present \in BOOLEAN : Concluded(a, ok, present) /\ files' \in [Paths -> Contents] => Inv'
  BY <1>5 DEF Concluded
<1>7. CASE RemoveFile(a)
  <2>1. files' \in [Paths -> Contents]
    BY <1>3, <1>7 DEF RemoveFile
  <2>2. CASE Item(a).kind = "policy"
    <3>1. Moves(a, "unlock") /\ call'[a].read = call[a].read
      BY <1>1, <1>2, <1>7, <2>2, GotoEffect DEF RemoveFile, Places
    <3>2. PlaceFits(call'[a], Item(a)) /\ ~IsDryRun(call[a])
      BY <1>1, <1>7, <2>2, <3>1 DEF PlaceFits, Moves, RemoveFile, At
    <3>3. Removed(a)
      BY <1>0, <1>7, <2>2, <3>1 DEF Removed, RemoveFile
    <3>. QED  BY <1>0, <1>1, <1>2, <2>1, <3>1, <3>2, <3>3, MovesKeepsInv DEF View
  <2>3. CASE Item(a).kind # "policy"
    <3>1. Concluded(a, TRUE, call[a].present)
      BY <1>1, <1>4, <1>7, <2>3 DEF RemoveFile, Succeeds
    <3>2. Removed(a)
      BY <1>0, <1>7, <2>3, <3>1 DEF Removed, RemoveFile
    <3>. QED  BY <1>0, <1>1, <1>6, <2>1, <3>1, <3>2 DEF View
  <2>. QED  BY <2>2, <2>3
<1>8. CASE RemoveLock(a)
  <2>1. CASE Fails(a) /\ UNCHANGED <<files, halfRemoved>>
    <3>1. QuietEnd(a)
      BY <1>0, <1>1, <2>1, RefusalIsQuiet DEF Fails, shared
    <3>. QED  BY <1>0, <1>1, <3>1, QuietEndKeepsInv DEF View
  <2>2. CASE /\ files' = [files EXCEPT ![Item(a).lock] = Absent]
             /\ halfRemoved' = halfRemoved \ {Item(a).path}
             /\ Succeeds(a)
    <3>1. Concluded(a, TRUE, call[a].present)
      BY <1>1, <1>4, <2>2 DEF Succeeds
    <3>2. Unlocked(a)
      BY <1>0, <1>8, <2>2, <3>1 DEF RemoveLock, Unlocked
    <3>3. files' \in [Paths -> Contents]
      BY <1>3, <2>2
    <3>. QED  BY <1>0, <1>1, <1>6, <3>1, <3>2, <3>3 DEF View
  <2>. QED  BY <1>8, <2>1, <2>2 DEF RemoveLock
<1>9. CASE Cleanup(a)
  <2>. DEFINE st == CleanupStatus(call[a], Item(a))
  <2>1. UNCHANGED shared /\ Item(a).kind = "cleanup" /\ call[a].pc = "start"
    BY <1>0, <1>9 DEF Cleanup, At, shared
  <2>5. (IF st = "remove" THEN Goto(a, "clean") ELSE CleanupRow(a, st)) \/ CleanupRow(a, "failed")
    BY <1>9 DEF Cleanup
  <2>2. /\ st \in {"skipped_duplicate", "failed", "already_absent", "planned", "manual_follow_up", "remove"}
        /\ st = "already_absent" => files[Item(a).path] = Absent
        /\ st = "remove" => call[a].op = "remove"
    <3>1. CASE Item(a).path \in call[a].seen
      BY <3>1 DEF CleanupStatus
    <3>2. CASE Item(a).path \notin call[a].seen /\ Withheld(call[a], Item(a))
      BY <3>2 DEF CleanupStatus
    <3>3. CASE Item(a).path \notin call[a].seen /\ ~Withheld(call[a], Item(a))
      <4>1. st = CASE files[Item(a).path] = Absent -> "already_absent"
                   [] files[Item(a).path] # Absent /\ call[a].op # "remove" -> "planned"
                   [] files[Item(a).path] # Absent /\ call[a].op = "remove" -> IF Item(a).directory THEN "manual_follow_up" ELSE "remove"
        BY <3>3 DEF CleanupStatus
      <4>. QED  BY <4>1
    <3>. QED  BY <3>1, <3>2, <3>3
  <2>. HIDE DEF st
  <2>3. CASE st = "remove" /\ Goto(a, "clean")
    <3>1. Moves(a, "clean") /\ call'[a].read = call[a].read
      BY <1>1, <1>2, <2>3, GotoEffect DEF Places
    <3>2. PlaceFits(call'[a], Item(a))
      BY <2>1, <2>2, <2>3, <3>1 DEF PlaceFits, Moves
    <3>. QED  BY <1>0, <1>1, <2>1, <3>1, <3>2, QuietMoveKeepsInv DEF View
  <2>4. ASSUME NEW row \in RowStatuses \ {"removed"}, CleanupRow(a, row), row \in {st, "failed"}
        PROVE  View(a) /\ Inv'
    <3>2. Ends(a, IF row = "failed" THEN "failed" ELSE "done", {<<Item(a).path, row>>})
      BY <1>1, <1>2, <2>1, <2>4, CleanupRowEffect
    <3>3. Skipped(a)
      BY <2>1, <2>2, <2>4, <3>2 DEF Skipped
    <3>4. files' \in [Paths -> Contents]
      BY <1>2, <2>1 DEF shared
    <3>. QED  BY <1>0, <1>1, <1>5, <3>2, <3>3, <3>4 DEF View
  <2>6. "failed" \in RowStatuses \ {"removed"} /\ (st # "remove" => st \in RowStatuses \ {"removed"})
    BY <2>2 DEF RowStatuses
  <2>. QED  BY <2>3, <2>4, <2>5, <2>6
<1>10. CASE CleanupRemove(a)
  <2>0. call[a].pc = "clean" /\ Item(a).kind = "cleanup" /\ halfRemoved' = halfRemoved /\ At(a, "clean")
    BY <1>1, <1>10 DEF CleanupRemove, At, PlaceFits
  <2>1. CASE files' = [files EXCEPT ![Item(a).path] = Absent] /\ CleanupRow(a, "removed")
    <3>1. Ends(a, IF "removed" = "failed" THEN "failed" ELSE "done", {<<Item(a).path, "removed">>})
      BY <1>1, <1>2, <2>0, <2>1, CleanupRowEffect, "removed" \in RowStatuses DEF RowStatuses
    <3>2. Ends(a, "done", {<<Item(a).path, "removed">>})
      BY <3>1
    <3>3. Cleaned(a)
      BY <1>0, <2>0, <2>1, <3>2 DEF Cleaned
    <3>4. files' \in [Paths -> Contents]
      BY <1>3, <2>1
    <3>. QED  BY <1>0, <1>1, <1>5, <3>2, <3>3, <3>4 DEF View
  <2>2. CASE CleanupRow(a, "failed")
    <3>1. Ends(a, IF "failed" = "failed" THEN "failed" ELSE "done", {<<Item(a).path, "failed">>})
      BY <1>1, <1>2, <2>0, <2>2, CleanupRowEffect, "failed" \in RowStatuses DEF RowStatuses
    <3>2. CASE UNCHANGED files
      <4>1. Skipped(a)
        BY <1>0, <2>0, <3>1, <3>2, "failed" \in RowStatuses \ {"removed"} DEF Skipped, shared, RowStatuses
      <4>. QED  BY <1>0, <1>1, <1>2, <1>5, <3>1, <3>2, <4>1 DEF View
    <3>3. CASE files' = [files EXCEPT ![Item(a).path] = Absent]
      <4>1. Ends(a, "failed", {<<Item(a).path, "failed">>})
        BY <3>1
      <4>2. Cleaned(a)
        BY <1>0, <2>0, <3>3, <4>1 DEF Cleaned
      <4>3. files' \in [Paths -> Contents]
        BY <1>3, <3>3
      <4>. QED  BY <1>0, <1>1, <1>5, <4>1, <4>2, <4>3 DEF View
    <3>4. UNCHANGED files \/ files' = [files EXCEPT ![Item(a).path] = Absent]
      BY <1>10 DEF CleanupRemove
    <3>. QED  BY <3>2, <3>3, <3>4
  <2>. QED  BY <1>10, <2>1, <2>2 DEF CleanupRemove
<1>. QED  BY <1>7, <1>8, <1>9, <1>10

\* What an update makes of the list.
LEMMA UpdatedProperties ==
  ASSUME NEW l \in Lists, NEW item \in Items, item.kind \in Registrations, NEW remove \in BOOLEAN
  PROVE  /\ Slot(item) \in DOMAIN Foreign
         /\ Updated(l, item, remove) \in Lists
         /\ \A slot \in DOMAIN Foreign \ {Slot(item)} : Updated(l, item, remove)[slot] = l[slot]
         /\ ToSet(Updated(l, item, remove)[Slot(item)])
              = IF remove THEN ToSet(l[Slot(item)]) \ ToSet(item.ids) ELSE ToSet(l[Slot(item)]) \cup ToSet(item.ids)
         /\ \A F : ToSet(item.ids) \cap F = {} => KeepIn(Updated(l, item, remove)[Slot(item)], F) = KeepIn(l[Slot(item)], F)
<1>. DEFINE slot == Slot(item)
            ids == l[slot]
            mine == ToSet(item.ids)
            add == KeepIn(item.ids, mine \ ToSet(ids))
            kept == KeepIn(ids, ToSet(ids) \ mine)
            new == IF remove THEN kept ELSE ids \o add
            u == Updated(l, item, remove)
<1>1. slot \in DOMAIN Foreign /\ item.ids \in Seq(mine) /\ mine \subseteq Ids
  BY DesktopAssumption DEF Ids
<1>2. u = [l EXCEPT ![slot] = new]
  BY DEF Updated
<1>. HIDE DEF slot, u
<1>3. ids \in Seq(Ids) /\ item.ids \in Seq(Ids)
  <2>1. \A S, T : S \subseteq T => Seq(S) \subseteq Seq(T)
    OBVIOUS
  <2>. QED  BY <1>1, <2>1 DEF Lists
<1>9. ToSet(item.ids) = mine
  OBVIOUS
<1>. HIDE DEF ids, mine
<1>4. kept \in Seq(Ids) /\ ToSet(kept) = ToSet(ids) \ mine
  BY <1>3, KeepInProperties
<1>5. add \in Seq(Ids) /\ ToSet(add) = mine \ ToSet(ids)
  <2>1. /\ KeepIn(item.ids, mine \ ToSet(ids)) \in Seq(Ids)
        /\ ToSet(KeepIn(item.ids, mine \ ToSet(ids))) = ToSet(item.ids) \cap (mine \ ToSet(ids))
    BY <1>3, KeepInProperties
  <2>. QED  BY <1>9, <2>1
<1>7. ASSUME NEW F, mine \cap F = {} PROVE KeepIn(new, F) = KeepIn(ids, F)
  <2>1. KeepIn(kept, F) = KeepIn(ids, F)
    <3>1. ToSet(ids) \cap F \subseteq ToSet(ids) \ mine
      BY <1>7
    <3>. QED  BY <1>3, <3>1, KeepInProperties
  <2>. HIDE DEF kept, add
  <2>2. KeepIn(ids \o add, F) = KeepIn(ids, F)
    <3>1. ToSet(add) \cap F = {}
      BY <1>5, <1>7
    <3>. QED  BY <1>3, <1>5, <3>1, KeepInBehind
  <2>. QED  BY <2>1, <2>2
<1>. HIDE DEF kept, add
<1>10. ids \o add \in Seq(Ids) /\ ToSet(ids \o add) = ToSet(ids) \cup ToSet(add)
  BY <1>3, <1>5, KeepInBehind
<1>6. new \in Seq(Ids) /\ ToSet(new) = IF remove THEN ToSet(ids) \ mine ELSE ToSet(ids) \cup mine
  BY <1>4, <1>5, <1>10
<1>. HIDE DEF new
<1>8. u \in Lists /\ u[slot] = new /\ \A t \in DOMAIN Foreign \ {slot} : u[t] = l[t]
  BY <1>1, <1>2, <1>6 DEF Lists
<1>. QED  BY <1>1, <1>6, <1>7, <1>8 DEF slot, ids, u, mine

LEMMA ListView ==
  ASSUME Inv, NEW a \in Apps, ReadList(a) \/ UpdateList(a) \/ UpdateListFails(a)
  PROVE  View(a) /\ Inv'
<1>0. Working(a) /\ report' = report /\ UNCHANGED <<files, halfRemoved>> /\ call[a].pc \in {"read", "update"}
  BY DEF At, ReadList, UpdateList, UpdateListFails
<1>1. /\ Current(a) /\ call[a].op \in Ops /\ Item(a) \in Items /\ call[a].present \in BOOLEAN /\ call[a].item \in DOMAIN Bundle[a]
      /\ PlaceFits(call[a], Item(a)) /\ ~IsDryRun(call[a])
      /\ IF call[a].pc = "update" THEN \E l \in Lists : call[a].read = {l} ELSE call[a].read = {}
  BY <1>0, InHand DEF Current
<1>2. files' \in [Paths -> Contents] /\ list \in Lists /\ Typed
  BY <1>0 DEF Inv, Typed
<1>3. CASE ReadList(a) /\ Fails(a)
  <2>. DEFINE known == call[a].present
  <2>1. Concluded(a, FALSE, call[a].present)
    BY <1>1, <1>2, <1>3, ConcludeEffect DEF Concluded, Fails
  <2>2. PICK s, R : Ends(a, s, R)
    BY <2>1 DEF Concluded
  <2>3. list' = list /\ staged' = staged /\ raced' = (raced \/ \E b \in Apps \ {a} : At(b, "update"))
    BY <1>3 DEF ReadList
  <2>4. ReadFailed(a)
    BY <1>0, <1>3, <2>1, <2>3 DEF ReadFailed, ReadList
  <2>. QED  BY <1>0, <1>1, <1>2, <2>2, <2>3, <2>4, EndsKeepsInv DEF View
<1>4. CASE ReadList(a) /\ call' = [call EXCEPT ![a].read = {list}, ![a].pc = "update"]
  <2>. DEFINE d == [call[a] EXCEPT !.read = {list}, !.pc = "update"]
  <2>1. call' = [call EXCEPT ![a] = d]
    BY <1>2, <1>4 DEF Typed
  <2>2. /\ d \in Calls /\ d.op = call[a].op /\ d.options = call[a].options /\ d.item = call[a].item
        /\ d.status = call[a].status /\ d.rows = call[a].rows /\ d.pc = "update" /\ d.read = {list}
        /\ d.blind = call[a].blind
    BY <1>1, <1>2 DEF Current, Calls, Places
  <2>. HIDE DEF d
  <2>3. call' \in [Apps -> Calls \cup {Idle}] /\ call'[a] = d /\ \A b \in Apps \ {a} : call'[b] = call[b]
    BY <1>2, <2>1, <2>2 DEF Typed
  <2>4. Moves(a, "update") /\ call'[a].read = {list}
    BY <2>2, <2>3 DEF Moves
  <2>5. ReadIt(a) /\ list' = list
    BY <1>0, <1>4, <2>4 DEF ReadIt, ReadList
  <2>6. PlaceFits(call'[a], Item(a))
    BY <1>1, <1>4, <2>4 DEF PlaceFits, Moves, ReadList, At
  <2>. QED  BY <1>0, <1>1, <1>2, <2>4, <2>5, <2>6, MovesKeepsInv DEF View
<1>6. ASSUME NEW ok \in BOOLEAN, Concluded(a, ok, call[a].present), list' \in Lists PROVE Inv'
  <2>1. PICK s, R : Ends(a, s, R)
    BY <1>6 DEF Concluded
  <2>. QED  BY <1>0, <1>1, <1>2, <1>6, <2>1, EndsKeepsInv
<1>5. CASE UpdateList(a) \/ UpdateListFails(a)
  <2>1. At(a, "update") /\ call[a].pc = "update" /\ raced' = raced
    BY <1>5 DEF UpdateList, UpdateListFails, At
  <2>2. PICK l \in Lists : call[a].read = {l}
    BY <1>1, <2>1
  <2>3. PICK r \in BOOLEAN : r = Removing(Item(a), call[a].op)
    BY DEF Removing
  <2>4. Rewritten(a) = Updated(l, Item(a), r)
    BY <2>2, <2>3 DEF Rewritten
  <2>5. Item(a).kind \in Registrations
    BY <1>1, <2>1 DEF PlaceFits
  <2>6. Rewritten(a) \in Lists
    <3>1. Updated(l, Item(a), r) \in Lists
      BY <1>1, <2>5, UpdatedProperties
    <3>. QED  BY <2>4, <3>1
  <2>7. PICK ok \in BOOLEAN : Concluded(a, ok, call[a].present) /\ (UpdateListFails(a) => ok = FALSE)
    <3>1. PICK ok \in BOOLEAN : ok = (IF UpdateListFails(a) THEN FALSE ELSE call[a].item \notin call[a].blind)
      OBVIOUS
    <3>2. Conclude(a, ok, TRUE, call[a].present)
      BY <1>5, <3>1 DEF UpdateList, UpdateListFails, Fails
    <3>3. Concluded(a, ok, call[a].present)
      BY <1>1, <1>2, <3>2, ConcludeEffect DEF Concluded
    <3>. QED  BY <3>1, <3>3
  <2>8. /\ staged' \subseteq staged \cup {Mine(a)} /\ (r => Mine(a) \notin staged')
        /\ UpdateListFails(a) => staged' \subseteq staged
    BY <1>5, <2>3 DEF UpdateList, UpdateListFails
  <2>9. CASE list' = Rewritten(a)
    <3>1. UpdatedIt(a)
      BY <1>0, <2>1, <2>2, <2>3, <2>4, <2>7, <2>8, <2>9 DEF UpdatedIt
    <3>. QED  BY <1>0, <1>1, <1>6, <2>6, <2>7, <2>9, <3>1 DEF View
  <2>10. CASE UpdateListFails(a) /\ list' = list
    <3>1. UpdateFailed(a)
      BY <1>0, <2>1, <2>7, <2>8, <2>10 DEF UpdateFailed
    <3>. QED  BY <1>0, <1>1, <1>2, <1>6, <2>7, <2>10, <3>1 DEF View
  <2>. QED  BY <1>5, <2>9, <2>10 DEF UpdateList, UpdateListFails
<1>. QED  BY <1>3, <1>4, <1>5 DEF ReadList

\* A call begins, returns, or its process dies.
Begins(a) ==
  /\ call[a].op = "none" /\ call'[a] \in Calls /\ call'[a].pc = "start" /\ call'[a].item = 1
  /\ call'[a].status = <<>> /\ call'[a].rows = {} /\ call'[a].read = {}
  /\ report'[a] = NoReport /\ UNCHANGED shared
  /\ \A b \in Apps \ {a} : call'[b] = call[b] /\ report'[b] = report[b]
Returns(a) ==
  /\ call[a] \in Calls /\ call[a].item > Len(Bundle[a]) /\ call'[a] = Idle /\ UNCHANGED shared
  /\ report'[a] = [op |-> call[a].op, dryRun |-> call[a].options.dryRun, status |-> call[a].status,
                   rows |-> call[a].rows, blind |-> call[a].blind]
  /\ \A b \in Apps \ {a} : call'[b] = call[b] /\ report'[b] = report[b]
Died(a) ==
  /\ call[a].op # "none" /\ call'[a] = Idle /\ UNCHANGED <<list, staged, raced, halfRemoved, report>>
  /\ \A b \in Apps \ {a} : call'[b] = call[b]
  /\ \/ files' = files
     \/ /\ Current(a) /\ At(a, "write") /\ Item(a).kind = "icon"
        /\ files' = [files EXCEPT ![Item(a).path] = Torn]

LEMMA EdgeView ==
  ASSUME Inv, NEW a \in Apps, Begin(a) \/ Return(a) \/ Dies(a)
  PROVE  (Begins(a) \/ Returns(a) \/ Died(a)) /\ Inv'
<1>0. Typed /\ CallsFit
  BY DEF Inv
<1>1. CASE Begin(a)
  <2>1. PICK op \in Ops, opt \in Options :
          call' = [call EXCEPT ![a] =
            [op |-> op, options |-> [opt EXCEPT !.dryRun = @ \/ op = "plan"], item |-> 1, pc |-> "start",
             present |-> FALSE, read |-> {}, blind |-> {}, seen |-> {}, status |-> <<>>, rows |-> {}]]
    BY <1>1 DEF Begin
  <2>. DEFINE o == [opt EXCEPT !.dryRun = @ \/ op = "plan"]
              d == [op |-> op, options |-> o, item |-> 1, pc |-> "start",
                    present |-> FALSE, read |-> {}, blind |-> {}, seen |-> {}, status |-> <<>>, rows |-> {}]
  <2>2. o \in OptionSet
    <3>1. opt \in OptionSet
      BY DesktopAssumption DEF OptionSet
    <3>2. (opt.dryRun \/ op = "plan") \in BOOLEAN
      OBVIOUS
    <3>. QED  BY <3>1, <3>2 DEF OptionSet
  <2>. HIDE DEF o
  <2>3. /\ d \in Calls /\ d.op = op /\ d.pc = "start" /\ d.item = 1 /\ d.status = <<>> /\ d.rows = {} /\ d.read = {}
    BY <2>2 DEF Calls, Places, Rows
  <2>4. call' = [call EXCEPT ![a] = d]
    BY <2>1 DEF o
  <2>. HIDE DEF d
  <2>5. call' \in [Apps -> Calls \cup {Idle}] /\ call'[a] = d /\ \A b \in Apps \ {a} : call'[b] = call[b]
    BY <1>0, <2>3, <2>4 DEF Typed
  <2>6. report' \in [Apps -> Reports \cup {NoReport}] /\ report'[a] = NoReport /\ \A b \in Apps \ {a} : report'[b] = report[b]
    BY <1>0, <1>1 DEF Begin, Typed
  <2>7. Begins(a)
    BY <1>1, <2>3, <2>5, <2>6 DEF Begins, Begin, shared
  <2>8. Typed'
    BY <1>0, <2>5, <2>6, <2>7 DEF Typed, Begins, shared
  <2>9. ASSUME NEW b \in Apps, call'[b].op # "none"
        PROVE  /\ call'[b].item <= Len(Bundle[b]) + 1
               /\ Len(call'[b].status) = call'[b].item - 1
               /\ report'[b].op = "none"
               /\ call'[b].pc # "start" => /\ call'[b].item <= Len(Bundle[b]) /\ PlaceFits(call'[b], Bundle[b][call'[b].item])
                                           /\ ~IsDryRun(call'[b]) \/ call'[b].pc = "clean"
               /\ call'[b].pc # "update" => call'[b].read = {}
               /\ call'[b].pc = "update" => \E l \in Lists : call'[b].read = {l}
    <3>1. CASE b = a
      <4>1. Len(Bundle[a]) \in Nat /\ Len(<<>>) = 0
        BY DesktopAssumption
      <4>. QED  BY <3>1, <4>1, <2>3, <2>5, <2>6 DEF NoReport
    <3>2. CASE b # a
      BY <1>0, <2>5, <2>6, <2>9, <3>2 DEF CallsFit, Item
    <3>. QED  BY <3>1, <3>2
  <2>10. CallsFit'
    BY <2>9 DEF CallsFit, Item
  <2>. QED  BY <2>7, <2>8, <2>10 DEF Inv
<1>2. CASE Return(a)
  <2>1. call[a] \in Calls
    BY <1>0, <1>2 DEF Return, Typed, Idle
  <2>. DEFINE d == [op |-> call[a].op, dryRun |-> call[a].options.dryRun, status |-> call[a].status,
                    rows |-> call[a].rows, blind |-> call[a].blind]
  <2>2. d \in Reports
    BY <2>1 DEF Reports, Calls, OptionSet
  <2>3. call' = [call EXCEPT ![a] = Idle] /\ report' = [report EXCEPT ![a] = d]
    BY <1>2 DEF Return
  <2>. HIDE DEF d
  <2>4. /\ call' \in [Apps -> Calls \cup {Idle}] /\ call'[a] = Idle /\ \A b \in Apps \ {a} : call'[b] = call[b]
        /\ report' \in [Apps -> Reports \cup {NoReport}] /\ report'[a] = d /\ \A b \in Apps \ {a} : report'[b] = report[b]
    BY <1>0, <2>2, <2>3 DEF Typed
  <2>5. Returns(a)
    BY <1>2, <2>1, <2>4 DEF Returns, Return, shared, d
  <2>6. Typed'
    BY <1>0, <2>4, <2>5 DEF Typed, Returns, shared
  <2>7. CallsFit'
    BY <1>0, <2>4 DEF CallsFit, Item, Idle
  <2>. QED  BY <2>5, <2>6, <2>7 DEF Inv
<1>3. CASE Dies(a)
  <2>1. At(a, "write") => Current(a)
    BY <1>0, WorkingIsCurrent DEF At
  <2>2. call' \in [Apps -> Calls \cup {Idle}] /\ call'[a] = Idle /\ \A b \in Apps \ {a} : call'[b] = call[b]
    BY <1>0, <1>3 DEF Dies, Typed
  <2>3. Died(a)
    BY <1>3, <2>1, <2>2 DEF Died, Dies, Quiet
  <2>4. files' \in [Paths -> Contents]
    <3>1. files \in [Paths -> Contents] /\ Torn \in Contents
      BY <1>0 DEF Typed, Contents
    <3>. QED  BY <2>3, <3>1 DEF Died
  <2>5. Typed'
    BY <1>0, <2>2, <2>3, <2>4 DEF Typed, Died
  <2>6. CallsFit'
    BY <1>0, <2>2, <2>3 DEF CallsFit, Item, Idle, Died
  <2>. QED  BY <2>3, <2>5, <2>6 DEF Inv
<1>. QED  BY <1>1, <1>2, <1>3

LEMMA StepView ==
  ASSUME Inv, Next
  PROVE  Inv' /\ \E a \in Apps : View(a) \/ Begins(a) \/ Returns(a) \/ Died(a)
BY QuietView, WriteView, RemovalView, ListView, EdgeView DEF Next

LEMMA InvInit == Init => Inv
<1>. SUFFICES ASSUME Init PROVE Inv
  OBVIOUS
<1>1. files \in [Paths -> Contents]
  BY DEF Init, Contents
<1>2. list \in Lists
  <2>1. UNION {ToSet(Foreign[slot]) : slot \in DOMAIN Foreign} \subseteq Ids
    BY DEF Ids
  <2>2. \A S, T : S \subseteq T => Seq(S) \subseteq Seq(T)
    OBVIOUS
  <2>. QED  BY <2>1, <2>2, DesktopAssumption DEF Init, Lists
<1>3. call \in [Apps -> Calls \cup {Idle}] /\ report \in [Apps -> Reports \cup {NoReport}] /\ CallsFit
  BY DEF Init, CallsFit, Idle, NoReport
<1>. QED  BY <1>1, <1>2, <1>3 DEF Inv, Typed
-----------------------------------------------------------------------------
(* mimeapps.list *)

\* Only a finished read puts a call where it updates the list.
LEMMA UpdateAfterRead ==
  ASSUME NEW a \in Apps, View(a)
  PROVE  /\ call'[a].pc # "update" \/ ReadIt(a)
         /\ \A b \in Apps \ {a} : call'[b] = call[b]
         /\ call'[a].op = call[a].op /\ call'[a].options = call[a].options /\ call[a].op # "none"
<1>1. call[a].op # "none"
  BY DEF View, Ops
<1>2. CASE \E pc \in {"write", "probe", "remove", "look", "read", "clean", "lock", "unlock"} : Moves(a, pc)
  BY <1>1, <1>2 DEF Moves
<1>3. CASE \E s, R : Ends(a, s, R)
  BY <1>1, <1>3 DEF Ends
<1>4. CASE ReadIt(a)
  BY <1>1, <1>4 DEF ReadIt, Moves
<1>. QED  BY <1>2, <1>3, <1>4 DEF View, QuietEnd, QuietMove, Skipped, Wrote, Tore, Locked, Removed, Unlocked,
                                 Cleaned, ReadFailed, UpdatedIt, UpdateFailed, Concluded

LEMMA ListUntouched ==
  ASSUME NEW a \in Apps, View(a), ~UpdatedIt(a)
  PROVE  /\ list' = list /\ staged' \subseteq staged
         /\ raced' = raced \/ (raced' = (raced \/ \E b \in Apps \ {a} : At(b, "update")))
BY DEF View, QuietEnd, QuietMove, Skipped, Wrote, Tore, Locked, Removed, Unlocked, Cleaned, ReadIt, ReadFailed,
       UpdateFailed, shared

\* The update in hand.
LEMMA UpdateInHand ==
  ASSUME Inv, NEW a \in Apps, View(a), UpdatedIt(a)
  PROVE  /\ Item(a).kind \in Registrations /\ At(a, "update") /\ call[a].item \in DOMAIN Bundle[a] /\ Item(a) \in Items
         /\ \E l \in Lists : call[a].read = {l} /\ list' = Updated(l, Item(a), Removing(Item(a), call[a].op))
<1>1. At(a, "update") /\ call[a].pc = "update" /\ Working(a)
  BY DEF UpdatedIt, At
<1>2. PlaceFits(call[a], Item(a)) /\ call[a].item \in DOMAIN Bundle[a] /\ Item(a) \in Items
      /\ \E l \in Lists : call[a].read = {l}
  BY <1>1, InHand DEF Current
<1>. QED  BY <1>1, <1>2 DEF PlaceFits, UpdatedIt

LEMMA ForeignStep ==
  ASSUME ForeignIsForeign, Inv, ReadsKeepForeign, [Next]_vars
  PROVE  ReadsKeepForeign'
<1>1. ASSUME NEW a \in Apps, View(a), Inv' PROVE ReadsKeepForeign'
  <2>1. KeepsForeign(list')
    <3>1. CASE ~UpdatedIt(a)
      BY <1>1, <3>1, ListUntouched DEF ReadsKeepForeign
    <3>2. CASE UpdatedIt(a)
      <4>. DEFINE item == Item(a)
      <4>1. PICK l \in Lists : call[a].read = {l} /\ list' = Updated(l, item, Removing(item, call[a].op))
        BY <1>1, <3>2, UpdateInHand
      <4>2. item.kind \in Registrations /\ item \in Items
        BY <1>1, <3>2, UpdateInHand
      <4>3. KeepsForeign(l)
        <5>1. call[a].op # "none"
          BY <1>1, UpdateAfterRead
        <5>. QED  BY <4>1, <5>1 DEF ReadsKeepForeign
      <4>4. ToSet(item.ids) \cap ToSet(Foreign[Slot(item)]) = {}
        BY <4>2 DEF ForeignIsForeign
      <4>5. PICK r \in BOOLEAN : r = Removing(item, call[a].op)
        BY DEF Removing
      <4>7. list' = Updated(l, item, r)
        BY <4>1, <4>5
      <4>. HIDE DEF item
      <4>6. /\ \A slot \in DOMAIN Foreign \ {Slot(item)} : list'[slot] = l[slot]
            /\ \A F : ToSet(item.ids) \cap F = {} => KeepIn(list'[Slot(item)], F) = KeepIn(l[Slot(item)], F)
        <5>1. /\ \A slot \in DOMAIN Foreign \ {Slot(item)} : Updated(l, item, r)[slot] = l[slot]
              /\ \A F : ToSet(item.ids) \cap F = {} => KeepIn(Updated(l, item, r)[Slot(item)], F) = KeepIn(l[Slot(item)], F)
          BY <4>2, UpdatedProperties
        <5>. QED  BY <4>7, <5>1, Zenon
      <4>. QED  BY <4>3, <4>4, <4>6 DEF KeepsForeign
    <3>. QED  BY <3>1, <3>2
  <2>2. ASSUME NEW b \in Apps, call'[b].op # "none", NEW l \in call'[b].read PROVE KeepsForeign(l)
    <3>1. CASE b # a
      BY <1>1, <2>2, <3>1, UpdateAfterRead DEF ReadsKeepForeign
    <3>2. CASE b = a
      <4>1. call'[a].pc = "update"
        BY <1>1, <2>2, <3>2 DEF Inv, CallsFit
      <4>2. ReadIt(a)
        BY <1>1, <4>1, UpdateAfterRead
      <4>. QED  BY <2>2, <3>2, <4>2 DEF ReadIt, ReadsKeepForeign
    <3>. QED  BY <3>1, <3>2
  <2>. QED  BY <2>1, <2>2 DEF ReadsKeepForeign, KeepsForeign
<1>2. ASSUME NEW a \in Apps, Begins(a) \/ Returns(a) \/ Died(a) PROVE ReadsKeepForeign'
  <2>1. list' = list /\ \A b \in Apps : call'[b] = call[b] \/ call'[b].op = "none" \/ call'[b].read = {}
    BY <1>2 DEF Begins, Returns, Died, shared, Idle
  <2>. QED  BY <2>1 DEF ReadsKeepForeign, KeepsForeign
<1>3. CASE UNCHANGED vars
  BY <1>3 DEF vars, ReadsKeepForeign, KeepsForeign
<1>. QED  BY <1>1, <1>2, <1>3, StepView

LEMMA InvStep == Inv /\ [Next]_vars => Inv'
<1>1. ASSUME Inv, UNCHANGED vars PROVE Inv'
  BY <1>1 DEF vars, Inv, Typed, CallsFit, Item
<1>. QED  BY <1>1, StepView

\* What other programs registered stays, in its order, through every update,
\* removal, failure and crash (desktop.cpp update_mimeapps_key), if their ids
\* are not the applications' own.
THEOREM ForeignRegistrationsStay ==
  ASSUME ForeignIsForeign
  PROVE  Spec => []ForeignKept
<1>1. Init => ReadsKeepForeign
  <2>. SUFFICES ASSUME Init PROVE ReadsKeepForeign
    OBVIOUS
  <2>1. KeepsForeign(list)
    <3>. SUFFICES ASSUME NEW slot \in DOMAIN Foreign PROVE KeepIn(Foreign[slot], ToSet(Foreign[slot])) = Foreign[slot]
      BY DEF Init, KeepsForeign
    <3>1. Foreign[slot] \in Seq(UNION {ToSet(Foreign[t]) : t \in DOMAIN Foreign})
      BY DesktopAssumption
    <3>. QED  BY <3>1, KeepInProperties
  <2>. QED  BY <2>1 DEF Init, ReadsKeepForeign, Idle
<1>2. ReadsKeepForeign => ForeignKept
  BY DEF ReadsKeepForeign, KeepsForeign, ForeignKept
<1>. QED  BY InvInit, InvStep, ForeignStep, <1>1, <1>2, PTL DEF Spec
-----------------------------------------------------------------------------
(* Registrations that stay *)

LEMMA OneUpdateStep ==
  ASSUME RegistrationsDiffer, Inv, OneUpdate, [Next]_vars
  PROVE  OneUpdate'
<1>1. ASSUME NEW a \in Apps, View(a), Inv' PROVE OneUpdate'
  <2>1. \A b \in Apps \ {a} : At(b, "update")' <=> At(b, "update")
    BY <1>1, UpdateAfterRead DEF At, Working
  <2>2. At(a, "update")' => ReadIt(a)
    BY <1>1, UpdateAfterRead DEF At
  <2>3. CASE ~UpdatedIt(a)
    <3>1. /\ list' = list /\ staged' \subseteq staged
          /\ raced' = raced \/ (raced' = (raced \/ \E b \in Apps \ {a} : At(b, "update")))
      BY <1>1, <2>3, ListUntouched
    <3>2. ASSUME ~raced'
          PROVE  /\ ~raced
                 /\ \A b, c \in Apps : At(b, "update")' /\ At(c, "update")' => b = c
                 /\ \A b \in Apps : At(b, "update")' => call'[b].read = {list'}
      <4>1. ~raced
        BY <3>1, <3>2
      <4>2. CASE ReadIt(a)
        <5>1. \A b \in Apps \ {a} : ~At(b, "update")
          BY <3>2, <4>2 DEF ReadIt
        <5>. QED  BY <2>1, <3>1, <4>1, <4>2, <5>1 DEF ReadIt
      <4>3. CASE ~ReadIt(a)
        <5>1. \A b \in Apps : At(b, "update")' => b # a /\ At(b, "update")
          BY <2>1, <2>2, <4>3
        <5>2. \A b \in Apps \ {a} : call'[b] = call[b]
          BY <1>1, UpdateAfterRead
        <5>. QED  BY <3>1, <4>1, <5>1, <5>2 DEF OneUpdate
      <4>. QED  BY <4>2, <4>3
    <3>3. staged' \subseteq {s \in Indices : ItemOf(s).kind \in Registrations}
      BY <3>1 DEF OneUpdate
    <3>4. ~raced' => StagedListed(list)'
      BY <3>1, <3>2 DEF OneUpdate, StagedListed
    <3>. QED  BY <3>2, <3>3, <3>4 DEF OneUpdate
  <2>4. CASE UpdatedIt(a)
    <3>. DEFINE item == Item(a)
                me == <<a, call[a].item>>
    <3>1. PICK l \in Lists : call[a].read = {l} /\ list' = Updated(l, item, Removing(item, call[a].op))
      BY <1>1, <2>4, UpdateInHand
    <3>2. item.kind \in Registrations /\ item \in Items /\ At(a, "update") /\ call[a].item \in DOMAIN Bundle[a]
      BY <1>1, <2>4, UpdateInHand
    <3>3. me \in Indices /\ ItemOf(me) = item
      <4>1. call[a].item \in Nat
        BY <1>1 DEF View, Current, Calls
      <4>. QED  BY <3>2, <4>1 DEF Indices, ItemOf, Item
    <3>4. /\ raced' = raced /\ staged' \subseteq staged \cup {me}
          /\ Removing(item, call[a].op) => me \notin staged'
      BY <2>4 DEF UpdatedIt, Mine
    <3>. HIDE DEF item, me
    <3>5. staged' \subseteq {s \in Indices : ItemOf(s).kind \in Registrations}
      BY <3>2, <3>3, <3>4 DEF OneUpdate
    <3>6. ASSUME ~raced PROVE \A b \in Apps : ~At(b, "update")'
      <4>1. ~ReadIt(a)
        BY <3>2 DEF ReadIt, At
      <4>. QED  BY <2>1, <2>2, <3>2, <3>6, <4>1 DEF OneUpdate
    <3>7. ASSUME ~raced, NEW s \in staged' PROVE ToSet(ItemOf(s).ids) \subseteq ToSet(list'[Slot(ItemOf(s))])
      <4>1. l = list
        BY <3>1, <3>2, <3>7 DEF OneUpdate
      <4>2. PICK r \in BOOLEAN : r = Removing(item, call[a].op)
        BY DEF Removing
      <4>7. list' = Updated(list, item, r) /\ (r <=> Removing(item, call[a].op))
        BY <3>1, <4>1, <4>2
      <4>8. /\ Slot(item) \in DOMAIN Foreign
            /\ \A slot \in DOMAIN Foreign \ {Slot(item)} : list'[slot] = list[slot]
            /\ ToSet(list'[Slot(item)])
                 = IF r THEN ToSet(list[Slot(item)]) \ ToSet(item.ids) ELSE ToSet(list[Slot(item)]) \cup ToSet(item.ids)
        <5>1. /\ Slot(item) \in DOMAIN Foreign
              /\ \A slot \in DOMAIN Foreign \ {Slot(item)} : Updated(l, item, r)[slot] = l[slot]
              /\ ToSet(Updated(l, item, r)[Slot(item)])
                   = IF r THEN ToSet(l[Slot(item)]) \ ToSet(item.ids) ELSE ToSet(l[Slot(item)]) \cup ToSet(item.ids)
          BY <3>2, UpdatedProperties
        <5>2. list' = Updated(l, item, r)
          BY <4>1, <4>7
        <5>. QED  BY <4>1, <5>1, <5>2, Zenon
      <4>4. s \in Indices /\ ItemOf(s).kind \in Registrations /\ Slot(ItemOf(s)) \in DOMAIN Foreign
        <5>1. s \in Indices /\ ItemOf(s).kind \in Registrations
          BY <3>5, <3>7
        <5>2. ItemOf(s) \in Items
          BY <5>1, ItemType DEF Indices, ItemOf
        <5>. QED  BY <5>1, <5>2, DesktopAssumption
      <4>5. CASE s = me
        <5>1. ~r
          BY <3>4, <3>7, <4>5, <4>7
        <5>. QED  BY <3>3, <4>8, <4>5, <5>1
      <4>6. CASE s # me
        <5>1. s \in staged
          BY <3>4, <3>7, <4>6
        <5>2. ToSet(ItemOf(s).ids) \subseteq ToSet(list[Slot(ItemOf(s))])
          BY <3>7, <5>1 DEF OneUpdate, StagedListed
        <5>3. Slot(ItemOf(s)) = Slot(item) => ToSet(ItemOf(s).ids) \cap ToSet(item.ids) = {}
          BY <3>2, <3>3, <4>4, <4>6 DEF RegistrationsDiffer
        <5>. QED  BY <4>4, <4>8, <5>2, <5>3
      <4>. QED  BY <4>5, <4>6
    <3>. QED  BY <3>4, <3>5, <3>6, <3>7 DEF OneUpdate, StagedListed
  <2>. QED  BY <2>3, <2>4
<1>2. ASSUME NEW a \in Apps, Begins(a) \/ Returns(a) \/ Died(a) PROVE OneUpdate'
  <2>1. UNCHANGED <<list, staged, raced>> /\ \A b \in Apps : call'[b] = call[b] \/ call'[b].op = "none" \/ call'[b].pc = "start"
    BY <1>2 DEF Begins, Returns, Died, shared, Idle
  <2>2. \A b \in Apps : At(b, "update")' => At(b, "update") /\ call'[b] = call[b]
    BY <2>1 DEF At, Working
  <2>. QED  BY <2>1, <2>2 DEF OneUpdate, StagedListed
<1>3. CASE UNCHANGED vars
  BY <1>3 DEF vars, OneUpdate, StagedListed, At, Working
<1>. QED  BY <1>1, <1>2, <1>3, StepView
-----------------------------------------------------------------------------
(* Locks and the values they lock *)

LEMMA PathIsFile ==
  ASSUME NEW i \in Items, i.kind \notin Registrations
  PROVE  /\ "mimeapps.list" \notin PathsOf(i) /\ PathsOf(i) \subseteq Paths /\ i.path \in PathsOf(i)
         /\ i.kind = "policy" => PathsOf(i) = {i.path, i.lock}
<1>1. "mimeapps.list" \notin PathsOf(i)
  BY DesktopAssumption
<1>2. PathsOf(i) = IF i.kind = "policy" THEN {i.path, i.lock} ELSE {i.path}
  BY DEF PathsOf, Registrations
<1>3. PathsOf(i) \in {PathsOf(j) : j \in Items}
  OBVIOUS
<1>4. PathsOf(i) \subseteq Paths
  <2>. SUFFICES ASSUME NEW p \in PathsOf(i) PROVE p \in Paths
    OBVIOUS
  <2>1. p \in UNION {PathsOf(j) : j \in Items}
    BY <1>3, Zenon
  <2>. QED  BY <1>1, <2>1 DEF Paths
<1>. QED  BY <1>1, <1>2, <1>4

LEMMA PlacedKinds ==
  /\ Placed \cap Registrations = {} /\ "policy" \in Placed /\ "icon" \in Placed
  /\ "cleanup" \notin Placed /\ "cleanup" \notin Registrations
BY DEF Placed, OwnedKinds, Registrations

LEMMA ItemIsIndexed ==
  ASSUME NEW a \in Apps, Current(a)
  PROVE  <<a, call[a].item>> \in Indices /\ ItemOf(<<a, call[a].item>>) = Item(a) /\ Item(a) \in Items
BY ItemType DEF Current, Calls, Indices, ItemOf, Item

\* The item in hand has no file of a policy that is another item.
LEMMA PolicyApart ==
  ASSUME FilesDiffer, PoliciesAreOwn, NEW a \in Apps, Current(a), Item(a).kind \in Placed \cup {"cleanup"},
         NEW i \in Items, i.kind = "policy"
  PROVE  i = Item(a) \/ (i.path \notin PathsOf(Item(a)) /\ i.lock \notin PathsOf(Item(a)))
<1>0. PICK b \in Apps : i \in ToSet(Bundle[b])
  BY DEF Items
<1>1. PICK k \in DOMAIN Bundle[b] : i = Bundle[b][k]
  BY <1>0 DEF ToSet
<1>. DEFINE s == <<b, k>>
            t == <<a, call[a].item>>
<1>2. s \in Indices /\ ItemOf(s) = i
  <2>1. k \in Nat
    BY DesktopAssumption
  <2>. QED  BY <1>1, <2>1 DEF Indices, ItemOf
<1>3. t \in Indices /\ ItemOf(t) = Item(a) /\ Item(a) \in Items
  BY ItemIsIndexed
<1>4. PathsOf(i) = {i.path, i.lock} /\ "mimeapps.list" \notin PathsOf(i)
  BY PathIsFile, PlacedKinds
<1>. HIDE DEF s, t
<1>5. CASE s = t
  BY <1>2, <1>3, <1>5
<1>6. CASE s # t /\ Item(a).kind \in Placed
  BY <1>2, <1>3, <1>4, <1>6, PlacedKinds DEF FilesDiffer
<1>7. CASE Item(a).kind = "cleanup"
  <2>1. PathsOf(Item(a)) = {Item(a).path}
    BY <1>7 DEF PathsOf, Registrations
  <2>. QED  BY <1>3, <1>4, <1>7, <2>1 DEF PoliciesAreOwn
<1>. QED  BY <1>5, <1>6, <1>7

\* Nor has it one of an item in another application's hand.
LEMMA AppsApart ==
  ASSUME FilesDiffer, NEW a \in Apps, NEW b \in Apps, a # b, Current(a), Current(b)
  PROVE  PathsOf(Item(a)) \cap PathsOf(Item(b)) \subseteq {"mimeapps.list"}
BY ItemIsIndexed DEF FilesDiffer

\* What a step does to the files.
LEMMA FilesStep ==
  ASSUME Inv, NEW a \in Apps, View(a)
  PROVE  \/ files' = files
         \/ /\ Item(a).kind \in Placed \cup {"cleanup"}
            /\ Item(a).kind \in Placed \/ Cleaned(a)
            /\ \E p \in PathsOf(Item(a)) : \E v :
                 /\ files' = [files EXCEPT ![p] = v]
                 /\ \/ call[a].op = "apply" /\ Item(a).kind \in Placed
                    \/ call[a].op = "remove" /\ v = Absent
<1>1. CASE QuietEnd(a) \/ QuietMove(a) \/ Skipped(a) \/ ReadIt(a) \/ ReadFailed(a) \/ UpdatedIt(a) \/ UpdateFailed(a)
  BY <1>1 DEF QuietEnd, QuietMove, Skipped, ReadIt, ReadFailed, UpdatedIt, UpdateFailed, shared
<1>2. CASE Wrote(a) \/ Tore(a) \/ Locked(a) \/ Removed(a) \/ Unlocked(a) \/ Cleaned(a)
  <2>1. PlaceFits(call[a], Item(a)) /\ Item(a) \in Items
    BY <1>2 DEF View, Wrote, Tore, Locked, Removed, Unlocked, Cleaned, At
  <2>2. /\ Item(a).kind \in Placed \cup {"cleanup"} /\ (Item(a).kind \in Placed \/ Cleaned(a))
        /\ Locked(a) \/ Unlocked(a) => Item(a).kind = "policy"
        /\ Wrote(a) \/ Tore(a) \/ Locked(a) => call[a].op = "apply" /\ Item(a).kind \in Placed
        /\ Removed(a) \/ Unlocked(a) \/ Cleaned(a) => call[a].op = "remove"
    BY <1>2, <2>1 DEF PlaceFits, Wrote, Tore, Locked, Removed, Unlocked, Cleaned, At
  <2>3. Item(a).path \in PathsOf(Item(a)) /\ (Item(a).kind = "policy" => Item(a).lock \in PathsOf(Item(a)))
    BY <2>1, <2>2, PathIsFile, PlacedKinds
  <2>4. CASE Wrote(a) \/ Tore(a) \/ Locked(a)
    BY <2>2, <2>3, <2>4 DEF Wrote, Tore, Locked
  <2>5. CASE Removed(a) \/ Unlocked(a) \/ Cleaned(a)
    BY <2>2, <2>3, <2>5 DEF Removed, Unlocked, Cleaned
  <2>. QED  BY <1>2, <2>4, <2>5
<1>. QED  BY <1>1, <1>2 DEF View

LEMMA CallInHand ==
  ASSUME Inv, NEW b \in Apps, call[b].op # "none", call[b].pc # "start"
  PROVE  Working(b) /\ Current(b) /\ Item(b) \in Items /\ PlaceFits(call[b], Item(b))
<1>1. Working(b)
  BY DEF Inv, CallsFit, Working
<1>. QED  BY <1>1, InHand

LEMMA PoliciesStep ==
  ASSUME FilesDiffer, PoliciesAreOwn, Inv, PoliciesHalf, [Next]_vars
  PROVE  PoliciesHalf'
<1>1. ASSUME NEW a \in Apps, View(a), Inv' PROVE PoliciesHalf'
  <2>0. Current(a) /\ Item(a) \in Items /\ Typed
    BY <1>1 DEF View, Inv
  <2>1. /\ halfRemoved' = halfRemoved \/ Wrote(a) \/ Removed(a) \/ Unlocked(a)
        /\ \A p \in halfRemoved : p # Item(a).path => p \in halfRemoved'
    BY <1>1 DEF View, QuietEnd, QuietMove, Skipped, ReadIt, ReadFailed, UpdatedIt, UpdateFailed, shared,
                Wrote, Tore, Locked, Removed, Unlocked, Cleaned
  <2>2. ASSUME NEW i \in Items, i.kind = "policy", files'[i.lock] # Absent
        PROVE  files'[i.path] # Absent \/ i.path \in halfRemoved'
    <3>0. PathsOf(i) = {i.path, i.lock} /\ i.path \in Paths /\ i.lock \in Paths /\ i.content # Absent
      BY <2>2, PathIsFile, PlacedKinds, DesktopAssumption
    <3>1. files[i.lock] # Absent => files[i.path] # Absent \/ i.path \in halfRemoved
      BY <2>2 DEF PoliciesHalf, LockHasValue
    <3>2. CASE files' = files
      <4>1. CASE ~(Wrote(a) \/ Removed(a) \/ Unlocked(a)) \/ i.path # Item(a).path
        BY <2>1, <2>2, <3>1, <3>2, <4>1
      <4>2. CASE (Wrote(a) \/ Removed(a) \/ Unlocked(a)) /\ i.path = Item(a).path
        <5>1. Item(a).kind \in Placed
          BY <1>1, <4>2 DEF View, PlaceFits, Wrote, Removed, Unlocked, At
        <5>2. i = Item(a)
          <6>1. Item(a).path \in PathsOf(Item(a))
            BY <2>0, <5>1, PathIsFile, PlacedKinds
          <6>. QED  BY <2>0, <2>2, <4>2, <5>1, <6>1, PolicyApart
        <5>3. Wrote(a) => files'[i.path] = i.content
          BY <2>0, <3>0, <5>2 DEF Wrote, Typed
        <5>4. Removed(a) => i.path \in halfRemoved'
          BY <2>2, <5>2 DEF Removed
        <5>5. Unlocked(a) => files'[i.lock] = Absent
          BY <2>0, <3>0, <5>2 DEF Unlocked, Typed
        <5>. QED  BY <2>2, <3>0, <4>2, <5>3, <5>4, <5>5
      <4>. QED  BY <4>1, <4>2
    <3>3. CASE files' # files
      <4>1. /\ Item(a).kind \in Placed \cup {"cleanup"} /\ (Item(a).kind \in Placed \/ Cleaned(a))
            /\ \E p \in PathsOf(Item(a)) : \E v : files' = [files EXCEPT ![p] = v]
        BY <1>1, <3>3, FilesStep
      <4>2. Item(a).path \in PathsOf(Item(a))
        BY <2>0, <4>1, PathIsFile, PlacedKinds
      <4>3. CASE i # Item(a)
        <5>1. i.path \notin PathsOf(Item(a)) /\ i.lock \notin PathsOf(Item(a))
          BY <2>0, <2>2, <4>1, <4>3, PolicyApart
        <5>2. files'[i.path] = files[i.path] /\ files'[i.lock] = files[i.lock]
          BY <2>0, <3>0, <4>1, <5>1 DEF Typed
        <5>. QED  BY <2>1, <2>2, <3>1, <4>2, <5>1, <5>2
      <4>4. CASE i = Item(a)
        <5>1. Wrote(a) \/ Tore(a) \/ Locked(a) \/ Removed(a) \/ Unlocked(a) \/ Cleaned(a)
          BY <1>1, <3>3 DEF View, QuietEnd, QuietMove, Skipped, ReadIt, ReadFailed, UpdatedIt, UpdateFailed, shared
        <5>2. ~Tore(a) /\ ~Cleaned(a)
          BY <1>1, <2>2, <4>4 DEF Tore, Cleaned, View, At, PlaceFits
        <5>3. CASE Wrote(a)
          BY <2>0, <3>0, <4>4, <5>3 DEF Wrote, Typed
        <5>4. CASE Locked(a)
          <6>1. call[a].op # "none" /\ call[a].pc = "lock"
            BY <5>4 DEF Locked, At, Working
          <6>2. files[i.path] = i.content
            BY <4>4, <6>1 DEF PoliciesHalf
          <6>. QED  BY <2>0, <3>0, <4>4, <5>4, <6>2 DEF Locked, Typed
        <5>5. CASE Removed(a)
          BY <2>2, <4>4, <5>5 DEF Removed
        <5>6. CASE Unlocked(a)
          BY <2>0, <2>2, <3>0, <4>4, <5>6 DEF Unlocked, Typed
        <5>. QED  BY <5>1, <5>2, <5>3, <5>4, <5>5, <5>6
      <4>. QED  BY <4>3, <4>4
    <3>. QED  BY <3>2, <3>3
  <2>3. ASSUME NEW b \in Apps, call'[b].op # "none", call'[b].pc \in {"lock", "unlock"}
        PROVE  /\ call'[b].pc = "lock" => files'[Item(b)'.path] = Item(b)'.content /\ Item(b)'.enforced
               /\ call'[b].pc = "unlock" => Item(b)'.path \in halfRemoved' /\ files'[Item(b)'.path] = Absent
    <3>1. CASE b = a
      <4>1. Wrote(a) \/ Removed(a)
        BY <1>1, <2>3, <3>1 DEF View, QuietEnd, QuietMove, Skipped, ReadIt, ReadFailed, UpdatedIt, UpdateFailed, Concluded,
                   Tore, Locked, Unlocked, Cleaned, Ends, Moves
      <4>2. \/ Wrote(a) /\ Item(a).kind = "policy" /\ Item(a).enforced /\ Moves(a, "lock")
            \/ Removed(a) /\ Item(a).kind = "policy" /\ Moves(a, "unlock")
        BY <2>3, <3>1, <4>1 DEF Wrote, Removed, Concluded, Ends
      <4>3. Item(a)' = Item(a) /\ Item(a).path \in Paths
        BY <2>0, <4>2, PathIsFile, PlacedKinds DEF Item, Moves
      <4>. QED  BY <2>0, <3>1, <4>2, <4>3 DEF Wrote, Removed, Moves, Typed
    <3>2. CASE b # a
      <4>1. call'[b] = call[b] /\ Item(b)' = Item(b)
        BY <1>1, <3>2, UpdateAfterRead DEF Item
      <4>2. call[b].op # "none" /\ call[b].pc # "start" /\ Current(b) /\ Item(b) \in Items /\ Item(b).kind = "policy"
        BY <2>3, <4>1, CallInHand DEF PlaceFits
      <4>3. Item(b).path \in PathsOf(Item(b)) /\ Item(b).path \in Paths /\ "mimeapps.list" \notin PathsOf(Item(b))
        BY <4>2, PathIsFile, PlacedKinds
      <4>4. Item(b).path \notin PathsOf(Item(a))
        BY <2>0, <3>2, <4>2, <4>3, AppsApart
      <4>5. files'[Item(b).path] = files[Item(b).path]
        BY <1>1, <2>0, <4>3, <4>4, FilesStep DEF Typed
      <4>6. Item(b).path \in halfRemoved => Item(b).path \in halfRemoved'
        <5>1. CASE halfRemoved' = halfRemoved
          BY <5>1
        <5>2. CASE Wrote(a) \/ Removed(a) \/ Unlocked(a)
          <6>1. Item(a).path \in PathsOf(Item(a))
            <7>1. Item(a).kind \in Placed
              BY <1>1, <5>2 DEF View, PlaceFits, Wrote, Removed, Unlocked, At
            <7>. QED  BY <2>0, <7>1, PathIsFile, PlacedKinds
          <6>. QED  BY <2>1, <4>4, <6>1
        <5>. QED  BY <2>1, <5>1, <5>2
      <4>. QED  BY <2>3, <4>1, <4>2, <4>5, <4>6 DEF PoliciesHalf
    <3>. QED  BY <3>1, <3>2
  <2>. QED  BY <2>2, <2>3 DEF PoliciesHalf, LockHasValue
<1>2. ASSUME NEW a \in Apps, Begins(a) \/ Returns(a) \/ Died(a) PROVE PoliciesHalf'
  <2>1. /\ halfRemoved' = halfRemoved
        /\ \A b \in Apps : call'[b].op # "none" /\ call'[b].pc # "start" => b # a /\ call'[b] = call[b] /\ Item(b)' = Item(b)
    BY <1>2 DEF Begins, Returns, Died, shared, Idle, Item
  <2>2. CASE files' = files
    BY <2>1, <2>2 DEF PoliciesHalf, LockHasValue
  <2>3. CASE Died(a) /\ Current(a) /\ Item(a).kind = "icon" /\ files' = [files EXCEPT ![Item(a).path] = Torn]
    <3>1. Current(a) /\ Item(a) \in Items /\ Item(a).path \in PathsOf(Item(a)) /\ Typed
      BY <2>3, ItemIsIndexed, PathIsFile, PlacedKinds DEF Died, Inv
    <3>2. ASSUME NEW i \in Items, i.kind = "policy"
          PROVE  files'[i.path] = files[i.path] /\ files'[i.lock] = files[i.lock]
      <4>1. i.path \notin PathsOf(Item(a)) /\ i.lock \notin PathsOf(Item(a))
        BY <2>3, <3>1, <3>2, PolicyApart, PlacedKinds
      <4>2. i.path \in Paths /\ i.lock \in Paths
        BY <3>2, PathIsFile, PlacedKinds
      <4>. QED  BY <2>3, <3>1, <4>1, <4>2 DEF Typed
    <3>3. ASSUME NEW b \in Apps, call'[b].op # "none", call'[b].pc \in {"lock", "unlock"}
          PROVE  Item(b) \in Items /\ Item(b).kind = "policy"
      <4>1. call[b].op # "none" /\ call[b].pc \in {"lock", "unlock"}
        BY <2>1, <3>3
      <4>. QED  BY <4>1, CallInHand DEF PlaceFits
    <3>. QED  BY <2>1, <3>2, <3>3 DEF PoliciesHalf, LockHasValue
  <2>. QED  BY <1>2, <2>2, <2>3 DEF Begins, Returns, Died, shared
<1>3. CASE UNCHANGED vars
  BY <1>3 DEF vars, PoliciesHalf, LockHasValue, Item
<1>. QED  BY <1>1, <1>2, <1>3, StepView

\* A registration reported staged stays until a removal by its owner comes as far
\* as the list, through updates that fail before their rename and after it, as
\* long as no update was read before another was written; and a lock never stays
\* without its value unless a removal stopped in between (desktop.cpp
\* update_mimeapps_key, apply_policy, remove_policy).
THEOREM StagedRegistrationsStay ==
  ASSUME RegistrationsDiffer, FilesDiffer, PoliciesAreOwn
  PROVE  Spec => []StagedStays
<1>1. Init => OneUpdate /\ PoliciesHalf
  <2>. SUFFICES ASSUME Init PROVE OneUpdate /\ PoliciesHalf
    OBVIOUS
  <2>1. OneUpdate
    BY DEF Init, OneUpdate, StagedListed, At, Working, Idle
  <2>2. LockHasValue
    <3>. SUFFICES ASSUME NEW i \in Items, i.kind = "policy", files[i.lock] # Absent PROVE files[i.path] # Absent
      BY DEF LockHasValue
    <3>1. i.path \in Paths /\ i.lock \in Paths
      BY PathIsFile, PlacedKinds
    <3>. QED  BY <3>1 DEF Init, PoliciesAreOwn
  <2>. QED  BY <2>1, <2>2 DEF Init, PoliciesHalf, Idle
<1>2. OneUpdate /\ PoliciesHalf => StagedStays
  BY DEF OneUpdate, StagedListed, PoliciesHalf, StagedStays, ItemOf
<1>. QED  BY InvInit, InvStep, OneUpdateStep, PoliciesStep, <1>1, <1>2, PTL DEF Spec
-----------------------------------------------------------------------------
(* Reports that are true *)

\* A claim stands as long as the files of the bundle do.
LEMMA ToldKept ==
  ASSUME NEW f, NEW g, NEW b \in Apps, NEW op, NEW status, NEW rows, NEW blind,
         Told(f, b, op, status, rows, blind), DOMAIN status \subseteq DOMAIN Bundle[b],
         \A i \in DOMAIN Bundle[b] : \A q \in PathsOf(Bundle[b][i]) : q \in Paths => g[q] = f[q]
  PROVE  Told(g, b, op, status, rows, blind)
<1>1. ASSUME NEW i \in DOMAIN status PROVE ItemTold(g, op, Bundle[b][i], status[i], i, blind) /\ MaySay(op, status[i])
  <2>. DEFINE item == Bundle[b][i]
  <2>1. ItemTold(f, op, item, status[i], i, blind) /\ MaySay(op, status[i])
    BY DEF Told
  <2>2. ASSUME item.kind \in Placed PROVE ItemTold(g, op, item, status[i], i, blind)
    <3>1. item \in Items /\ i \in DOMAIN Bundle[b]
      BY ItemType
    <3>2. /\ item.path \in PathsOf(item) /\ PathsOf(item) \subseteq Paths
          /\ item.kind = "policy" => item.lock \in PathsOf(item)
      BY <2>2, <3>1, PathIsFile, PlacedKinds
    <3>3. g[item.path] = f[item.path] /\ (item.kind = "policy" => g[item.lock] = f[item.lock])
      BY <3>1, <3>2
    <3>. HIDE DEF item
    <3>. QED  BY <2>1, <3>3 DEF ItemTold, FoundIn
  <2>. QED  BY <2>1, <2>2 DEF ItemTold
<1>2. ASSUME NEW r \in rows, RowTold(f, r) PROVE RowTold(g, r)
  <2>1. PICK i \in DOMAIN Bundle[b] : r[1] \in PathsOf(Bundle[b][i])
    BY DEF Told
  <2>. QED  BY <1>2, <2>1 DEF RowTold
<1>. QED  BY <1>1, <1>2 DEF Told

\* So do those of the items before, when the next one is placed or removed.
LEMMA OwnTold ==
  ASSUME FilesDiffer, NEW f \in [Paths -> Contents], NEW g, NEW a \in Apps, NEW op \in {"apply", "remove"}, NEW status, NEW rows,
         NEW blind, Told(f, a, op, status, rows, blind), DOMAIN status \subseteq DOMAIN Bundle[a],
         NEW n \in DOMAIN Bundle[a], n \notin DOMAIN status, Bundle[a][n].kind \in Placed \cup {"cleanup"},
         NEW p \in PathsOf(Bundle[a][n]), NEW v, g = [f EXCEPT ![p] = v],
         op = "apply" => Bundle[a][n].kind \in Placed,
         op = "remove" => v = Absent
  PROVE  Told(g, a, op, status, rows, blind)
<1>1. p # "mimeapps.list"
  BY ItemType, PathIsFile, PlacedKinds
<1>2. ASSUME NEW i \in DOMAIN status PROVE ItemTold(g, op, Bundle[a][i], status[i], i, blind) /\ MaySay(op, status[i])
  <2>. DEFINE item == Bundle[a][i]
  <2>1. ItemTold(f, op, item, status[i], i, blind) /\ MaySay(op, status[i])
    BY DEF Told
  <2>2. ASSUME item.kind \in Placed PROVE ItemTold(g, op, item, status[i], i, blind)
    <3>1. item \in Items /\ i \in DOMAIN Bundle[a]
      BY ItemType
    <3>2. /\ item.path \in PathsOf(item) /\ PathsOf(item) \subseteq Paths
          /\ item.kind = "policy" => item.lock \in PathsOf(item)
      BY <2>2, <3>1, PathIsFile, PlacedKinds
    <3>3. CASE op = "apply"
      <4>. DEFINE s == <<a, i>>
                  t == <<a, n>>
      <4>1. s \in Indices /\ t \in Indices /\ s # t /\ ItemOf(s) = item /\ ItemOf(t) = Bundle[a][n]
        <5>1. i \in Nat /\ n \in Nat
          BY <3>1, DesktopAssumption
        <5>. QED  BY <3>1, <5>1 DEF Indices, ItemOf
      <4>2. PathsOf(item) \cap PathsOf(Bundle[a][n]) \subseteq {"mimeapps.list"}
        <5>. HIDE DEF item, s, t
        <5>. QED  BY <2>2, <3>3, <4>1 DEF FilesDiffer
      <4>3. g[item.path] = f[item.path] /\ (item.kind = "policy" => g[item.lock] = f[item.lock])
        <5>. HIDE DEF item
        <5>. QED  BY <1>1, <3>2, <4>2
      <4>. HIDE DEF item
      <4>. QED  BY <2>1, <4>3 DEF ItemTold, FoundIn
    <3>4. CASE op = "remove"
      <4>1. g[item.path] = f[item.path] \/ g[item.path] = Absent
        <5>. HIDE DEF item
        <5>. QED  BY <3>2, <3>4
      <4>. HIDE DEF item
      <4>. QED  BY <2>1, <3>4, <4>1 DEF ItemTold, MaySay
    <3>. QED  BY <3>3, <3>4
  <2>. QED  BY <2>1, <2>2 DEF ItemTold
<1>3. ASSUME NEW r \in rows, RowTold(f, r), op = "remove" PROVE RowTold(g, r)
  BY <1>3 DEF RowTold
<1>. QED  BY <1>2, <1>3 DEF Told

LEMMA NextTold ==
  ASSUME NEW f, NEW a \in Apps, NEW op, NEW status \in Seq(Statuses), NEW rows, NEW seen, NEW blind,
         Told(f, a, op, status, rows, seen), seen \subseteq blind,
         NEW n \in DOMAIN Bundle[a], Len(status) = n - 1, NEW s, NEW R,
         ItemTold(f, op, Bundle[a][n], s, n, blind), MaySay(op, s),
         \A r \in R : r[1] \in PathsOf(Bundle[a][n]) /\ (op # "apply" => RowTold(f, r))
  PROVE  Told(f, a, op, Append(status, s), rows \cup R, blind)
<1>0. n \in Nat
  BY DesktopAssumption
<1>1. ASSUME NEW i \in DOMAIN Append(status, s)
      PROVE  ItemTold(f, op, Bundle[a][i], Append(status, s)[i], i, blind) /\ MaySay(op, Append(status, s)[i])
  <2>1. CASE i \in DOMAIN status
    <3>1. Append(status, s)[i] = status[i]
      BY <2>1
    <3>2. ItemTold(f, op, Bundle[a][i], status[i], i, seen) /\ MaySay(op, status[i])
      BY <2>1 DEF Told
    <3>3. ItemTold(f, op, Bundle[a][i], status[i], i, blind)
      BY <3>2 DEF ItemTold
    <3>. QED  BY <3>1, <3>2, <3>3
  <2>2. CASE i \notin DOMAIN status
    <3>1. i = n /\ Append(status, s)[i] = s
      BY <1>0, <2>2
    <3>. QED  BY <3>1
  <2>. QED  BY <2>1, <2>2
<1>. QED  BY <1>1 DEF Told

\* The row of a file says what becomes of it.
LEMMA RowsTold ==
  ASSUME NEW c, NEW item \in Items, NEW ok \in BOOLEAN, NEW present \in BOOLEAN, NEW g, c.op \in {"query", "remove"},
         c.op = "query" => g = files,
         c.op = "remove" /\ ok /\ item.kind \notin Registrations => \A p \in PathsOf(item) : g[p] = Absent,
         NEW r \in RowsOf(c, item, ok, present)
  PROVE  r[1] \in PathsOf(item) /\ RowTold(g, r)
<1>1. PICK p \in PathsOf(item), seen \in BOOLEAN : r = <<p, GeneratedStatus(c, item, p, ok, present, seen)>>
  BY DEF RowsOf
<1>2. r[1] = p /\ r[2] = GeneratedStatus(c, item, p, ok, present, seen)
  BY <1>1
<1>3. CASE r[2] \in {"removed", "already_absent"}
  <2>1. p \notin c.seen /\ ~Withheld(c, item) /\ item.kind \notin Registrations
    BY <1>2, <1>3 DEF GeneratedStatus
  <2>2. p \in Paths
    BY <2>1, PathIsFile
  <2>3. c.op = "query" => files[p] = Absent
    BY <1>2, <1>3, <2>1 DEF GeneratedStatus
  <2>4. c.op = "remove" => ok
    BY <1>2, <1>3, <2>1 DEF GeneratedStatus
  <2>. QED  BY <1>2, <2>1, <2>2, <2>3, <2>4 DEF RowTold
<1>. QED  BY <1>2, <1>3 DEF RowTold

\* The files of another application's bundle are left alone.
LEMMA OthersKept ==
  ASSUME FilesDiffer, Inv, NEW a \in Apps, NEW b \in Apps, a # b, View(a) \/ Died(a)
  PROVE  \A i \in DOMAIN Bundle[b] : \A q \in PathsOf(Bundle[b][i]) : q \in Paths => files'[q] = files[q]
<1>. SUFFICES ASSUME NEW i \in DOMAIN Bundle[b], NEW q \in PathsOf(Bundle[b][i]), q \in Paths
              PROVE  files'[q] = files[q]
  OBVIOUS
<1>1. q # "mimeapps.list" /\ Typed
  BY DEF Paths, Inv
<1>2. CASE files' # files
  <2>0. Current(a)
    BY <1>2 DEF View, Died
  <2>1. Item(a) \in Items
    BY <2>0, ItemIsIndexed
  <2>2. \E p \in PathsOf(Item(a)) : \E v : files' = [files EXCEPT ![p] = v]
    <3>1. CASE View(a)
      BY <1>2, <3>1, FilesStep
    <3>2. CASE Died(a)
      <4>1. Item(a).path \in PathsOf(Item(a))
        BY <1>2, <2>1, <3>2, PathIsFile, PlacedKinds DEF Died
      <4>. QED  BY <1>2, <3>2, <4>1 DEF Died
    <3>. QED  BY <3>1, <3>2
  <2>3. <<b, i>> \in Indices /\ ItemOf(<<b, i>>) = Bundle[b][i] /\ <<b, i>> # <<a, call[a].item>>
    <3>1. i \in Nat
      BY DesktopAssumption
    <3>. QED  BY <3>1 DEF Indices, ItemOf
  <2>4. PathsOf(Item(a)) \cap PathsOf(Bundle[b][i]) \subseteq {"mimeapps.list"}
    BY <2>0, <2>3, ItemIsIndexed DEF FilesDiffer
  <2>. QED  BY <1>1, <2>2, <2>4
<1>. QED  BY <1>2

Claims(a) == call[a].op \in Real /\ ~call[a].options.dryRun

LEMMA InReport ==
  ASSUME Inv, NEW b \in Apps, call[b].op # "none"
  PROVE  /\ call[b] \in Calls /\ call[b].status \in Seq(Statuses) /\ DOMAIN call[b].status \subseteq DOMAIN Bundle[b]
         /\ call[b].item \notin DOMAIN call[b].status /\ Len(call[b].status) = call[b].item - 1
         /\ report[b].op = "none" /\ call[b].present \in BOOLEAN
<1>1. call[b] \in Calls
  BY DEF Inv, Typed, Idle
<1>2. Bundle[b] \in Seq(Items)
  BY DesktopAssumption
<1>3. call[b].status \in Seq(Statuses) /\ call[b].item \in Nat \ {0} /\ call[b].present \in BOOLEAN
  BY <1>1 DEF Calls
<1>4. call[b].item <= Len(Bundle[b]) + 1 /\ Len(call[b].status) = call[b].item - 1 /\ report[b].op = "none"
  BY DEF Inv, CallsFit
<1>. QED  BY <1>1, <1>2, <1>3, <1>4

\* What a call has claimed so far outlives its own step ...
LEMMA StillTold ==
  ASSUME FilesDiffer, Inv, NEW a \in Apps, View(a), CallTold(a), Claims(a)
  PROVE  Told(files', a, call[a].op, call[a].status, call[a].rows, call[a].blind)
<1>1. Told(files, a, call[a].op, call[a].status, call[a].rows, call[a].blind)
  BY DEF CallTold, Claims
<1>2. CASE files' # files
  <2>0. PICK p \in PathsOf(Item(a)) :
          \E v : /\ files' = [files EXCEPT ![p] = v]
                /\ \/ call[a].op = "apply" /\ Item(a).kind \in Placed
                   \/ call[a].op = "remove" /\ v = Absent
    BY <1>2, FilesStep
  <2>1. PICK v :
          /\ files' = [files EXCEPT ![p] = v]
          /\ \/ call[a].op = "apply" /\ Item(a).kind \in Placed
             \/ call[a].op = "remove" /\ v = Absent
    BY <2>0
  <2>2. Item(a).kind \in Placed \cup {"cleanup"} /\ Item(a) = Bundle[a][call[a].item]
    BY <1>2, FilesStep DEF Item
  <2>3. call[a].op # "none" /\ call[a].item \in DOMAIN Bundle[a] /\ files \in [Paths -> Contents]
    BY DEF View, Ops, Current, Inv, Typed
  <2>4. /\ DOMAIN call[a].status \subseteq DOMAIN Bundle[a] /\ call[a].item \notin DOMAIN call[a].status
        /\ call[a].op \in {"apply", "remove"}
    BY <2>1, <2>3, InReport
  <2>5. PICK n \in DOMAIN Bundle[a] : n = call[a].item
    BY <2>3
  <2>6. /\ p \in PathsOf(Bundle[a][n]) /\ n \notin DOMAIN call[a].status /\ Bundle[a][n].kind \in Placed \cup {"cleanup"}
        /\ call[a].op = "apply" => Bundle[a][n].kind \in Placed
        /\ call[a].op = "remove" => v = Absent
    BY <2>1, <2>2, <2>4, <2>5
  <2>. QED  BY <1>1, <2>1, <2>3, <2>4, <2>6, OwnTold
<1>. QED  BY <1>1, <1>2

\* ... and what it claims of the item in hand is true then.
LEMMA EndTold ==
  ASSUME FilesDiffer, Inv, NEW a \in Apps, View(a), CallTold(a), NEW s, NEW R, Ends(a, s, R),
         Claims(a) => /\ ItemTold(files', call[a].op, Item(a), s, call[a].item, call'[a].blind) /\ MaySay(call[a].op, s)
                      /\ \A r \in R : r[1] \in PathsOf(Item(a)) /\ (call[a].op # "apply" => RowTold(files', r))
  PROVE  CallTold(a)' /\ HalfTold(a)'
<1>1. HalfTold(a)'
  BY DEF Ends, HalfTold
<1>2. ASSUME Claims(a) PROVE Told(files', a, call[a].op, Append(call[a].status, s), call[a].rows \cup R, call'[a].blind)
  <2>1. call[a].op # "none" /\ call[a].item \in DOMAIN Bundle[a] /\ Item(a) = Bundle[a][call[a].item]
    BY DEF View, Ops, Current, Item
  <2>2. Told(files', a, call[a].op, call[a].status, call[a].rows, call[a].blind) /\ call[a].blind \subseteq call'[a].blind
    BY <1>2, StillTold DEF Ends
  <2>3. call[a].status \in Seq(Statuses) /\ Len(call[a].status) = call[a].item - 1
    BY <2>1, InReport
  <2>. QED  BY <1>2, <2>1, <2>2, <2>3, NextTold
<1>3. CallTold(a)'
  BY <1>2 DEF CallTold, Claims, Ends
<1>. QED  BY <1>1, <1>3

LEMMA MoveTold ==
  ASSUME FilesDiffer, Inv, NEW a \in Apps, View(a), CallTold(a), NEW pc, Moves(a, pc),
         pc = "unlock" => files'[Item(a).path] = Absent,
         pc = "lock" => files'[Item(a).path] = Item(a).content /\ Item(a).enforced
  PROVE  CallTold(a)' /\ HalfTold(a)'
<1>1. Item(a)' = Item(a)
  BY DEF Item, Moves
<1>2. HalfTold(a)'
  BY <1>1 DEF Moves, HalfTold
<1>3. CallTold(a)'
  <2>1. ASSUME Claims(a) PROVE Told(files', a, call[a].op, call[a].status, call[a].rows, call'[a].blind)
    <3>1. Told(files', a, call[a].op, call[a].status, call[a].rows, call[a].blind) /\ call[a].blind \subseteq call'[a].blind
      BY <2>1, StillTold DEF Moves
    <3>. QED  BY <3>1 DEF Told, ItemTold
  <2>. QED  BY <2>1 DEF CallTold, Claims, Moves
<1>. QED  BY <1>2, <1>3

LEMMA ConcludedTold ==
  ASSUME FilesDiffer, Inv, NEW a \in Apps, View(a), CallTold(a),
         NEW ok \in BOOLEAN, NEW present \in BOOLEAN, Concluded(a, ok, present),
         Claims(a) => /\ ItemTold(files', call[a].op, Item(a), StatusFor(call[a], ok, present), call[a].item, call'[a].blind)
                      /\ call[a].op = "query" => files' = files
                      /\ call[a].op = "remove" /\ ok /\ Item(a).kind \notin Registrations =>
                           \A p \in PathsOf(Item(a)) : files'[p] = Absent
  PROVE  CallTold(a)' /\ HalfTold(a)'
<1>. DEFINE s == StatusFor(call[a], ok, present)
<1>1. PICK R \in SUBSET RowsOf(call[a], Item(a), ok, present) : Ends(a, s, R)
  BY DEF Concluded
<1>2. Claims(a) => MaySay(call[a].op, s)
  BY DEF Claims, Real, MaySay, StatusFor
<1>3. ASSUME Claims(a), NEW r \in R
      PROVE  r[1] \in PathsOf(Item(a)) /\ (call[a].op # "apply" => RowTold(files', r))
  <2>1. Item(a) \in Items
    BY DEF View
  <2>2. r \in RowsOf(call[a], Item(a), ok, present)
    OBVIOUS
  <2>3. r[1] \in PathsOf(Item(a))
    BY <2>2 DEF RowsOf
  <2>4. ASSUME call[a].op # "apply" PROVE RowTold(files', r)
    <3>1. call[a].op \in {"query", "remove"}
      BY <1>3, <2>4 DEF Claims, Real
    <3>2. /\ call[a].op = "query" => files' = files
          /\ call[a].op = "remove" /\ ok /\ Item(a).kind \notin Registrations => \A p \in PathsOf(Item(a)) : files'[p] = Absent
      BY <1>3
    <3>3. \A c, g : /\ c.op \in {"query", "remove"} /\ (c.op = "query" => g = files)
                    /\ c.op = "remove" /\ ok /\ Item(a).kind \notin Registrations => \A p \in PathsOf(Item(a)) : g[p] = Absent
                    /\ r \in RowsOf(c, Item(a), ok, present)
                    => RowTold(g, r)
      BY <2>1, RowsTold
    <3>. QED  BY <2>2, <3>1, <3>2, <3>3
  <2>. QED  BY <2>3, <2>4
<1>. HIDE DEF s
<1>. QED  BY <1>1, <1>2, <1>3, EndTold DEF s

LEMMA StatusCases ==
  ASSUME NEW c, NEW present \in BOOLEAN
  PROVE  /\ StatusFor(c, FALSE, present) = "failed"
         /\ c.op = "query" => StatusFor(c, TRUE, present) = IF present THEN "present" ELSE "missing"
         /\ c.op = "remove" => StatusFor(c, TRUE, present) = "missing"
         /\ c.op = "apply" /\ ~c.options.dryRun => StatusFor(c, TRUE, present) = "staged"
BY DEF StatusFor

\* An item that is not placed, or that failed, claims nothing.
LEMMA NoClaim ==
  /\ \A f, op, item, s, n, blind : item.kind \notin Placed => ItemTold(f, op, item, s, n, blind)
  /\ \A f, op, item, n, blind : ItemTold(f, op, item, "failed", n, blind)
BY DEF ItemTold

LEMMA CallStep ==
  ASSUME FilesDiffer, Inv, NEW a \in Apps, View(a), CallTold(a), HalfTold(a)
  PROVE  CallTold(a)' /\ HalfTold(a)'
<1>0. /\ Item(a) \in Items /\ call[a].op # "none" /\ files \in [Paths -> Contents] /\ call[a].present \in BOOLEAN
      /\ call[a].pc # "start" => PlaceFits(call[a], Item(a))
  BY InReport DEF View, Ops, Inv, Typed
<1>1. Item(a).kind \notin Registrations => Item(a).path \in PathsOf(Item(a)) /\ PathsOf(Item(a)) \subseteq Paths
  BY <1>0, PathIsFile
<1>2. Item(a).kind \in Placed => Item(a).kind \notin Registrations
  BY PlacedKinds
<1>3. ASSUME QuietEnd(a) PROVE CallTold(a)' /\ HalfTold(a)'
  <2>0. files' = files
    BY <1>3 DEF QuietEnd, shared
  <2>1. PICK ok \in BOOLEAN, present \in BOOLEAN :
          /\ Concluded(a, ok, present)
          /\ ok => \/ call[a].op = "query" /\ present = Found(Item(a))
                   \/ /\ call[a].op = "query" /\ ~present
                      /\ TakesErrorForAbsence(Item(a)) /\ call[a].item \in call'[a].blind
                   \/ call[a].op # "query" /\ IsDryRun(call[a])
    BY <1>3 DEF QuietEnd
  <2>2. CASE ~ok
    <3>1. Concluded(a, FALSE, present)
      BY <2>1, <2>2
    <3>2. ItemTold(files', call[a].op, Item(a), StatusFor(call[a], FALSE, present), call[a].item, call'[a].blind)
      BY StatusCases, NoClaim
    <3>. QED  BY <2>0, <3>1, <3>2, ConcludedTold
  <2>3. CASE ok
    <3>1. Concluded(a, TRUE, present)
      BY <2>1, <2>3
    <3>2. ASSUME Claims(a)
          PROVE  /\ call[a].op = "query"
                 /\ \/ present = Found(Item(a))
                    \/ ~present /\ TakesErrorForAbsence(Item(a)) /\ call[a].item \in call'[a].blind
      BY <2>1, <2>3, <3>2 DEF Claims, IsDryRun
    <3>3. ASSUME Claims(a) PROVE ItemTold(files', call[a].op, Item(a), StatusFor(call[a], TRUE, present), call[a].item, call'[a].blind)
      <4>1. call[a].op = "query" /\ StatusFor(call[a], TRUE, present) = IF present THEN "present" ELSE "missing"
        BY <3>2, <3>3, StatusCases
      <4>2. CASE present = Found(Item(a))
        <5>1. Item(a).kind \in Placed => (present <=> FoundIn(files', Item(a)))
          BY <1>2, <2>0, <4>2, FoundCases DEF FoundIn, FoundPolicy
        <5>. QED  BY <4>1, <5>1 DEF ItemTold
      <4>3. CASE ~present /\ TakesErrorForAbsence(Item(a)) /\ call[a].item \in call'[a].blind
        BY <4>1, <4>3 DEF ItemTold
      <4>. QED  BY <3>2, <3>3, <4>2, <4>3
    <3>4. Claims(a) => call[a].op # "remove"
      BY <3>2
    <3>. QED  BY <2>0, <3>1, <3>3, <3>4, ConcludedTold
  <2>. QED  BY <2>2, <2>3
<1>4. ASSUME QuietMove(a) PROVE CallTold(a)' /\ HalfTold(a)'
  <2>1. PICK pc \in {"write", "probe", "remove", "look", "read", "clean"} : Moves(a, pc)
    BY <1>4 DEF QuietMove
  <2>. QED  BY <2>1, MoveTold
<1>5. ASSUME Skipped(a) PROVE CallTold(a)' /\ HalfTold(a)'
  <2>1. PICK st \in RowStatuses \ {"removed"} :
          /\ Ends(a, IF st = "failed" THEN "failed" ELSE "done", {<<Item(a).path, st>>})
          /\ st = "already_absent" => files[Item(a).path] = Absent
    BY <1>5 DEF Skipped
  <2>2. files' = files /\ Item(a).kind \notin Placed /\ Item(a).path \in PathsOf(Item(a)) /\ Item(a).path \in Paths
    BY <1>1, <1>5, PlacedKinds DEF Skipped, shared
  <2>. DEFINE s == IF st = "failed" THEN "failed" ELSE "done"
              R == {<<Item(a).path, st>>}
  <2>3. MaySay(call[a].op, s) /\ ItemTold(files', call[a].op, Item(a), s, call[a].item, call'[a].blind)
    BY <2>2, NoClaim DEF MaySay
  <2>4. \A r \in R : r[1] \in PathsOf(Item(a)) /\ RowTold(files', r)
    BY <2>1, <2>2 DEF RowTold
  <2>. HIDE DEF s, R
  <2>. QED  BY <2>1, <2>3, <2>4, EndTold DEF s, R
<1>6. ASSUME Wrote(a) PROVE CallTold(a)' /\ HalfTold(a)'
  <2>1. call[a].op = "apply" /\ Item(a).kind \in Placed
    BY <1>0, <1>6 DEF Wrote, At, PlaceFits
  <2>2. files'[Item(a).path] = Item(a).content
    BY <1>0, <1>1, <1>2, <1>6, <2>1 DEF Wrote
  <2>3. CASE Item(a).enforced /\ Moves(a, "lock")
    BY <2>2, <2>3, MoveTold
  <2>4. CASE ~(Item(a).kind = "policy" /\ Item(a).enforced) /\ Concluded(a, TRUE, TRUE)
    <3>1. ItemTold(files', call[a].op, Item(a), "staged", call[a].item, call'[a].blind)
      BY <2>2, <2>4 DEF ItemTold
    <3>2. Claims(a) => StatusFor(call[a], TRUE, TRUE) = "staged"
      BY <2>1, StatusCases DEF Claims
    <3>. QED  BY <2>1, <2>4, <3>1, <3>2, ConcludedTold
  <2>5. CASE Concluded(a, FALSE, TRUE)
    <3>1. ItemTold(files', call[a].op, Item(a), StatusFor(call[a], FALSE, TRUE), call[a].item, call'[a].blind)
      BY StatusCases, NoClaim
    <3>. QED  BY <2>1, <2>5, <3>1, ConcludedTold
  <2>. QED  BY <1>6, <2>3, <2>4, <2>5 DEF Wrote
<1>7. ASSUME Tore(a) PROVE CallTold(a)' /\ HalfTold(a)'
  <2>1. call[a].op = "apply"
    BY <1>0, <1>7 DEF Tore, At, PlaceFits
  <2>2. ItemTold(files', call[a].op, Item(a), StatusFor(call[a], FALSE, TRUE), call[a].item, call'[a].blind)
    BY StatusCases, NoClaim
  <2>3. Concluded(a, FALSE, TRUE)
    BY <1>7 DEF Tore
  <2>. QED  BY <2>1, <2>2, <2>3, ConcludedTold
<1>8. ASSUME Locked(a) PROVE CallTold(a)' /\ HalfTold(a)'
  <2>1. call[a].op = "apply" /\ Item(a).kind = "policy" /\ call[a].pc = "lock"
    BY <1>0, <1>8 DEF Locked, At, PlaceFits
  <2>2. Item(a).lock \in Paths /\ Item(a).path \in Paths
    BY <1>0, <2>1, PathIsFile, PlacedKinds
  <2>3. files[Item(a).path] = Item(a).content
    BY <1>0, <2>1 DEF HalfTold
  <2>4. files'[Item(a).path] = Item(a).content /\ files'[Item(a).lock] = Item(a).content
    BY <1>0, <1>8, <2>2, <2>3 DEF Locked
  <2>5. ItemTold(files', call[a].op, Item(a), "staged", call[a].item, call'[a].blind)
    BY <2>4 DEF ItemTold
  <2>6. Claims(a) => StatusFor(call[a], TRUE, TRUE) = "staged"
    BY <2>1, StatusCases DEF Claims
  <2>7. CASE Concluded(a, TRUE, TRUE)
    BY <2>1, <2>5, <2>6, <2>7, ConcludedTold
  <2>8. CASE Concluded(a, FALSE, TRUE)
    <3>1. ItemTold(files', call[a].op, Item(a), StatusFor(call[a], FALSE, TRUE), call[a].item, call'[a].blind)
      BY StatusCases, NoClaim
    <3>. QED  BY <2>1, <2>8, <3>1, ConcludedTold
  <2>. QED  BY <1>8, <2>7, <2>8 DEF Locked
<1>9. ASSUME Removed(a) PROVE CallTold(a)' /\ HalfTold(a)'
  <2>1. call[a].op = "remove" /\ Item(a).kind \in Placed
    BY <1>0, <1>9 DEF Removed, At, PlaceFits
  <2>2. files'[Item(a).path] = Absent
    BY <1>0, <1>1, <1>2, <1>9, <2>1 DEF Removed
  <2>3. CASE Moves(a, "unlock")
    BY <2>2, <2>3, MoveTold
  <2>4. CASE Item(a).kind # "policy" /\ Concluded(a, TRUE, call[a].present)
    <3>1. \A p \in PathsOf(Item(a)) : files'[p] = Absent
      <4>1. PathsOf(Item(a)) = {Item(a).path}
        BY <1>2, <2>1, <2>4 DEF PathsOf
      <4>. QED  BY <2>2, <4>1
    <3>2. StatusFor(call[a], TRUE, call[a].present) = "missing"
      BY <1>0, <2>1, StatusCases
    <3>3. ItemTold(files', call[a].op, Item(a), "missing", call[a].item, call'[a].blind)
      BY <2>1, <2>2 DEF ItemTold
    <3>. QED  BY <1>0, <2>1, <2>4, <3>1, <3>2, <3>3, ConcludedTold
  <2>. QED  BY <1>9, <2>3, <2>4 DEF Removed
<1>10. ASSUME Unlocked(a) PROVE CallTold(a)' /\ HalfTold(a)'
  <2>1. call[a].op = "remove" /\ Item(a).kind = "policy" /\ call[a].pc = "unlock"
    BY <1>0, <1>10 DEF Unlocked, At, PlaceFits
  <2>2. Item(a).lock \in Paths /\ Item(a).path \in Paths /\ PathsOf(Item(a)) = {Item(a).path, Item(a).lock}
    BY <1>0, <2>1, PathIsFile, PlacedKinds
  <2>3. files[Item(a).path] = Absent
    BY <1>0, <2>1 DEF HalfTold
  <2>4. \A p \in PathsOf(Item(a)) : files'[p] = Absent
    BY <1>0, <1>10, <2>2, <2>3 DEF Unlocked
  <2>5. StatusFor(call[a], TRUE, call[a].present) = "missing"
    BY <1>0, <2>1, StatusCases
  <2>6. ItemTold(files', call[a].op, Item(a), "missing", call[a].item, call'[a].blind)
    BY <2>1, <2>2, <2>4 DEF ItemTold
  <2>7. Concluded(a, TRUE, call[a].present)
    BY <1>10 DEF Unlocked
  <2>. QED  BY <1>0, <2>1, <2>4, <2>5, <2>6, <2>7, ConcludedTold
<1>11. ASSUME Cleaned(a) PROVE CallTold(a)' /\ HalfTold(a)'
  <2>1. call[a].op = "remove" /\ Item(a).kind = "cleanup"
    BY <1>0, <1>11 DEF Cleaned, At, PlaceFits
  <2>2. Item(a).path \in PathsOf(Item(a)) /\ Item(a).path \in Paths
    BY <1>1, <2>1, PlacedKinds
  <2>3. files'[Item(a).path] = Absent
    BY <1>0, <1>11, <2>2 DEF Cleaned
  <2>4. ASSUME NEW s \in {"done", "failed"}, NEW row, Ends(a, s, {<<Item(a).path, row>>})
        PROVE  CallTold(a)' /\ HalfTold(a)'
    <3>. DEFINE R == {<<Item(a).path, row>>}
    <3>1. \A r \in R : r[1] \in PathsOf(Item(a)) /\ RowTold(files', r)
      BY <2>2, <2>3 DEF RowTold
    <3>2. MaySay(call[a].op, s) /\ ItemTold(files', call[a].op, Item(a), s, call[a].item, call'[a].blind)
      BY <2>1, NoClaim, PlacedKinds DEF MaySay
    <3>3. Ends(a, s, R)
      BY <2>4
    <3>. HIDE DEF R
    <3>. QED  BY <3>1, <3>2, <3>3, EndTold
  <2>. QED  BY <1>11, <2>4 DEF Cleaned
<1>12. ASSUME ReadIt(a) PROVE CallTold(a)' /\ HalfTold(a)'
  <2>1. Moves(a, "update")
    BY <1>12 DEF ReadIt
  <2>. QED  BY <2>1, MoveTold
<1>13. ASSUME ReadFailed(a) PROVE CallTold(a)' /\ HalfTold(a)'
  <2>1. files' = files /\ Concluded(a, FALSE, call[a].present)
    BY <1>13 DEF ReadFailed
  <2>2. ItemTold(files', call[a].op, Item(a), StatusFor(call[a], FALSE, call[a].present), call[a].item, call'[a].blind)
    BY <1>0, StatusCases, NoClaim
  <2>. QED  BY <1>0, <2>1, <2>2, ConcludedTold
<1>14. ASSUME UpdatedIt(a) PROVE CallTold(a)' /\ HalfTold(a)'
  <2>1. files' = files /\ Item(a).kind \in Registrations
    BY <1>14, UpdateInHand DEF UpdatedIt
  <2>2. PICK ok \in BOOLEAN : Concluded(a, ok, call[a].present)
    BY <1>14 DEF UpdatedIt
  <2>3. ItemTold(files', call[a].op, Item(a), StatusFor(call[a], ok, call[a].present), call[a].item, call'[a].blind)
    BY <1>2, <2>1, NoClaim
  <2>. QED  BY <1>0, <2>1, <2>2, <2>3, ConcludedTold
<1>15. ASSUME UpdateFailed(a) PROVE CallTold(a)' /\ HalfTold(a)'
  <2>1. files' = files /\ Concluded(a, FALSE, call[a].present)
    BY <1>15 DEF UpdateFailed
  <2>2. ItemTold(files', call[a].op, Item(a), StatusFor(call[a], FALSE, call[a].present), call[a].item, call'[a].blind)
    BY <1>0, StatusCases, NoClaim
  <2>. QED  BY <1>0, <2>1, <2>2, ConcludedTold
<1>. QED  BY <1>3, <1>4, <1>5, <1>6, <1>7, <1>8, <1>9, <1>10, <1>11, <1>12, <1>13, <1>14, <1>15 DEF View

\* A step of one application keeps what the others claim.
LEMMA OthersTold ==
  ASSUME FilesDiffer, Inv, NEW a \in Apps, NEW b \in Apps, a # b, View(a) \/ Died(a), AllTold
  PROVE  CallTold(b)' /\ ReportTold(b)' /\ HalfTold(b)'
<1>1. call'[b] = call[b] /\ report'[b] = report[b] /\ Item(b)' = Item(b)
  BY UpdateAfterRead DEF View, Died, Item
<1>2. \A i \in DOMAIN Bundle[b] : \A q \in PathsOf(Bundle[b][i]) : q \in Paths => files'[q] = files[q]
  BY OthersKept
<1>3. CallTold(b)'
  <2>1. ASSUME Claims(b) PROVE Told(files', b, call[b].op, call[b].status, call[b].rows, call[b].blind)
    <3>1. DOMAIN call[b].status \subseteq DOMAIN Bundle[b]
      BY <2>1, InReport DEF Claims, Real
    <3>2. Told(files, b, call[b].op, call[b].status, call[b].rows, call[b].blind)
      BY <2>1 DEF AllTold, CallTold, Claims
    <3>. QED  BY <1>2, <3>1, <3>2, ToldKept
  <2>. QED  BY <1>1, <2>1 DEF CallTold, Claims
<1>4. ReportTold(b)'
  <2>1. ASSUME report[b].op \in Real, ~report[b].dryRun
        PROVE  /\ DOMAIN report[b].status = DOMAIN Bundle[b]
               /\ Told(files', b, report[b].op, report[b].status, report[b].rows, report[b].blind)
    <3>1. /\ DOMAIN report[b].status = DOMAIN Bundle[b]
          /\ Told(files, b, report[b].op, report[b].status, report[b].rows, report[b].blind)
      BY <2>1 DEF AllTold, ReportTold
    <3>. QED  BY <1>2, <3>1, ToldKept
  <2>. QED  BY <1>1, <2>1 DEF ReportTold
<1>5. HalfTold(b)'
  <2>1. ASSUME call[b].op # "none", call[b].pc \in {"lock", "unlock"} PROVE files'[Item(b).path] = files[Item(b).path]
    <3>1. Current(b) /\ Item(b) \in Items /\ Item(b).kind = "policy"
      BY <2>1, CallInHand DEF PlaceFits
    <3>2. Item(b).path \in PathsOf(Item(b)) /\ Item(b).path \in Paths
      BY <3>1, PathIsFile, PlacedKinds
    <3>. QED  BY <1>2, <3>1, <3>2 DEF Current, Item
  <2>. QED  BY <1>1, <2>1 DEF AllTold, HalfTold
<1>. QED  BY <1>3, <1>4, <1>5

LEMMA AllToldStep ==
  ASSUME FilesDiffer, Inv, AllTold, [Next]_vars
  PROVE  AllTold'
<1>1. ASSUME NEW a \in Apps, View(a) PROVE AllTold'
  <2>1. ReportTold(a)'
    BY <1>1, InReport, UpdateAfterRead DEF View, ReportTold, Real
  <2>. QED  BY <1>1, <2>1, CallStep, OthersTold DEF AllTold
<1>2. ASSUME NEW a \in Apps, Died(a) PROVE AllTold'
  <2>1. CallTold(a)' /\ HalfTold(a)'
    BY <1>2 DEF Died, Idle, CallTold, HalfTold, Real
  <2>2. ReportTold(a)'
    <3>1. call[a].op # "none"
      BY <1>2 DEF Died
    <3>. QED  BY <1>2, <3>1, InReport DEF Died, ReportTold, Real
  <2>. QED  BY <1>2, <2>1, <2>2, OthersTold DEF AllTold
<1>3. ASSUME NEW a \in Apps, Begins(a) PROVE AllTold'
  <2>1. CallTold(a)' /\ HalfTold(a)' /\ ReportTold(a)'
    BY <1>3 DEF Begins, NoReport, CallTold, HalfTold, ReportTold, Real, Told
  <2>2. \A b \in Apps \ {a} : call'[b] = call[b] /\ report'[b] = report[b] /\ Item(b)' = Item(b)
    BY <1>3 DEF Begins, Item
  <2>3. files' = files
    BY <1>3 DEF Begins, shared
  <2>. QED  BY <2>1, <2>2, <2>3 DEF AllTold, CallTold, HalfTold, ReportTold
<1>4. ASSUME NEW a \in Apps, Returns(a) PROVE AllTold'
  <2>0. files' = files
    BY <1>4 DEF Returns, shared
  <2>1. CallTold(a)' /\ HalfTold(a)'
    BY <1>4 DEF Returns, Idle, CallTold, HalfTold, Real
  <2>2. ReportTold(a)'
    <3>1. call[a].op # "none" /\ call[a] \in Calls
      BY <1>4 DEF Returns, Calls, Ops
    <3>2. DOMAIN call[a].status = DOMAIN Bundle[a]
      <4>1. call[a].item > Len(Bundle[a]) /\ call[a].item <= Len(Bundle[a]) + 1 /\ call[a].item \in Nat
        BY <1>4, <3>1 DEF Returns, Inv, CallsFit, Calls
      <4>2. Bundle[a] \in Seq(Items)
        BY DesktopAssumption
      <4>3. call[a].status \in Seq(Statuses) /\ Len(call[a].status) = call[a].item - 1
        BY <3>1, InReport
      <4>4. Len(call[a].status) = Len(Bundle[a])
        BY <4>1, <4>2, <4>3
      <4>. QED  BY <4>2, <4>3, <4>4
    <3>3. /\ report'[a].op = call[a].op /\ report'[a].dryRun = call[a].options.dryRun
          /\ report'[a].status = call[a].status /\ report'[a].rows = call[a].rows /\ report'[a].blind = call[a].blind
      BY <1>4 DEF Returns
    <3>. QED  BY <2>0, <3>2, <3>3 DEF AllTold, CallTold, ReportTold
  <2>3. \A b \in Apps \ {a} : call'[b] = call[b] /\ report'[b] = report[b] /\ Item(b)' = Item(b)
    BY <1>4 DEF Returns, Item
  <2>. QED  BY <2>0, <2>1, <2>2, <2>3 DEF AllTold, CallTold, HalfTold, ReportTold
<1>5. CASE UNCHANGED vars
  BY <1>5 DEF vars, AllTold, CallTold, HalfTold, ReportTold, Item
<1>. QED  BY <1>1, <1>2, <1>3, <1>4, <1>5, StepView

\* What a report says of the files is so until the application's next call:
\* what is staged is there as asked, what was removed is gone, and what a query
\* says missing is missing unless its look failed and its kind takes the error
\* for absence (desktop.cpp run_bundle and the reports of its items), if no two
\* applications name the same file and no two items of a bundle place it.
THEOREM ReportsAreTrue ==
  ASSUME FilesDiffer
  PROVE  Spec => []ReportIsTrue
<1>1. Init => AllTold
  BY DEF Init, Idle, NoReport, AllTold, CallTold, HalfTold, ReportTold, Real
<1>2. AllTold => ReportIsTrue
  <2>. SUFFICES ASSUME AllTold, NEW a \in Apps, report[a].op \in {"apply", "query", "remove"}, ~report[a].dryRun
                PROVE  /\ \A i \in DOMAIN Bundle[a] : Bundle[a][i].kind \in OwnedKinds \cup {"policy"} =>
                            CASE report[a].status[i] = "staged" ->
                                   /\ files[Bundle[a][i].path] = Bundle[a][i].content
                                   /\ Bundle[a][i].kind = "policy" /\ Bundle[a][i].enforced =>
                                        files[Bundle[a][i].lock] = Bundle[a][i].content
                              [] report[a].status[i] = "missing" ->
                                   IF report[a].op # "query" THEN files[Bundle[a][i].path] = Absent
                                   ELSE Found(Bundle[a][i]) => i \in report[a].blind /\ TakesErrorForAbsence(Bundle[a][i])
                              [] report[a].status[i] = "present" -> Found(Bundle[a][i])
                              [] OTHER -> TRUE
                       /\ report[a].op # "apply" => \A r \in report[a].rows :
                            r[2] \in {"removed", "already_absent"} => files[r[1]] = Absent
    BY DEF ReportIsTrue
  <2>1. /\ DOMAIN report[a].status = DOMAIN Bundle[a]
        /\ Told(files, a, report[a].op, report[a].status, report[a].rows, report[a].blind)
    BY DEF AllTold, ReportTold, Real
  <2>2. ASSUME NEW i \in DOMAIN Bundle[a], Bundle[a][i].kind \in Placed
        PROVE  CASE report[a].status[i] = "staged" ->
                      /\ files[Bundle[a][i].path] = Bundle[a][i].content
                      /\ Bundle[a][i].kind = "policy" /\ Bundle[a][i].enforced =>
                           files[Bundle[a][i].lock] = Bundle[a][i].content
                 [] report[a].status[i] = "missing" ->
                      IF report[a].op # "query" THEN files[Bundle[a][i].path] = Absent
                                   ELSE Found(Bundle[a][i]) => i \in report[a].blind /\ TakesErrorForAbsence(Bundle[a][i])
                 [] report[a].status[i] = "present" -> Found(Bundle[a][i])
                 [] OTHER -> TRUE
    <3>. DEFINE item == Bundle[a][i]
                s == report[a].status[i]
    <3>1. ItemTold(files, report[a].op, item, s, i, report[a].blind) /\ item.kind \in Placed
      BY <2>1, <2>2 DEF Told
    <3>2. FoundIn(files, item) <=> Found(item)
      BY <2>2, PlacedKinds, FoundCases DEF FoundIn, FoundPolicy
    <3>. HIDE DEF item, s
    <3>3. /\ s = "staged" => /\ files[item.path] = item.content
                             /\ item.kind = "policy" /\ item.enforced => files[item.lock] = item.content
          /\ s = "missing" => IF report[a].op # "query" THEN files[item.path] = Absent
                              ELSE Found(item) => i \in report[a].blind /\ TakesErrorForAbsence(item)
          /\ s = "present" => Found(item)
      BY <3>1, <3>2 DEF ItemTold
    <3>. QED  BY <3>3 DEF item, s
  <2>. QED  BY <2>1, <2>2 DEF Told, RowTold, Placed
<1>. QED  BY InvInit, InvStep, AllToldStep, <1>1, <1>2, PTL DEF Spec
=============================================================================
