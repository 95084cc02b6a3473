--------------------------- MODULE MigrationProofs ---------------------------
(***************************************************************************)
(* Theorems about MigrationExecution, for all plans, trees and options and *)
(* any number of failures and writes: no content is lost before a cleanup  *)
(* has failed or a verification was cut short, "executed" means done, and  *)
(* old targets are kept.                                                   *)
(***************************************************************************)
EXTENDS MigrationExecution, RegistryMigration, SequenceTheorems, FiniteSetTheorems, WellFoundedInduction, TLAPS

NoneVouched == [e \in Entries |-> Absent]
\* Between two actions, or before the first or after the last.
Resting == step \in {"planning", "check", "done"}
From == tree[Action.from]
To == tree[Action.to]
Shapes == \A loc \in Locations : WellFormed(tree[loc])

\* What is verified is remembered from the comparison to the report.
Vouching ==
  /\ Resting \/ step \in {"parents", "copy"} => vouched = NoneVouched
  /\ ~Resting /\ Action.kind = "rename_file" => vouched = NoneVouched
  /\ step \in {"verify", "remove", "finish"} =>
       \A e \in Entries : vouched[e] # Absent => To.files[e] = vouched[e]

\* What the earlier steps of the action in hand have established.
Admitted ==
  ~Resting =>
    /\ IsFileAction(Action.kind)
    /\ existed => options.overwriteExisting
SourceThere ==
  step \in {"parents", "copy", "verify", "remove"} =>
    From.kind = IF IsDirectoryAction(Action.kind) THEN "directory" ELSE "file"
Copying ==
  /\ step \in {"copy", "verify"} => left \subseteq FilesIn(Action.from) /\ Action.kind # "rename_file"
  /\ step = "copy" => \A e \in Entries : From.files[e] # Absent /\ e \notin left => To.files[e] # Absent
Verifying ==
  step = "verify" =>
    /\ IsDirectoryAction(Action.kind) /\ To.kind = "directory"
    /\ \A e \in Entries : From.files[e] # Absent /\ e \notin left => vouched[e] = From.files[e]
Removing ==
  step = "remove" =>
    /\ Action.kind \in {"rename_file", "move_directory"}
    /\ Action.kind = "move_directory" =>
         /\ To.kind = "directory"
         /\ lapses = {} => \A e \in Entries : From.files[e] # Absent => To.files[e] = From.files[e]
RollingBack ==
  step = "rollback" => ~existed /\ Action.kind = "move_directory" /\ To.kind = "directory"
Finishing ==
  step = "finish" => Exists(Action.to) /\ (IsMoveAction(Action.kind) => ~Exists(Action.from))

InAction == Admitted /\ SourceThere /\ Copying /\ Verifying /\ Removing /\ RollingBack /\ Finishing
Inv == TypeOK /\ Shapes /\ Vouching /\ InAction
-----------------------------------------------------------------------------
LEMMA ElementType ==
  ASSUME NEW S, NEW s \in Seq(S), NEW i \in 1 .. Len(s)
  PROVE  s[i] \in S /\ i \in DOMAIN s /\ Len(s) \in Nat
OBVIOUS

LEMMA InitInv == Init => Inv
<1> SUFFICES ASSUME Init PROVE Inv
  OBVIOUS
<1>1. tree \in [Locations -> {t \in Tree : WellFormed(t)}] /\ plan \in Plans
  BY MigrationAssumption DEF Init
<1>2. Len(plan) \in Nat \ {0}
  BY <1>1, MigrationAssumption
<1>a. tree \in [Locations -> Tree]
  BY <1>1
<1>b. vouched \in [Entries -> Contents \cup {Absent}] /\ results \in Seq([state : States, rollback : Rollbacks])
  BY DEF Init
<1>c. step \in Steps /\ now \in 1 .. IF step = "done" THEN Len(plan) + 1 ELSE Len(plan)
  BY <1>2 DEF Init, Steps
<1>d. left \subseteq Entries /\ {planOk, existed} \subseteq BOOLEAN /\ lapses \subseteq Lapses
  BY DEF Init
<1>e. mishaps \in 0 .. MaxMishaps /\ writes \in 0 .. MaxWrites
  BY MigrationAssumption DEF Init
<1>3. TypeOK
  BY <1>a, <1>b, <1>c, <1>d, <1>e, <1>1 DEF TypeOK
<1>. QED  BY <1>1, <1>3 DEF Init, Inv, Shapes, Vouching, Resting, NoneVouched, InAction, Admitted, SourceThere,
            Copying, Verifying, Removing, RollingBack, Finishing

\* The action in hand: its kind, and two different locations.
LEMMA InHand ==
  ASSUME TypeOK, step # "done"
  PROVE  /\ Action \in [kind : Kinds, from : Locations, to : Locations, dangerous : BOOLEAN, elevation : BOOLEAN]
         /\ Action.from # Action.to /\ now \in 1 .. Len(plan) /\ Len(plan) \in Nat
<1> DEFINE Actions == [kind : Kinds, from : Locations, to : Locations, dangerous : BOOLEAN, elevation : BOOLEAN]
<1>1. plan \in Plans /\ now \in 1 .. Len(plan)
  BY DEF TypeOK
<1>2. plan \in Seq(Actions) /\ \A i \in DOMAIN plan : plan[i].from # plan[i].to
  BY <1>1, MigrationAssumption
<1>3. plan[now] \in Actions /\ now \in DOMAIN plan /\ Len(plan) \in Nat
  BY <1>1, <1>2, ElementType
<1>. QED  BY <1>1, <1>2, <1>3 DEF Action

\* A report ends the action: only types and shapes matter afterwards.
LEMMA ReportKeeps ==
  ASSUME Inv, step # "done", NEW s \in States, NEW r \in Rollbacks, Report(s, r),
         UNCHANGED request, tree' \in [Locations -> Tree], Shapes', existed' \in BOOLEAN,
         lapses' \subseteq Lapses, mishaps' \in 0 .. MaxMishaps, writes' \in 0 .. MaxWrites
  PROVE  Inv'
<1>1. now \in 1 .. Len(plan) /\ Len(plan) \in Nat /\ plan' = plan /\ planOk' = planOk
  BY InHand DEF Inv, request
<1>2. /\ results' = Append(results, [state |-> s, rollback |-> r]) /\ now' = now + 1
      /\ step' = IF now = Len(plan) THEN "done" ELSE "check"
      /\ left' = {} /\ vouched' = NoneVouched
  BY DEF Report, NoneVouched
<1>3. results' \in Seq([state : States, rollback : Rollbacks])
  BY <1>2 DEF Inv, TypeOK
<1>4. vouched' \in [Entries -> Contents \cup {Absent}]
  BY <1>2 DEF NoneVouched
<1>5. TypeOK'
  BY <1>1, <1>2, <1>3, <1>4 DEF Inv, TypeOK, Steps
<1>6. step' \in {"done", "check"}
  BY <1>2
<1>. QED  BY <1>2, <1>5, <1>6 DEF Inv, Vouching, Resting, NoneVouched, InAction, Admitted, SourceThere,
            Copying, Verifying, Removing, RollingBack, Finishing

\* A step within an action: the action stays, and what it has left is a set
\* of entries.
LEMMA GoOnTypes ==
  ASSUME TypeOK, step # "done", step' \in Steps \ {"done"}, left' \subseteq Entries,
         UNCHANGED <<request, results, now>>, tree' \in [Locations -> Tree], existed' \in BOOLEAN,
         vouched' \in [Entries -> Contents \cup {Absent}],
         lapses' \subseteq Lapses, mishaps' \in 0 .. MaxMishaps, writes' \in 0 .. MaxWrites
  PROVE  TypeOK' /\ Action' = Action /\ options' = options
<1>1. plan' = plan /\ options' = options /\ planOk' = planOk /\ results' = results /\ now' = now
  BY DEF request
<1>. QED  BY <1>1 DEF TypeOK, Action

LEMMA CountsStay ==
  ASSUME TypeOK
  PROVE  /\ Works => mishaps' \in 0 .. MaxMishaps
         /\ Fails => mishaps' \in 0 .. MaxMishaps
BY MigrationAssumption DEF TypeOK, Works, Fails

\* One entry of a location gets another content.
LEMMA PutEffect ==
  ASSUME TypeOK, NEW loc \in Locations, NEW e \in Entries, NEW c \in Contents \cup {Absent},
         Put(loc, e, c)
  PROVE  /\ tree' \in [Locations -> Tree]
         /\ tree'[loc].kind = tree[loc].kind /\ tree'[loc].files[e] = c
         /\ \A f \in Entries \ {e} : tree'[loc].files[f] = tree[loc].files[f]
         /\ \A l \in Locations \ {loc} : tree'[l] = tree[l]
BY DEF TypeOK, Tree, Put

LEMMA PlanKeeps ==
  ASSUME Inv, PlanMigration
  PROVE  Inv'
<1>1. step = "planning" /\ step' = "check" /\ planOk' \in BOOLEAN
      /\ UNCHANGED <<tree, plan, options, now, left, existed, vouched, results, lapses, mishaps, writes>>
  BY DEF PlanMigration
<1>2. TypeOK'
  BY <1>1 DEF Inv, TypeOK, Steps
<1>. QED  BY <1>1, <1>2 DEF Inv, Shapes, Vouching, Resting, NoneVouched, InAction, Admitted, SourceThere,
            Copying, Verifying, Removing, RollingBack, Finishing

LEMMA CheckKeeps ==
  ASSUME Inv, Check
  PROVE  Inv'
<1>1. /\ step = "check" /\ existed' = Exists(Action.to)
      /\ UNCHANGED <<tree, plan, options, planOk, lapses, mishaps, writes>>
  BY DEF Check, request
<1>2. ASSUME NEW s \in States, NEW r \in Rollbacks, Report(s, r) PROVE Inv'
  BY <1>1, <1>2, ReportKeeps DEF Inv, TypeOK, Shapes, Exists, request
<1>3. CASE planOk /\ ~Gated(Action) /\ ~Refused(Action) /\ ~options.dryRun /\ IsFileAction(Action.kind)
           /\ (options.allowDangerous \/ ~RequiresDangerousPermission(Action.kind))
  <2>1. step' = "parents" /\ left' = {} /\ UNCHANGED <<results, now, vouched>>
    BY <1>3 DEF Check, GoOn
  <2>2. TypeOK' /\ Action' = Action /\ options' = options
    BY <1>1, <2>1, GoOnTypes DEF Inv, TypeOK, Steps, Exists, request
  <2>3. /\ existed' => options.overwriteExisting
        /\ From.kind = IF IsDirectoryAction(Action.kind) THEN "directory" ELSE "file"
    <3>1. Action \in [kind : Kinds, from : Locations, to : Locations, dangerous : BOOLEAN, elevation : BOOLEAN]
      BY <1>1, InHand DEF Inv
    <3>2. From.kind \in {"none", "file", "directory", "link"}
      BY <3>1 DEF Inv, TypeOK, Tree, From
    <3>. QED  BY <1>1, <1>3, <3>2 DEF Refused, From, Exists
  <2>. QED  BY <1>1, <1>3, <2>1, <2>2, <2>3 DEF Inv, Shapes, Vouching, Resting, NoneVouched, InAction, Admitted,
              SourceThere, From, Copying, Verifying, Removing, RollingBack, Finishing
<1>4. CASE ~(planOk /\ ~Gated(Action) /\ ~Refused(Action) /\ ~options.dryRun /\ IsFileAction(Action.kind)
           /\ (options.allowDangerous \/ ~RequiresDangerousPermission(Action.kind)))
  <2>1. \E s \in States, r \in Rollbacks : Report(s, r)
    BY <1>4 DEF Check, States, Rollbacks
  <2>. QED  BY <2>1, <1>2
<1>. QED  BY <1>3, <1>4

LEMMA ParentsKeeps ==
  ASSUME Inv, Parents
  PROVE  Inv'
<1>1. step = "parents" /\ UNCHANGED <<tree, plan, options, planOk, existed, lapses, writes>>
  BY DEF Parents, request
<1>2. CASE Fails /\ Report("blocked", "unavailable")
  BY <1>1, <1>2, ReportKeeps, CountsStay DEF Inv, TypeOK, Shapes, States, Rollbacks, request
<1>3. CASE ~(Fails /\ Report("blocked", "unavailable"))
  <2>1. /\ Works /\ step' = IF Action.kind = "rename_file" THEN "remove" ELSE "copy"
        /\ left' = FilesIn(Action.from) /\ UNCHANGED <<results, now, vouched>>
    BY <1>3 DEF Parents, GoOn, Carrying
  <2>2. left' \subseteq Entries
    BY <2>1 DEF FilesIn
  <2>3. TypeOK' /\ Action' = Action /\ options' = options
    BY <1>1, <2>1, <2>2, GoOnTypes, CountsStay DEF Inv, TypeOK, Steps, request
  <2>4. vouched = NoneVouched /\ NoneVouched' = NoneVouched
    BY <1>1 DEF Inv, Vouching, NoneVouched
  <2>5. Vouching'
    BY <1>1, <2>1, <2>3, <2>4 DEF Vouching, NoneVouched, Resting
  <2>6. Admitted' /\ SourceThere'
    BY <1>1, <2>1, <2>3 DEF Inv, InAction, Admitted, SourceThere, Resting, From
  <2>7. Copying'
    BY <1>1, <2>1, <2>3 DEF Copying, From, FilesIn
  <2>8. Verifying' /\ Removing' /\ RollingBack' /\ Finishing'
    BY <1>1, <2>1, <2>3 DEF Verifying, Removing, RollingBack, Finishing
  <2>. QED  BY <1>1, <2>3, <2>5, <2>6, <2>7, <2>8 DEF Inv, InAction, Shapes
<1>. QED  BY <1>2, <1>3

LEMMA CopyEntryKeeps ==
  ASSUME Inv, NEW e \in Entries, CopyEntry(e)
  PROVE  Inv'
<1>1. /\ step = "copy" /\ e \in left /\ step' = "copy" /\ left' = left \ {e}
      /\ UNCHANGED <<plan, options, planOk, existed, vouched, lapses, writes, results, now>>
      /\ To.kind \in {"none", From.kind} /\ (Works \/ Fails)
  BY DEF CopyEntry, GoOn, Carrying, request, From, To
<1>2. Action \in [kind : Kinds, from : Locations, to : Locations, dangerous : BOOLEAN, elevation : BOOLEAN] /\ Action.from # Action.to
  BY <1>1, InHand DEF Inv
<1>3. PICK c \in Contents : tree' = [tree EXCEPT ![Action.to] = [Made(@) EXCEPT !.files[e] = c]]
  BY DEF CopyEntry
<1>4. /\ From.kind = IF IsDirectoryAction(Action.kind) THEN "directory" ELSE "file"
      /\ From.files[e] # Absent /\ Action.kind # "rename_file"
  BY <1>1 DEF Inv, InAction, SourceThere, Copying, FilesIn, From
<1>5. /\ tree' \in [Locations -> Tree] /\ \A l \in Locations \ {Action.to} : tree'[l] = tree[l]
      /\ tree'[Action.to].kind = From.kind /\ tree'[Action.to].files[e] = c /\ c # Absent
      /\ \A f \in Entries \ {e} : tree'[Action.to].files[f] = To.files[f]
  <2>1. tree[Action.to] \in Tree /\ tree[Action.from] \in Tree /\ c \in Contents \cup {Absent}
    BY <1>2 DEF Inv, TypeOK
  <2>2. [Made(tree[Action.to]) EXCEPT !.files[e] = c] \in Tree
    BY <2>1 DEF Made, Tree
  <2>. QED  BY <1>2, <1>3, <2>1, <2>2, MigrationAssumption DEF Inv, TypeOK, Tree, Made, From, To
<1>6. TypeOK' /\ Action' = Action /\ options' = options
  BY <1>1, <1>5, GoOnTypes, CountsStay DEF Inv, TypeOK, Steps, request
<1>7. Shapes'
  <2>1. WellFormed(tree[Action.to]) /\ WellFormed(tree[Action.from])
    BY <1>2 DEF Inv, Shapes
  <2>2. WellFormed(tree'[Action.to])
    BY <1>1, <1>4, <1>5, <2>1 DEF WellFormed, From, To
  <2>. QED  BY <1>5, <2>2 DEF Inv, Shapes
<1>8. From' = From /\ To' = tree'[Action.to]
  BY <1>2, <1>5, <1>6 DEF From, To
<1>9. Vouching'
  BY <1>1, <1>6 DEF Inv, Vouching, Resting, NoneVouched
<1>10. Admitted' /\ SourceThere'
  BY <1>1, <1>6, <1>8 DEF Inv, InAction, Admitted, SourceThere, Resting
<1>11. Copying'
  BY <1>1, <1>2, <1>4, <1>5, <1>6, <1>8 DEF Inv, InAction, Copying, FilesIn, From, To
<1>12. Verifying' /\ Removing' /\ RollingBack' /\ Finishing'
  BY <1>1 DEF Verifying, Removing, RollingBack, Finishing
<1>. QED  BY <1>6, <1>7, <1>9, <1>10, <1>11, <1>12 DEF Inv, InAction

LEMMA CopyFailsKeeps ==
  ASSUME Inv, CopyFails
  PROVE  Inv'
BY ReportKeeps, CountsStay DEF CopyFails, Inv, TypeOK, Shapes, States, Rollbacks, request

\* The target becomes what the source is; after a copy nothing is missing.
LEMMA CopyDoneKeeps ==
  ASSUME Inv, CopyDone
  PROVE  Inv'
<1>1. /\ step = "copy" /\ left = {} /\ Works
      /\ UNCHANGED <<plan, options, planOk, existed, vouched, lapses, writes, results, now>>
      /\ To.kind \in {"none", From.kind}
      /\ tree' = [tree EXCEPT ![Action.to] = Made(@)]
      /\ step' = IF IsDirectoryAction(Action.kind) THEN "verify" ELSE "finish"
      /\ left' = IF IsDirectoryAction(Action.kind) THEN FilesIn(Action.from) ELSE {}
  BY DEF CopyDone, GoOn, Carrying, request, From, To
<1>2. Action \in [kind : Kinds, from : Locations, to : Locations, dangerous : BOOLEAN, elevation : BOOLEAN] /\ Action.from # Action.to
  BY <1>1, InHand DEF Inv
<1>4. /\ From.kind = IF IsDirectoryAction(Action.kind) THEN "directory" ELSE "file"
      /\ Action.kind # "rename_file" /\ IsFileAction(Action.kind)
      /\ \A e \in Entries : From.files[e] # Absent => To.files[e] # Absent
  BY <1>1 DEF Inv, InAction, SourceThere, Copying, Admitted, Resting
<1>5. /\ tree' \in [Locations -> Tree] /\ \A l \in Locations \ {Action.to} : tree'[l] = tree[l]
      /\ tree'[Action.to].kind = From.kind /\ tree'[Action.to].files = To.files
  BY <1>1, <1>2 DEF Inv, TypeOK, Tree, Made, From, To
<1>6. TypeOK' /\ Action' = Action /\ options' = options
  <2>1. left' \subseteq Entries
    BY <1>1 DEF FilesIn
  <2>. QED  BY <1>1, <1>5, <2>1, GoOnTypes, CountsStay DEF Inv, TypeOK, Steps, request
<1>7. Shapes'
  <2>1. WellFormed(tree[Action.to]) /\ WellFormed(tree[Action.from])
    BY <1>2 DEF Inv, Shapes
  <2>2. WellFormed(tree'[Action.to])
    BY <1>1, <1>4, <1>5, <2>1, MigrationAssumption DEF WellFormed, From, To
  <2>. QED  BY <1>5, <2>2 DEF Inv, Shapes
<1>8. From' = From /\ To' = tree'[Action.to]
  BY <1>2, <1>5, <1>6 DEF From, To
<1>9. Vouching'
  <2>1. vouched' = NoneVouched /\ NoneVouched' = NoneVouched
    BY <1>1 DEF Inv, Vouching, NoneVouched
  <2>. QED  BY <1>1, <2>1 DEF Vouching, NoneVouched, Resting
<1>10. Admitted' /\ SourceThere'
  BY <1>1, <1>6, <1>8 DEF Inv, InAction, Admitted, SourceThere, Resting
<1>11. Copying' /\ Verifying'
  BY <1>1, <1>2, <1>4, <1>5, <1>6, <1>8 DEF Copying, Verifying, FilesIn, From, To
<1>12. Removing' /\ RollingBack'
  BY <1>1 DEF Removing, RollingBack
<1>13. Finishing'
  BY <1>1, <1>2, <1>4, <1>5, <1>6 DEF Finishing, Exists, IsMoveAction, IsDirectoryAction, Kinds
<1>. QED  BY <1>6, <1>7, <1>9, <1>10, <1>11, <1>12, <1>13 DEF Inv, InAction

LEMMA VerifyEntryKeeps ==
  ASSUME Inv, NEW e \in Entries, VerifyEntry(e)
  PROVE  Inv'
<1>1. /\ step = "verify" /\ e \in left /\ Works
      /\ UNCHANGED <<tree, plan, options, planOk, existed, lapses, writes>>
  BY DEF VerifyEntry, request
<1>2. Action \in [kind : Kinds, from : Locations, to : Locations, dangerous : BOOLEAN, elevation : BOOLEAN]
  BY <1>1, InHand DEF Inv
<1>3. CASE ~SameEntry(e)
  <2>1. \E s \in {"partially_executed", "blocked"} : Report(s, "unavailable")
    BY <1>3 DEF VerifyEntry
  <2>. QED  BY <1>1, <2>1, ReportKeeps, CountsStay DEF Inv, TypeOK, Shapes, States, Rollbacks, request
<1>4. CASE SameEntry(e)
  <2>1. /\ vouched' = [vouched EXCEPT ![e] = From.files[e]] /\ step' = "verify" /\ left' = left \ {e}
        /\ UNCHANGED <<results, now>> /\ To.files[e] = From.files[e]
    BY <1>4 DEF VerifyEntry, GoOn, Carrying, SameEntry, From, To
  <2>2. vouched' \in [Entries -> Contents \cup {Absent}]
    BY <1>2, <2>1 DEF Inv, TypeOK, Tree, From
  <2>3. TypeOK' /\ Action' = Action /\ options' = options
    BY <1>1, <2>1, <2>2, GoOnTypes, CountsStay DEF Inv, TypeOK, Steps, request
  <2>4. From' = From /\ To' = To
    BY <1>1, <2>3 DEF From, To
  <2>5. vouched'[e] = From.files[e] /\ \A f \in Entries \ {e} : vouched'[f] = vouched[f]
    BY <2>1 DEF Inv, TypeOK
  <2>6. Vouching'
    BY <1>1, <2>1, <2>3, <2>4, <2>5 DEF Inv, Vouching, Resting, InAction, Copying
  <2>7. Admitted' /\ SourceThere'
    BY <1>1, <2>1, <2>3, <2>4 DEF Inv, InAction, Admitted, SourceThere, Resting
  <2>8. Copying' /\ Verifying'
    BY <1>1, <2>1, <2>3, <2>4, <2>5 DEF Inv, InAction, Copying, Verifying, FilesIn
  <2>9. Removing' /\ RollingBack' /\ Finishing'
    BY <2>1 DEF Removing, RollingBack, Finishing
  <2>. QED  BY <1>1, <2>3, <2>6, <2>7, <2>8, <2>9 DEF Inv, InAction, Shapes
<1>. QED  BY <1>3, <1>4

LEMMA VerifyDoneKeeps ==
  ASSUME Inv, VerifyDone
  PROVE  Inv'
<1>1. /\ step = "verify" /\ (Works \/ Fails) /\ (left = {} \/ "scan" \in lapses') /\ lapses' \subseteq Lapses
      /\ UNCHANGED <<tree, plan, options, planOk, existed, vouched, writes, results, now>>
      /\ step' = IF IsMoveAction(Action.kind) THEN "remove" ELSE "finish"
      /\ left' = FilesIn(Action.from)
  BY DEF VerifyDone, GoOn, Carrying, request, Inv, TypeOK, Lapses
<1>2. left' \subseteq Entries
  BY <1>1 DEF FilesIn
<1>3. TypeOK' /\ Action' = Action /\ options' = options
  BY <1>1, <1>2, GoOnTypes, CountsStay DEF Inv, TypeOK, Steps, request
<1>4. From' = From /\ To' = To
  BY <1>1, <1>3 DEF From, To
<1>5. /\ IsDirectoryAction(Action.kind) /\ To.kind = "directory"
      /\ left = {} => \A e \in Entries : From.files[e] # Absent => vouched[e] = From.files[e]
      /\ \A e \in Entries : vouched[e] # Absent => To.files[e] = vouched[e]
  BY <1>1 DEF Inv, InAction, Verifying, Vouching
<1>6. Vouching'
  BY <1>1, <1>3, <1>4, <1>5 DEF Inv, Vouching, Resting, InAction, Copying
<1>7. Admitted' /\ SourceThere'
  BY <1>1, <1>3, <1>4 DEF Inv, InAction, Admitted, SourceThere, Resting
<1>8. Copying' /\ Verifying' /\ RollingBack'
  BY <1>1 DEF Copying, Verifying, RollingBack
<1>9. Removing'
  BY <1>1, <1>3, <1>4, <1>5 DEF Removing, IsMoveAction
<1>10. Finishing'
  BY <1>1, <1>3, <1>4, <1>5 DEF Finishing, Exists, To
<1>. QED  BY <1>1, <1>3, <1>6, <1>7, <1>8, <1>9, <1>10 DEF Inv, InAction, Shapes

LEMMA RenameFileKeeps ==
  ASSUME Inv, RenameFile
  PROVE  Inv'
<1>1. /\ step = "remove" /\ Action.kind = "rename_file" /\ Works
      /\ UNCHANGED <<plan, options, planOk, existed, vouched, lapses, writes, results, now>>
      /\ tree' = [tree EXCEPT ![Action.to] = tree[Action.from], ![Action.from] = Nothing]
      /\ step' = "finish" /\ left' = {}
  BY DEF RenameFile, GoOn, Carrying, request
<1>2. Action \in [kind : Kinds, from : Locations, to : Locations, dangerous : BOOLEAN, elevation : BOOLEAN] /\ Action.from # Action.to
  BY <1>1, InHand DEF Inv
<1>3. /\ tree' \in [Locations -> Tree] /\ tree'[Action.to] = From /\ tree'[Action.from] = Nothing
      /\ \A l \in Locations \ {Action.from, Action.to} : tree'[l] = tree[l]
  BY <1>1, <1>2 DEF Inv, TypeOK, Tree, Nothing, From
<1>4. TypeOK' /\ Action' = Action /\ options' = options
  BY <1>1, <1>3, GoOnTypes, CountsStay DEF Inv, TypeOK, Steps, request
<1>5. From.kind = "file"
  BY <1>1 DEF Inv, InAction, SourceThere, IsDirectoryAction
<1>6. Shapes'
  BY <1>2, <1>3 DEF Inv, Shapes, WellFormed, Nothing, From
<1>7. Vouching'
  <2>1. vouched' = NoneVouched /\ NoneVouched' = NoneVouched
    BY <1>1 DEF Inv, Vouching, Resting, NoneVouched
  <2>. QED  BY <1>1, <2>1 DEF Vouching, NoneVouched, Resting
<1>8. Admitted' /\ Finishing'
  BY <1>1, <1>2, <1>3, <1>4, <1>5 DEF Inv, InAction, Admitted, Resting, Finishing, Exists, Nothing
<1>9. SourceThere' /\ Copying' /\ Verifying' /\ Removing' /\ RollingBack'
  BY <1>1 DEF SourceThere, Copying, Verifying, Removing, RollingBack
<1>. QED  BY <1>4, <1>6, <1>7, <1>8, <1>9 DEF Inv, InAction

LEMMA RemoveEntryKeeps ==
  ASSUME Inv, NEW e \in Entries, RemoveEntry(e)
  PROVE  Inv'
<1>1. /\ step = "remove" /\ Action.kind = "move_directory" /\ Works /\ Put(Action.from, e, Absent)
      /\ UNCHANGED <<plan, options, planOk, existed, vouched, lapses, writes, results, now>>
      /\ step' = "remove" /\ left' = left \ {e}
  BY DEF RemoveEntry, GoOn, Carrying, request
<1>2. Action \in [kind : Kinds, from : Locations, to : Locations, dangerous : BOOLEAN, elevation : BOOLEAN] /\ Action.from # Action.to
  BY <1>1, InHand DEF Inv
<1>3. /\ tree' \in [Locations -> Tree]
      /\ tree'[Action.from].kind = From.kind /\ tree'[Action.from].files[e] = Absent
      /\ \A f \in Entries \ {e} : tree'[Action.from].files[f] = From.files[f]
      /\ \A l \in Locations \ {Action.from} : tree'[l] = tree[l]
  BY <1>1, <1>2, PutEffect DEF Inv, From
<1>4. TypeOK' /\ Action' = Action /\ options' = options
  BY <1>1, <1>3, GoOnTypes, CountsStay DEF Inv, TypeOK, Steps, request
<1>5. From' = tree'[Action.from] /\ To' = To
  BY <1>2, <1>3, <1>4 DEF From, To
<1>6. From.kind = "directory"
  BY <1>1 DEF Inv, InAction, SourceThere, IsDirectoryAction
<1>7. Shapes'
  BY <1>3, <1>6 DEF Inv, Shapes, WellFormed, From
<1>8. Vouching'
  BY <1>1, <1>4, <1>5 DEF Inv, Vouching, Resting
<1>9. Admitted' /\ SourceThere'
  BY <1>1, <1>3, <1>4, <1>5 DEF Inv, InAction, Admitted, SourceThere, Resting
<1>10. Removing'
  BY <1>1, <1>3, <1>4, <1>5 DEF Inv, InAction, Removing
<1>11. Copying' /\ Verifying' /\ RollingBack' /\ Finishing'
  BY <1>1 DEF Copying, Verifying, RollingBack, Finishing
<1>. QED  BY <1>4, <1>7, <1>8, <1>9, <1>10, <1>11 DEF Inv, InAction

LEMMA RemoveDoneKeeps ==
  ASSUME Inv, RemoveDone
  PROVE  Inv'
<1>1. /\ step = "remove" /\ Action.kind = "move_directory" /\ Works
      /\ UNCHANGED <<plan, options, planOk, existed, vouched, lapses, writes, results, now>>
      /\ tree' = [tree EXCEPT ![Action.from] = Nothing]
      /\ step' = "finish" /\ left' = {}
  BY DEF RemoveDone, GoOn, Carrying, request
<1>2. Action \in [kind : Kinds, from : Locations, to : Locations, dangerous : BOOLEAN, elevation : BOOLEAN] /\ Action.from # Action.to
  BY <1>1, InHand DEF Inv
<1>3. /\ tree' \in [Locations -> Tree] /\ tree'[Action.from] = Nothing
      /\ \A l \in Locations \ {Action.from} : tree'[l] = tree[l]
  BY <1>1, <1>2 DEF Inv, TypeOK, Tree, Nothing
<1>4. TypeOK' /\ Action' = Action /\ options' = options
  BY <1>1, <1>3, GoOnTypes, CountsStay DEF Inv, TypeOK, Steps, request
<1>5. To' = To /\ To.kind = "directory"
  BY <1>1, <1>2, <1>3, <1>4 DEF Inv, InAction, Removing, To
<1>6. Shapes'
  BY <1>3 DEF Inv, Shapes, WellFormed, Nothing
<1>7. Vouching'
  BY <1>1, <1>4, <1>5 DEF Inv, Vouching, Resting
<1>8. Admitted' /\ Finishing'
  BY <1>1, <1>2, <1>3, <1>4, <1>5 DEF Inv, InAction, Admitted, Resting, Finishing, Exists, Nothing, To
<1>9. SourceThere' /\ Copying' /\ Verifying' /\ Removing' /\ RollingBack'
  BY <1>1 DEF SourceThere, Copying, Verifying, Removing, RollingBack
<1>. QED  BY <1>4, <1>6, <1>7, <1>8, <1>9 DEF Inv, InAction

\* A failed cleanup: the target is rolled back only when it was made here.
LEMMA RemoveFailsKeeps ==
  ASSUME Inv, RemoveFails
  PROVE  Inv'
<1>1. /\ step = "remove" /\ Action.kind = "move_directory" /\ Fails /\ lapses' = lapses \cup {"cleanup"}
      /\ UNCHANGED <<tree, plan, options, planOk, existed, writes>>
  BY DEF RemoveFails, request
<1>4. lapses' \subseteq Lapses
  BY <1>1 DEF Inv, TypeOK, Lapses
<1>2. CASE ~RollbackAvailable
  BY <1>1, <1>2, <1>4, ReportKeeps, CountsStay DEF RemoveFails, Inv, TypeOK, Shapes, States, Rollbacks, request
<1>3. CASE RollbackAvailable
  <2>1. step' = "rollback" /\ left' = FilesIn(Action.to) /\ UNCHANGED <<results, now, vouched>>
    BY <1>3 DEF RemoveFails, GoOn, Carrying
  <2>2. left' \subseteq Entries
    BY <2>1 DEF FilesIn
  <2>3. TypeOK' /\ Action' = Action /\ options' = options
    BY <1>1, <1>4, <2>1, <2>2, GoOnTypes, CountsStay DEF Inv, TypeOK, Steps, request
  <2>4. Vouching' /\ Admitted'
    BY <1>1, <2>1, <2>3 DEF Inv, Vouching, InAction, Admitted, Resting
  <2>5. RollingBack'
    BY <1>1, <1>3, <2>1, <2>3 DEF Inv, InAction, Removing, RollingBack, RollbackAvailable, To
  <2>6. SourceThere' /\ Copying' /\ Verifying' /\ Removing' /\ Finishing'
    BY <2>1 DEF SourceThere, Copying, Verifying, Removing, Finishing
  <2>. QED  BY <1>1, <2>3, <2>4, <2>5, <2>6 DEF Inv, InAction, Shapes
<1>. QED  BY <1>2, <1>3

LEMMA RollbackEntryKeeps ==
  ASSUME Inv, NEW e \in Entries, RollbackEntry(e)
  PROVE  Inv'
<1>1. /\ step = "rollback" /\ Works /\ Put(Action.to, e, Absent)
      /\ UNCHANGED <<plan, options, planOk, existed, vouched, lapses, writes, results, now>>
      /\ step' = "rollback" /\ left' = left \ {e}
  BY DEF RollbackEntry, GoOn, Carrying, request
<1>2. Action \in [kind : Kinds, from : Locations, to : Locations, dangerous : BOOLEAN, elevation : BOOLEAN]
  BY <1>1, InHand DEF Inv
<1>3. /\ tree' \in [Locations -> Tree]
      /\ tree'[Action.to].kind = To.kind /\ tree'[Action.to].files[e] = Absent
      /\ \A l \in Locations \ {Action.to} : tree'[l] = tree[l]
  BY <1>1, <1>2, PutEffect DEF Inv, To
<1>4. TypeOK' /\ Action' = Action /\ options' = options
  BY <1>1, <1>3, GoOnTypes, CountsStay DEF Inv, TypeOK, Steps, request
<1>5. ~existed /\ Action.kind = "move_directory" /\ To.kind = "directory"
  BY <1>1 DEF Inv, InAction, RollingBack
<1>6. Shapes'
  BY <1>3, <1>5 DEF Inv, Shapes, WellFormed, To
<1>7. Vouching' /\ Admitted' /\ RollingBack'
  BY <1>1, <1>3, <1>4, <1>5 DEF Inv, InAction, Vouching, Admitted, Resting, RollingBack, To
<1>8. SourceThere' /\ Copying' /\ Verifying' /\ Removing' /\ Finishing'
  BY <1>1 DEF SourceThere, Copying, Verifying, Removing, Finishing
<1>. QED  BY <1>4, <1>6, <1>7, <1>8 DEF Inv, InAction

\* The ways an action ends without another change than the rolled back target.
LEMMA EndsKeep ==
  ASSUME Inv, VerifyFails \/ RenameFails \/ RollbackDone \/ RollbackFails \/ Finish
  PROVE  Inv'
<1>1. step # "done" /\ (Fails \/ Works) /\ UNCHANGED <<request, existed, lapses, writes>>
  BY DEF VerifyFails, RenameFails, RollbackDone, RollbackFails, Finish
<1>2. \E s \in States, r \in Rollbacks : Report(s, r)
  BY DEF VerifyFails, RenameFails, RollbackDone, RollbackFails, Finish, States, Rollbacks
<1>3. tree' \in [Locations -> Tree] /\ Shapes'
  <2>1. CASE tree' = tree
    BY <2>1 DEF Inv, TypeOK, Shapes
  <2>2. CASE RollbackDone
    <3>1. tree' = [tree EXCEPT ![Action.to] = Nothing] /\ Nothing \in Tree /\ WellFormed(Nothing)
      BY <2>2 DEF RollbackDone, Nothing, Tree, WellFormed
    <3>. QED  BY <3>1 DEF Inv, TypeOK, Shapes
  <2>. QED  BY <2>1, <2>2 DEF VerifyFails, RenameFails, RollbackFails, Finish
<1>. QED  BY <1>1, <1>2, <1>3, ReportKeeps, CountsStay DEF Inv, TypeOK

\* What the owner writes is not yet verified.
LEMMA OwnerKeeps ==
  ASSUME Inv, NEW loc \in Locations, NEW e \in Entries, NEW c \in Contents, OwnerWrites(loc, e, c)
  PROVE  Inv'
<1>1. /\ step \in {"planning", "check", "parents", "copy", "verify"} /\ loc = Action.from
      /\ tree[loc].files[e] # Absent /\ vouched[e] = Absent /\ Put(loc, e, c)
      /\ writes < MaxWrites /\ writes' = writes + 1
      /\ UNCHANGED <<plan, options, planOk, step, now, left, existed, vouched, results, lapses, mishaps>>
  BY DEF OwnerWrites, request
<1>2. Action \in [kind : Kinds, from : Locations, to : Locations, dangerous : BOOLEAN, elevation : BOOLEAN] /\ Action.from # Action.to
  BY <1>1, InHand DEF Inv
<1>3. /\ tree' \in [Locations -> Tree] /\ c # Absent
      /\ tree'[Action.from].kind = From.kind /\ tree'[Action.from].files[e] = c
      /\ \A f \in Entries \ {e} : tree'[Action.from].files[f] = From.files[f]
      /\ \A l \in Locations \ {Action.from} : tree'[l] = tree[l]
  BY <1>1, PutEffect, MigrationAssumption DEF Inv, From
<1>4. TypeOK' /\ Action' = Action /\ options' = options
  BY <1>1, <1>3, MigrationAssumption DEF Inv, TypeOK, Action
<1>5. From' = tree'[Action.from] /\ To' = To
  BY <1>2, <1>3, <1>4 DEF From, To
<1>6. Shapes'
  BY <1>1, <1>3 DEF Inv, Shapes, WellFormed, From
<1>7. Vouching'
  <2>1. vouched' = vouched /\ NoneVouched' = NoneVouched /\ Resting' = Resting /\ step' = step
    BY <1>1 DEF NoneVouched, Resting
  <2>. QED  BY <1>4, <1>5, <2>1 DEF Inv, Vouching
<1>8. Admitted' /\ SourceThere'
  BY <1>1, <1>3, <1>4, <1>5 DEF Inv, InAction, Admitted, SourceThere, Resting
<1>9. Copying'
  BY <1>1, <1>3, <1>4, <1>5 DEF Inv, InAction, Copying, FilesIn, From
<1>10. Verifying'
  BY <1>1, <1>3, <1>4, <1>5 DEF Inv, InAction, Verifying, From
<1>11. Removing' /\ RollingBack' /\ Finishing'
  BY <1>1 DEF Removing, RollingBack, Finishing
<1>. QED  BY <1>4, <1>6, <1>7, <1>8, <1>9, <1>10, <1>11 DEF Inv, InAction

LEMMA InvStep == Inv /\ [Next]_vars => Inv'
<1> SUFFICES ASSUME Inv, [Next]_vars PROVE Inv'
  OBVIOUS
<1>1. CASE UNCHANGED vars
  BY <1>1 DEF vars, Inv, TypeOK, Shapes, Vouching, Resting, NoneVouched, InAction, Admitted, SourceThere, Copying,
     Verifying, Removing, RollingBack, Finishing, From, To, Action, Exists, FilesIn
<1>2. CASE PlanMigration \/ Check \/ Parents \/ CopyFails \/ CopyDone \/ VerifyDone
  BY <1>2, PlanKeeps, CheckKeeps, ParentsKeeps, CopyFailsKeeps, CopyDoneKeeps, VerifyDoneKeeps
<1>3. CASE VerifyFails \/ RenameFile \/ RenameFails \/ RemoveDone \/ RemoveFails \/ RollbackDone \/ RollbackFails \/ Finish
  BY <1>3, RenameFileKeeps, EndsKeep, RemoveDoneKeeps, RemoveFailsKeeps
<1>4. CASE \E e \in Entries : CopyEntry(e) \/ VerifyEntry(e) \/ RemoveEntry(e) \/ RollbackEntry(e)
  BY <1>4, CopyEntryKeeps, VerifyEntryKeeps, RemoveEntryKeeps, RollbackEntryKeeps
<1>5. CASE \E loc \in Locations, e \in Entries, content \in Contents : OwnerWrites(loc, e, content)
  BY <1>5, OwnerKeeps
<1>. QED  BY <1>1, <1>2, <1>3, <1>4, <1>5 DEF Next
-----------------------------------------------------------------------------
\* What a step may change: the target, by copying, renaming and rolling back;
\* the source, by renaming, removing and the owner.
LEMMA Changes ==
  ASSUME Inv, [Next]_vars
  PROVE  \/ tree' = tree
         \/ \E e \in Entries : CopyEntry(e) \/ RemoveEntry(e) \/ RollbackEntry(e)
         \/ CopyDone \/ RenameFile \/ RemoveDone \/ RollbackDone
         \/ \E loc \in Locations, e \in Entries, content \in Contents : OwnerWrites(loc, e, content)
BY DEF Next, vars, PlanMigration, Check, Parents, CopyFails, VerifyFails, VerifyDone, RenameFails, RemoveFails, RollbackFails,
   Finish, VerifyEntry

LEMMA KeepsContentStep ==
  ASSUME Inv, [Next]_vars, NEW e \in Entries, lapses = {}, step \in {"copy", "verify", "remove", "rollback"},
         From.files[e] # Absent, tree'[Action.from].files[e] = Absent
  PROVE  tree'[Action.to].files[e] = From.files[e]
<1>1. Action \in [kind : Kinds, from : Locations, to : Locations, dangerous : BOOLEAN, elevation : BOOLEAN] /\ Action.from # Action.to
  BY InHand DEF Inv
<1>2. CASE tree' = tree
  BY <1>2 DEF From
<1>3. CASE CopyDone \/ RollbackDone \/ \E f \in Entries : CopyEntry(f) \/ RollbackEntry(f)
  <2>1. \E t : tree' = [tree EXCEPT ![Action.to] = t]
    BY <1>3 DEF CopyDone, RollbackDone, CopyEntry, RollbackEntry, Put
  <2>2. tree'[Action.from] = tree[Action.from]
    BY <1>1, <2>1 DEF Inv, TypeOK
  <2>. QED  BY <2>2 DEF From
<1>4. CASE \E f \in Entries : RemoveEntry(f)
  <2>1. PICK f \in Entries : RemoveEntry(f)
    BY <1>4
  <2>2. step = "remove" /\ Action.kind = "move_directory" /\ Put(Action.from, f, Absent)
    BY <2>1 DEF RemoveEntry
  <2>3. tree'[Action.to] = tree[Action.to]
    BY <1>1, <2>2, PutEffect DEF Inv
  <2>. QED  BY <2>2, <2>3 DEF Inv, InAction, Removing, To
<1>5. CASE RenameFile
  BY <1>1, <1>5 DEF RenameFile, Inv, TypeOK, From
<1>6. CASE RemoveDone
  BY <1>6 DEF RemoveDone, FilesIn, From
<1>7. CASE \E loc \in Locations, f \in Entries, content \in Contents : OwnerWrites(loc, f, content)
  <2>1. PICK f \in Entries, c \in Contents : Put(Action.from, f, c)
    BY <1>7 DEF OwnerWrites
  <2>. QED  BY <1>1, <2>1, PutEffect, MigrationAssumption DEF Inv, From
<1>. QED  BY <1>2, <1>3, <1>4, <1>5, <1>6, <1>7, Changes

\* Only Finish reports that an action was executed.
LEMMA ReportsLast ==
  ASSUME Inv, NEW s \in States, NEW r \in Rollbacks, Report(s, r)
  PROVE  Len(results') = Len(results) + 1 /\ results'[Len(results')].state = s
<1>1. results \in Seq([state : States, rollback : Rollbacks])
  BY DEF Inv, TypeOK
<1>2. results' = Append(results, [state |-> s, rollback |-> r]) /\ [state |-> s, rollback |-> r] \in [state : States, rollback : Rollbacks]
  BY DEF Report
<1>. QED  BY <1>1, <1>2

LEMMA OthersReportNoExecution ==
  ASSUME Inv, [Next]_vars, ~Finish
  PROVE  \/ results' = results
         \/ \E s \in States \ {"executed"}, r \in Rollbacks : Report(s, r)
<1>1. CASE PlanMigration \/ Check \/ Parents \/ CopyFails \/ CopyDone \/ VerifyFails \/ VerifyDone
  BY <1>1 DEF PlanMigration, Check, Parents, CopyFails, CopyDone, VerifyFails, VerifyDone, Carrying, States, Rollbacks
<1>2. CASE RenameFile \/ RenameFails \/ RemoveDone \/ RemoveFails \/ RollbackDone \/ RollbackFails
  BY <1>2 DEF RenameFile, RenameFails, RemoveDone, RemoveFails, RollbackDone, RollbackFails, Carrying, States, Rollbacks
<1>3. CASE \E e \in Entries : CopyEntry(e) \/ VerifyEntry(e) \/ RemoveEntry(e) \/ RollbackEntry(e)
  BY <1>3 DEF CopyEntry, VerifyEntry, RemoveEntry, RollbackEntry, Carrying, States, Rollbacks
<1>4. CASE \E loc \in Locations, e \in Entries, content \in Contents : OwnerWrites(loc, e, content)
  BY <1>4 DEF OwnerWrites
<1>5. CASE UNCHANGED vars
  BY <1>5 DEF vars
<1>. QED  BY <1>1, <1>2, <1>3, <1>4, <1>5 DEF Next

LEMMA ExecutedStep ==
  ASSUME Inv, [Next]_vars, Len(results') > Len(results), results'[Len(results')].state = "executed"
  PROVE  /\ Exists(Action.to)
         /\ IsMoveAction(Action.kind) => ~Exists(Action.from)
         /\ \A e \in Entries : vouched[e] # Absent => tree[Action.to].files[e] = vouched[e]
<1>1. Len(results) \in Nat
  BY DEF Inv, TypeOK
<1>2. Finish
  BY <1>1, OthersReportNoExecution, ReportsLast
<1>3. step = "finish"
  BY <1>2 DEF Finish
<1>. QED  BY <1>3 DEF Inv, InAction, Finishing, Vouching, To

LEMMA TargetKeptStep ==
  ASSUME Inv, [Next]_vars, step # "check", existed, NEW e \in Entries, To.files[e] # Absent,
         tree'[Action.to].files[e] # To.files[e]
  PROVE  options.overwriteExisting /\ tree'[Action.to].files[e] # Absent
<1>1. step # "done"
  BY Changes DEF To, CopyEntry, RemoveEntry, RollbackEntry, CopyDone, RenameFile, RemoveDone, RollbackDone, OwnerWrites
<1>2. Action \in [kind : Kinds, from : Locations, to : Locations, dangerous : BOOLEAN, elevation : BOOLEAN] /\ Action.from # Action.to
  BY <1>1, InHand DEF Inv
<1>3. CASE RemoveDone \/ (\E f \in Entries : RemoveEntry(f))
           \/ \E loc \in Locations, f \in Entries, content \in Contents : OwnerWrites(loc, f, content)
  <2>1. \E t : tree' = [tree EXCEPT ![Action.from] = t]
    BY <1>3 DEF RemoveDone, RemoveEntry, OwnerWrites, Put
  <2>. QED  BY <1>2, <2>1 DEF Inv, TypeOK, To
<1>4. CASE RollbackDone \/ \E f \in Entries : RollbackEntry(f)
  BY <1>4 DEF RollbackDone, RollbackEntry, Inv, InAction, RollingBack
<1>5. CASE CopyDone
  <2>1. tree'[Action.to].files = To.files
    BY <1>2, <1>5 DEF CopyDone, Made, Inv, TypeOK, Tree, To
  <2>. QED  BY <2>1
<1>6. CASE \E f \in Entries : CopyEntry(f)
  <2>1. PICK f \in Entries, c \in Contents :
          step = "copy" /\ tree' = [tree EXCEPT ![Action.to] = [Made(@) EXCEPT !.files[f] = c]]
    BY <1>6 DEF CopyEntry
  <2>2. tree'[Action.to].files[e] \in {c, To.files[e]} /\ c # Absent
    BY <1>2, <2>1, MigrationAssumption DEF Made, Inv, TypeOK, Tree, To
  <2>3. options.overwriteExisting
    BY <2>1 DEF Inv, InAction, Admitted, Resting
  <2>. QED  BY <2>2, <2>3
<1>7. CASE RenameFile
  <2>1. /\ step = "remove" /\ Action.kind = "rename_file" /\ To.kind \in {"none", "file", "link"}
        /\ tree'[Action.to] = From
    BY <1>2, <1>7 DEF RenameFile, Inv, TypeOK, From, To
  <2>2. options.overwriteExisting /\ From.kind = "file"
    BY <2>1 DEF Inv, InAction, Admitted, SourceThere, IsDirectoryAction, Resting
  <2>3. WellFormed(From) /\ WellFormed(To)
    BY <1>2 DEF Inv, Shapes, From, To
  <2>. QED  BY <2>1, <2>2, <2>3 DEF WellFormed
<1>. QED  BY <1>3, <1>4, <1>5, <1>6, <1>7, Changes DEF To
-----------------------------------------------------------------------------
\* Inv holds in every state: it is what the theorems below take from the past.
THEOREM InvHolds == Spec => []Inv
BY InitInv, InvStep, PTL DEF Spec

\* Until a cleanup has failed or a verification was cut short by an error of
\* its walk, an entry leaves the source only when its
\* content is in the target (execute_file_action): the copy is verified
\* against the source as the removal will find it.
THEOREM NoContentIsLost == Spec => KeepsContent
<1>1. Inv /\ [Next]_vars =>
        [\A e \in Entries :
           LET from == Action.from  to == Action.to IN
           /\ lapses = {} /\ step \in {"copy", "verify", "remove", "rollback"}
           /\ tree[from].files[e] # Absent /\ tree'[from].files[e] = Absent
           => tree'[to].files[e] = tree[from].files[e]]_vars
  BY KeepsContentStep DEF From
<1>. QED  BY <1>1, InvHolds, PTL DEF Spec, KeepsContent

\* An action is reported executed only when its target holds what was
\* verified, and for a move when the source is gone.
THEOREM ExecutedIsDone == Spec => ExecutedMeansDone
<1>1. Inv /\ [Next]_vars =>
        [Len(results') > Len(results) /\ results'[Len(results')].state = "executed" =>
           /\ Exists(Action.to)
           /\ IsMoveAction(Action.kind) => ~Exists(Action.from)
           /\ \A e \in Entries : vouched[e] # Absent => tree[Action.to].files[e] = vouched[e]]_vars
  BY ExecutedStep
<1>. QED  BY <1>1, InvHolds, PTL DEF Spec, ExecutedMeansDone

\* A target that was there before the action keeps its entries through every
\* failure and rollback; only overwrite_existing replaces what they hold.
THEOREM OldTargetIsKept == Spec => TargetKept
<1>1. Inv /\ [Next]_vars =>
        [step # "check" /\ existed => \A e \in Entries :
           LET before == tree[Action.to].files[e] IN
           /\ before # Absent
           /\ tree'[Action.to].files[e] # before
           => options.overwriteExisting /\ tree'[Action.to].files[e] # Absent]_vars
  BY TargetKeptStep DEF To
<1>. QED  BY <1>1, InvHolds, PTL DEF Spec, TargetKept

-----------------------------------------------------------------------------
(***************************************************************************)
(* RegistryMigration, for all sets of keys and what they hold, and any     *)
(* number of changes and failures.                                         *)
(***************************************************************************)

(* Paths *)

LEMMA PrefixElements ==
  ASSUME NEW S, NEW s \in Seq(S), NEW t \in Seq(S)
  PROVE  IsPrefix(s, t) <=> Len(s) <= Len(t) /\ \A i \in 1 .. Len(s) : s[i] = t[i]
<1>1. ASSUME Len(s) <= Len(t), SubSeq(s, 1, Len(s)) = SubSeq(t, 1, Len(s)), NEW i \in 1 .. Len(s)
      PROVE  s[i] = t[i]
  <2>1. SubSeq(s, 1, Len(s))[i] = s[i] /\ SubSeq(t, 1, Len(s))[i] = t[i]
    BY <1>1
  <2>. QED  BY <1>1, <2>1
<1>2. ASSUME Len(s) <= Len(t), \A i \in 1 .. Len(s) : s[i] = t[i]
      PROVE  SubSeq(s, 1, Len(s)) = SubSeq(t, 1, Len(s))
  <2>1. SubSeq(s, 1, Len(s)) = [i \in 1 .. Len(s) |-> s[i]] /\ SubSeq(t, 1, Len(s)) = [i \in 1 .. Len(s) |-> t[i]]
    BY <1>2
  <2>. QED  BY <1>2, <2>1
<1>. QED  BY <1>1, <1>2 DEF IsPrefix

LEMMA PrefixIsOrder ==
  ASSUME NEW S, NEW r \in Seq(S), NEW s \in Seq(S), NEW t \in Seq(S)
  PROVE  /\ IsPrefix(s, s)
         /\ IsPrefix(r, s) /\ IsPrefix(s, t) => IsPrefix(r, t)
         /\ IsPrefix(r, t) /\ IsPrefix(s, t) => IsPrefix(r, s) \/ IsPrefix(s, r)
         /\ IsPrefix(r, s) /\ IsPrefix(s, r) => r = s
         /\ IsPrefix(r, s) /\ Len(r) = Len(s) => r = s
         /\ IsPrefix(r, s) => Len(r) <= Len(s)
<1>1. IsPrefix(s, s) /\ (IsPrefix(r, s) => Len(r) <= Len(s))
  BY PrefixElements
<1>2. IsPrefix(r, s) /\ IsPrefix(s, t) => IsPrefix(r, t)
  BY PrefixElements
<1>3. IsPrefix(r, t) /\ IsPrefix(s, t) => IsPrefix(r, s) \/ IsPrefix(s, r)
  BY PrefixElements
<1>4. IsPrefix(r, s) /\ Len(r) = Len(s) => r = s
  <2> SUFFICES ASSUME IsPrefix(r, s), Len(r) = Len(s) PROVE r = s
    OBVIOUS
  <2>1. \A i \in 1 .. Len(r) : r[i] = s[i]
    BY PrefixElements
  <2>. QED  BY <2>1, SeqEqual
<1>5. IsPrefix(r, s) /\ IsPrefix(s, r) => r = s
  BY PrefixElements, <1>4
<1>. QED  BY <1>1, <1>2, <1>3, <1>4, <1>5

\* The elements of a path below a root.
LEMMA ConcatElements ==
  ASSUME NEW S, NEW r \in Seq(S), NEW s \in Seq(S)
  PROVE  /\ r \o s \in Seq(S) /\ Len(r \o s) = Len(r) + Len(s)
         /\ \A i \in 1 .. Len(r) : (r \o s)[i] = r[i]
         /\ \A i \in 1 .. Len(s) : (r \o s)[Len(r) + i] = s[i]
<1>1. /\ r \o s \in Seq(S) /\ Len(r \o s) = Len(r) + Len(s)
      /\ \A i \in 1 .. Len(r) + Len(s) : (r \o s)[i] = IF i <= Len(r) THEN r[i] ELSE s[i - Len(r)]
  BY ConcatProperties
<1>2. Len(r) \in Nat /\ Len(s) \in Nat
  OBVIOUS
<1>3. ASSUME NEW i \in 1 .. Len(r) PROVE (r \o s)[i] = r[i]
  BY <1>1, <1>2
<1>4. ASSUME NEW i \in 1 .. Len(s) PROVE (r \o s)[Len(r) + i] = s[i]
  <2>1. PICK k \in 1 .. Len(r) + Len(s) : k = Len(r) + i /\ k - Len(r) = i /\ ~(k <= Len(r))
    BY <1>2
  <2>. QED  BY <1>1, <2>1
<1>. QED  BY <1>1, <1>3, <1>4

\* Every place in a concatenation is one of either part.
LEMMA PlaceInConcat ==
  \A m, n \in Nat : \A i \in 1 .. m + n : i \in 1 .. m \/ \E k \in 1 .. n : i = m + k
<1>. TAKE m, n \in Nat
<1>. TAKE i \in 1 .. m + n
<1>1. CASE i <= m
  BY <1>1
<1>2. CASE i > m
  <2>1. i - m \in 1 .. n /\ i = m + (i - m)
    BY <1>2
  <2>. QED  BY <2>1
<1>. QED  BY <1>1, <1>2

\* Paths below one root compare as their parts below it do.
LEMMA PrefixBelowRoot ==
  ASSUME NEW S, NEW r \in Seq(S), NEW s \in Seq(S), NEW t \in Seq(S)
  PROVE  /\ r \o s \in Seq(S) /\ Len(r \o s) = Len(r) + Len(s)
         /\ IsPrefix(r, r \o s)
         /\ IsPrefix(r \o s, r \o t) <=> IsPrefix(s, t)
         /\ r \o s = r \o t => s = t
<1> DEFINE u == r \o s  v == r \o t
<1>1. Len(r) \in Nat /\ Len(s) \in Nat /\ Len(t) \in Nat
  OBVIOUS
<1>2. /\ u \in Seq(S) /\ Len(u) = Len(r) + Len(s)
      /\ \A i \in 1 .. Len(r) : u[i] = r[i]
      /\ \A i \in 1 .. Len(s) : u[Len(r) + i] = s[i]
  BY ConcatElements
<1>3. /\ v \in Seq(S) /\ Len(v) = Len(r) + Len(t)
      /\ \A i \in 1 .. Len(r) : v[i] = r[i]
      /\ \A i \in 1 .. Len(t) : v[Len(r) + i] = t[i]
  BY ConcatElements
<1>. HIDE DEF u, v
<1>4. IsPrefix(r, u)
  BY <1>1, <1>2, PrefixElements
<1>5. ASSUME IsPrefix(u, v) PROVE IsPrefix(s, t)
  <2>. \A a, b \in Seq(S) : IsPrefix(a, b) => Len(a) <= Len(b) /\ \A i \in 1 .. Len(a) : a[i] = b[i]
    BY PrefixElements
  <2>0. Len(u) <= Len(v) /\ \A i \in 1 .. Len(u) : u[i] = v[i]
    BY <1>2, <1>3, <1>5
  <2>1. Len(s) <= Len(t) /\ \A i \in 1 .. Len(r) + Len(s) : u[i] = v[i]
    BY <1>1, <1>2, <1>3, <2>0
  <2>2. ASSUME NEW i \in 1 .. Len(s) PROVE s[i] = t[i]
    <3>1. Len(r) + i \in 1 .. Len(r) + Len(s) /\ i \in 1 .. Len(t)
      BY <1>1, <2>1
    <3>. QED  BY <2>1, <1>2, <1>3, <3>1
  <2>. QED  BY <2>1, <2>2, PrefixElements
<1>6. ASSUME IsPrefix(s, t) PROVE IsPrefix(u, v)
  <2>1. Len(s) <= Len(t) /\ \A i \in 1 .. Len(s) : s[i] = t[i]
    BY <1>6, PrefixElements
  <2>2. ASSUME NEW i \in 1 .. Len(u) PROVE u[i] = v[i]
    <3>. i \in 1 .. Len(r) + Len(s)
      BY <1>2
    <3>1. i \in 1 .. Len(r) \/ \E k \in 1 .. Len(s) : i = Len(r) + k
      BY <1>1, PlaceInConcat
    <3>2. \A k \in 1 .. Len(s) : k \in 1 .. Len(t)
      BY <1>1, <2>1
    <3>. QED  BY <1>2, <1>3, <2>1, <3>1, <3>2
  <2>3. Len(u) <= Len(v)
    BY <1>1, <1>2, <1>3, <2>1
  <2>. QED  BY <1>2, <1>3, <2>2, <2>3, PrefixElements
<1>7. ASSUME u = v PROVE s = t
  <2>1. IsPrefix(u, v)
    BY <1>2, <1>7, PrefixIsOrder
  <2>2. IsPrefix(s, t) /\ Len(s) = Len(t)
    BY <1>1, <1>2, <1>3, <1>5, <1>7, <2>1
  <2>. QED  BY <2>2, PrefixIsOrder
<1>8. u = v <=> r \o s = r \o t
  BY DEF u, v
<1>. QED  BY <1>2, <1>4, <1>5, <1>6, <1>7 DEF u, v

\* A path below another is it with a rest.
LEMMA RestBelowRoot ==
  ASSUME NEW S, NEW r \in Seq(S), NEW s \in Seq(S), IsPrefix(r, s)
  PROVE  /\ SubSeq(s, Len(r) + 1, Len(s)) \in Seq(S)
         /\ s = r \o SubSeq(s, Len(r) + 1, Len(s))
<1> DEFINE t == SubSeq(s, Len(r) + 1, Len(s))  u == r \o t
<1>1. Len(r) \in Nat /\ Len(s) \in Nat /\ Len(r) <= Len(s) /\ \A i \in 1 .. Len(r) : r[i] = s[i]
  BY PrefixElements
<1>2. t \in Seq(S) /\ Len(t) = Len(s) - Len(r) /\ \A i \in 1 .. Len(s) - Len(r) : t[i] = s[Len(r) + i]
  BY <1>1
<1>. HIDE DEF t
<1>3. /\ u \in Seq(S) /\ Len(u) = Len(r) + Len(t)
      /\ \A i \in 1 .. Len(r) : u[i] = r[i]
      /\ \A i \in 1 .. Len(t) : u[Len(r) + i] = t[i]
  BY <1>2, ConcatElements
<1>. HIDE DEF u
<1>4. Len(u) = Len(s) /\ Len(t) \in Nat
  BY <1>1, <1>2, <1>3
<1>5. ASSUME NEW i \in 1 .. Len(u) PROVE u[i] = s[i]
  <2>. i \in 1 .. Len(r) + Len(t)
    BY <1>3
  <2>1. i \in 1 .. Len(r) \/ \E k \in 1 .. Len(t) : i = Len(r) + k
    BY <1>1, <1>4, PlaceInConcat
  <2>. QED  BY <1>1, <1>2, <1>3, <2>1
<1>6. u = s
  BY <1>3, <1>4, <1>5, SeqEqual
<1>. QED  BY <1>2, <1>6 DEF t, u

\* The path one name longer that leads to a path below it.
LEMMA NameBelow ==
  ASSUME NEW S, NEW r \in Seq(S), NEW s \in Seq(S), IsPrefix(r, s), r # s
  PROVE  /\ Len(r) + 1 <= Len(s)
         /\ Append(r, s[Len(r) + 1]) \in Seq(S)
         /\ IsPrefix(Append(r, s[Len(r) + 1]), s)
<1>1. Len(r) + 1 <= Len(s)
  BY PrefixElements, PrefixIsOrder
<1>2. \A i \in 1 .. Len(r) : r[i] = s[i]
  BY PrefixElements
<1>3. PICK x \in S : x = s[Len(r) + 1]
  BY <1>1
<1>4. Append(r, x) \in Seq(S) /\ Len(Append(r, x)) = Len(r) + 1
      /\ \A i \in 1 .. Len(r) + 1 : Append(r, x)[i] = IF i <= Len(r) THEN r[i] ELSE x
  OBVIOUS
<1>5. \A i \in 1 .. Len(r) + 1 : Append(r, x)[i] = s[i]
  BY <1>2, <1>3, <1>4
<1>6. IsPrefix(Append(r, x), s)
  BY <1>1, <1>4, <1>5, PrefixElements
<1>. QED  BY <1>1, <1>3, <1>4, <1>6

LEMMA FrontIsBefore ==
  ASSUME NEW S, NEW s \in Seq(S), Len(s) > 0
  PROVE  Front(s) \in Seq(S) /\ Len(Front(s)) = Len(s) - 1 /\ IsPrefix(Front(s), s)
<1>1. Len(s) \in Nat /\ Len(s) - 1 \in Nat /\ \A i \in 1 .. Len(s) : s[i] \in S
  OBVIOUS
<1>2. /\ SubSeq(s, 1, Len(s) - 1) \in Seq(S) /\ Len(SubSeq(s, 1, Len(s) - 1)) = Len(s) - 1
      /\ \A i \in 1 .. Len(s) - 1 : SubSeq(s, 1, Len(s) - 1)[i] = s[i]
  <2>1. PICK n \in Nat : n = Len(s) - 1
    BY <1>1
  <2>2. \A i \in 1 .. n : s[i] \in S
    BY <1>1, <2>1
  <2>3. SubSeq(s, 1, n) \in Seq(S)
    BY <2>1, <2>2, SubSeqProperties
  <2>4. Len(SubSeq(s, 1, n)) = n /\ \A i \in 1 .. n : SubSeq(s, 1, n)[i] = s[i]
    <3>1. 1 - 1 + n = n /\ \A i \in 1 .. n : 1 + i - 1 = i
      BY <2>1
    <3>. QED  BY <1>1, <2>1, <3>1
  <2>. QED  BY <2>1, <2>3, <2>4
<1>3. Len(s) - 1 <= Len(s)
  BY <1>1
<1>. QED  BY <1>1, <1>2, <1>3, PrefixElements DEF Front

\* The registry: a name is there once in a key, a key below its parent.
Walking == at \in {"opening", "values", "subkeys"}
RegistryShape ==
  /\ \A k \in KeySet : NamesDiffer(store[k]) /\ (store[k] # <<>> => k \in exists)
  /\ \A k \in exists : Len(k) > 1 => Front(k) \in exists
  /\ Walking => work # <<>>
  /\ at = "reading" => got \in RegistryValues /\ \E k \in KeySet : work = <<k>>

-----------------------------------------------------------------------------
(* The numbering of subkeys and of values *)

LEMMA InOrderIsNumbering ==
  ASSUME NEW P, P \subseteq Nat, IsFiniteSet(P)
  PROVE  /\ Cardinality(P) \in Nat
         /\ \A n \in 1 .. Cardinality(P) : InOrder(P)[n] \in P
         /\ \A m, n \in 1 .. Cardinality(P) : InOrder(P)[m] = InOrder(P)[n] => m = n
         /\ \A i \in P : \E n \in 1 .. Cardinality(P) : InOrder(P)[n] = i
<1> DEFINE c == Cardinality(P)
           UpTo(i) == {j \in P : j <= i}
           rank == [i \in P |-> Cardinality(UpTo(i))]
<1>1. c \in Nat
  BY FS_CardinalityType
<1>2. \A i \in P : IsFiniteSet(UpTo(i)) /\ rank[i] \in 1 .. c
  <2> TAKE i \in P
  <2>1. UpTo(i) \in SUBSET P /\ i \in UpTo(i)
    OBVIOUS
  <2>2. IsFiniteSet(UpTo(i)) /\ Cardinality(UpTo(i)) <= c
    BY <2>1, FS_Subset
  <2>3. Cardinality(UpTo(i)) \in Nat /\ Cardinality(UpTo(i)) # 0
    BY <2>1, <2>2, FS_CardinalityType, FS_EmptySet
  <2>. QED  BY <1>1, <2>2, <2>3
<1>3. ASSUME NEW i \in P, NEW j \in P, i < j PROVE rank[i] # rank[j]
  <2>. i \in Nat /\ j \in Nat /\ \A l \in P : l \in Nat
    OBVIOUS
  <2>. \A l \in P : l <= i => l <= j
    BY <1>3
  <2>0. UpTo(i) \subseteq UpTo(j)
    OBVIOUS
  <2>1. UpTo(i) \in SUBSET UpTo(j) /\ j \in UpTo(j) /\ j \notin UpTo(i)
    BY <1>3, <2>0
  <2>2. UpTo(i) # UpTo(j) /\ IsFiniteSet(UpTo(j))
    BY <1>2, <2>1
  <2>. HIDE DEF UpTo
  <2>3. Cardinality(UpTo(j)) # Cardinality(UpTo(i))
    BY <2>1, <2>2, FS_Subset
  <2>. QED  BY <2>3
<1>4. rank \in [P -> 1 .. c]
  BY <1>2
<1>. HIDE DEF rank
<1>5. \A i, j \in P : rank[i] = rank[j] => i = j
  BY <1>3
<1>6. rank \in Injection(P, 1 .. c)
  BY <1>4, <1>5 DEF Injection, IsInjective
<1>7. IsFiniteSet(1 .. c) /\ Cardinality(1 .. c) = c
  BY <1>1, FS_Interval
<1>8. rank \in Surjection(P, 1 .. c)
  BY <1>6, <1>7, FS_Injection
<1>9. \A n \in 1 .. c : \E i \in P : rank[i] = n
  BY <1>8 DEF Surjection
<1>10. \A n \in 1 .. c : InOrder(P)[n] = CHOOSE i \in P : rank[i] = n
  BY DEF InOrder, rank
<1>11. \A n \in 1 .. c : InOrder(P)[n] \in P /\ rank[InOrder(P)[n]] = n
  BY <1>9, <1>10
<1>12. \A i \in P : rank[i] \in 1 .. c /\ InOrder(P)[rank[i]] = i
  BY <1>4, <1>5, <1>11
<1>. QED  BY <1>1, <1>11, <1>12

LEMMA KeysAreKeys ==
  /\ KeySet \subseteq KeyPaths
  /\ \A k \in KeySet : \E i \in DOMAIN Keys : Keys[i] = k
  /\ \A i \in DOMAIN Keys : i \in Nat /\ Keys[i] \in KeySet /\ Keys[i] \in KeyPaths
  /\ \A i, j \in DOMAIN Keys : Keys[i] = Keys[j] => i = j
<1>1. Keys \in Seq(KeyPaths)
  BY RegistryAssumption
<1>2. \A i \in DOMAIN Keys : i \in Nat /\ Keys[i] \in KeyPaths
  BY <1>1
<1>3. KeySet = {Keys[i] : i \in DOMAIN Keys}
  BY DEF KeySet, ToSet
<1>4. \A i, j \in DOMAIN Keys : Keys[i] = Keys[j] => i = j
  BY RegistryAssumption DEF IsInjective
<1>. QED  BY <1>2, <1>3, <1>4

\* The existing children of a key, each once.
ChildrenIn(E, k) == {j \in E : Len(j) = Len(k) + 1 /\ IsPrefix(k, j)}
PlacesIn(E, k) == {i \in DOMAIN Keys : Keys[i] \in ChildrenIn(E, k)}

LEMMA PlacesAreFinite ==
  ASSUME NEW E, NEW k
  PROVE  PlacesIn(E, k) \subseteq Nat /\ IsFiniteSet(PlacesIn(E, k))
<1>1. Len(Keys) \in Nat /\ DOMAIN Keys = 1 .. Len(Keys)
  BY RegistryAssumption
<1>2. IsFiniteSet(1 .. Len(Keys))
  BY <1>1, FS_Interval
<1>3. PlacesIn(E, k) \in SUBSET (1 .. Len(Keys))
  BY <1>1 DEF PlacesIn
<1>. QED  BY <1>2, <1>3, FS_Subset

SubkeysIn(E, k) == [n \in 1 .. Cardinality(PlacesIn(E, k)) |-> Keys[InOrder(PlacesIn(E, k))[n]]]

LEMMA SubkeysAreSubkeysIn ==
  ASSUME NEW k
  PROVE  /\ Subkeys(k) = SubkeysIn(exists, k)
         /\ Subkeys(k)' = SubkeysIn(exists', k)
<1>1. ASSUME NEW E, NEW P, P = {i \in DOMAIN Keys : Keys[i] \in E /\ Len(Keys[i]) = Len(k) + 1 /\ IsPrefix(k, Keys[i])}
      PROVE  [n \in DOMAIN InOrder(P) |-> Keys[InOrder(P)[n]]] = SubkeysIn(E, k)
  <2>1. P = PlacesIn(E, k)
    BY <1>1 DEF PlacesIn, ChildrenIn
  <2>2. DOMAIN InOrder(P) = 1 .. Cardinality(P)
    BY DEF InOrder
  <2>. QED  BY <2>1, <2>2 DEF SubkeysIn
<1>2. Subkeys(k) = SubkeysIn(exists, k)
  BY <1>1 DEF Subkeys, SubkeyPlaces
<1>3. Subkeys(k)' = SubkeysIn(exists', k)
  BY <1>1 DEF Subkeys, SubkeyPlaces
<1>. QED  BY <1>2, <1>3

LEMMA SubkeysAreChildren ==
  ASSUME NEW k, NEW E, E \subseteq KeySet
  PROVE  /\ Len(SubkeysIn(E, k)) = Cardinality(PlacesIn(E, k)) /\ Len(SubkeysIn(E, k)) \in Nat
         /\ DOMAIN SubkeysIn(E, k) = 1 .. Len(SubkeysIn(E, k))
         /\ \A i \in DOMAIN SubkeysIn(E, k) : SubkeysIn(E, k)[i] \in ChildrenIn(E, k)
         /\ \A i, j \in DOMAIN SubkeysIn(E, k) : SubkeysIn(E, k)[i] = SubkeysIn(E, k)[j] => i = j
         /\ \A j \in ChildrenIn(E, k) : \E i \in DOMAIN SubkeysIn(E, k) : SubkeysIn(E, k)[i] = j
<1> DEFINE P == PlacesIn(E, k)  c == Cardinality(P)  order == InOrder(P)  s == [n \in 1 .. c |-> Keys[order[n]]]
<1>2. P \subseteq Nat /\ IsFiniteSet(P)
  BY PlacesAreFinite
<1>3. /\ c \in Nat
      /\ \A n \in 1 .. c : order[n] \in P
      /\ \A m, n \in 1 .. c : order[m] = order[n] => m = n
      /\ \A i \in P : \E n \in 1 .. c : order[n] = i
  BY <1>2, InOrderIsNumbering
<1>5. SubkeysIn(E, k) = s
  BY DEF SubkeysIn
<1>6. \A i \in P : i \in DOMAIN Keys /\ Keys[i] \in ChildrenIn(E, k)
  BY DEF PlacesIn
<1>7. \A j \in ChildrenIn(E, k) : \E i \in P : Keys[i] = j
  <2> SUFFICES ASSUME NEW j \in ChildrenIn(E, k) PROVE \E i \in P : Keys[i] = j
    OBVIOUS
  <2>1. j \in KeySet
    BY DEF ChildrenIn
  <2>2. PICK i \in DOMAIN Keys : Keys[i] = j
    BY <2>1, KeysAreKeys
  <2>. QED  BY <2>2 DEF PlacesIn
<1>. HIDE DEF P, c, order
<1>8. Len(s) = c /\ DOMAIN s = 1 .. c /\ \A n \in 1 .. c : s[n] = Keys[order[n]]
  BY <1>3
<1>. HIDE DEF s
<1>9. \A n \in 1 .. c : s[n] \in ChildrenIn(E, k)
  BY <1>3, <1>6, <1>8
<1>10. \A m, n \in 1 .. c : s[m] = s[n] => m = n
  BY <1>3, <1>6, <1>8, KeysAreKeys
<1>11. \A j \in ChildrenIn(E, k) : \E n \in 1 .. c : s[n] = j
  BY <1>3, <1>7, <1>8
<1>. QED  BY <1>3, <1>5, <1>8, <1>9, <1>10, <1>11 DEF c, P

\* A key that goes takes its number away, and only from its parent.
LEMMA SubkeysAfterRemoval ==
  ASSUME NEW k, NEW E, E \subseteq KeySet, NEW x \in E
  PROVE  /\ x \in ChildrenIn(E, k) => Len(SubkeysIn(E \ {x}, k)) = Len(SubkeysIn(E, k)) - 1
         /\ x \notin ChildrenIn(E, k) => SubkeysIn(E \ {x}, k) = SubkeysIn(E, k)
<1>1. PICK i \in DOMAIN Keys : Keys[i] = x
  BY KeysAreKeys
<1>2. ASSUME x \in ChildrenIn(E, k)
      PROVE  Len(SubkeysIn(E \ {x}, k)) = Len(SubkeysIn(E, k)) - 1
  <2>1. PlacesIn(E \ {x}, k) = PlacesIn(E, k) \ {i} /\ i \in PlacesIn(E, k)
    BY <1>1, <1>2, KeysAreKeys DEF PlacesIn, ChildrenIn
  <2>2. IsFiniteSet(PlacesIn(E, k))
    BY PlacesAreFinite
  <2>3. Cardinality(PlacesIn(E \ {x}, k)) = Cardinality(PlacesIn(E, k)) - 1
    BY <2>1, <2>2, FS_RemoveElement
  <2>4. E \ {x} \subseteq KeySet
    OBVIOUS
  <2>. QED  BY <2>3, <2>4, SubkeysAreChildren
<1>3. ASSUME x \notin ChildrenIn(E, k) PROVE SubkeysIn(E \ {x}, k) = SubkeysIn(E, k)
  <2>1. PlacesIn(E \ {x}, k) = PlacesIn(E, k)
    BY <1>3 DEF PlacesIn, ChildrenIn
  <2>. QED  BY <2>1 DEF SubkeysIn
<1>. QED  BY <1>2, <1>3
-----------------------------------------------------------------------------
(* Values of a key *)

LEMMA ValueFields ==
  \A v \in RegistryValues : /\ v.name \in STRING /\ v.type \in Types /\ v.data \in Seq(Nat)
                            /\ v = Value(v.name, v.type, v.data)
BY DEF RegistryValues, Value

\* RegSetValueEx keeps the places of the values and all but the one it sets.
LEMMA SetKeeps ==
  ASSUME NEW values \in Seq(RegistryValues), NEW v \in RegistryValues, NamesDiffer(values)
  PROVE  /\ Set(values, v) \in Seq(RegistryValues) /\ NamesDiffer(Set(values, v))
         /\ v \in ToSet(Set(values, v))
         /\ Len(values) <= Len(Set(values, v))
         /\ \A i \in DOMAIN values : /\ i \in DOMAIN Set(values, v)
                                     /\ Set(values, v)[i].name = values[i].name
                                     /\ values[i].name # v.name => Set(values, v)[i] = values[i]
<1> DEFINE s == Set(values, v)
<1>1. Len(values) \in Nat /\ DOMAIN values = 1 .. Len(values) /\ \A i \in DOMAIN values : values[i] \in RegistryValues
  OBVIOUS
<1>2. CASE \E i \in DOMAIN values : values[i].name = v.name
  <2>1. s = [i \in DOMAIN values |-> IF values[i].name = v.name THEN v ELSE values[i]]
    BY <1>2 DEF Set
  <2>2. s \in Seq(RegistryValues) /\ Len(s) = Len(values) /\ DOMAIN s = DOMAIN values
        /\ \A i \in DOMAIN values : s[i] = IF values[i].name = v.name THEN v ELSE values[i]
    BY <1>1, <2>1
  <2>. HIDE DEF s
  <2>3. \A i \in DOMAIN values : s[i].name = values[i].name
    BY <2>2
  <2>4. NamesDiffer(s)
    BY <2>2, <2>3 DEF NamesDiffer
  <2>5. v \in ToSet(s)
    BY <1>2, <2>2 DEF ToSet
  <2>. QED  BY <1>1, <2>2, <2>3, <2>4, <2>5 DEF s
<1>3. CASE ~ \E i \in DOMAIN values : values[i].name = v.name
  <2>1. s = Append(values, v)
    BY <1>3 DEF Set
  <2>2. /\ s \in Seq(RegistryValues) /\ Len(s) = Len(values) + 1 /\ DOMAIN s = 1 .. Len(values) + 1
        /\ \A i \in DOMAIN values : s[i] = values[i]
        /\ s[Len(values) + 1] = v
    BY <1>1, <2>1
  <2>. HIDE DEF s
  <2>3. \A i \in DOMAIN s : i \in DOMAIN values \/ i = Len(values) + 1
    BY <1>1, <2>2
  <2>4. NamesDiffer(s)
    BY <1>3, <2>2, <2>3 DEF NamesDiffer
  <2>5. v \in ToSet(s)
    BY <1>1, <2>2 DEF ToSet
  <2>6. \A i \in DOMAIN values : i \in DOMAIN s
    BY <1>1, <2>2
  <2>. QED  BY <1>1, <2>2, <2>4, <2>5, <2>6 DEF s
<1>. QED  BY <1>2, <1>3

\* A value that goes takes its number away; the others stay in their order.
LEMMA RemovalKeeps ==
  ASSUME NEW S, NEW values \in Seq(S), NEW i \in DOMAIN values
  PROVE  /\ RemoveAt(values, i) \in Seq(S) /\ Len(RemoveAt(values, i)) = Len(values) - 1
         /\ \A j \in DOMAIN values : j # i => values[j] \in ToSet(RemoveAt(values, i))
         /\ \A j \in DOMAIN RemoveAt(values, i) :
              RemoveAt(values, i)[j] = values[IF j < i THEN j ELSE j + 1]
<1> DEFINE n == Len(values)  a == SubSeq(values, 1, i - 1)  b == SubSeq(values, i + 1, n)  s == a \o b
<1>1. n \in Nat /\ i \in 1 .. n /\ DOMAIN values = 1 .. n /\ \A j \in 1 .. n : values[j] \in S
  OBVIOUS
<1>2. a \in Seq(S) /\ Len(a) = i - 1 /\ \A j \in 1 .. i - 1 : a[j] = values[j]
  BY <1>1
<1>3. b \in Seq(S) /\ Len(b) = n - i /\ \A j \in 1 .. n - i : b[j] = values[i + j]
  <2>1. b \in Seq(S) /\ Len(b) = n - i /\ \A j \in 1 .. n - (i + 1) + 1 : b[j] = values[(i + 1) + j - 1]
    BY <1>1, SubSeqProperties
  <2>2. \A j \in 1 .. n - i : j \in 1 .. n - (i + 1) + 1 /\ (i + 1) + j - 1 = i + j
    BY <1>1
  <2>. HIDE DEF b
  <2>. QED  BY <2>1, <2>2
<1>4. RemoveAt(values, i) = s
  BY DEF RemoveAt
<1>. HIDE DEF a, b
<1>5. /\ s \in Seq(S) /\ Len(s) = Len(a) + Len(b)
      /\ \A j \in 1 .. Len(a) : s[j] = a[j]
      /\ \A j \in 1 .. Len(b) : s[Len(a) + j] = b[j]
  <2>1. a \in Seq(S) /\ b \in Seq(S)
    BY <1>2, <1>3
  <2>. QED  BY <2>1, ConcatElements
<1>. HIDE DEF s
<1>6. Len(s) = n - 1 /\ DOMAIN s = 1 .. n - 1
  BY <1>1, <1>2, <1>3, <1>5
<1>. HIDE DEF n
<1>7. ASSUME NEW j \in 1 .. n - 1 PROVE s[j] = values[IF j < i THEN j ELSE j + 1]
  <2>1. CASE j < i
    <3>1. j \in 1 .. i - 1
      BY <1>1, <2>1
    <3>. QED  BY <1>2, <1>5, <2>1, <3>1
  <2>2. CASE ~(j < i)
    <3>1. PICK l \in 1 .. n - i : l = j - (i - 1) /\ (i - 1) + l = j /\ i + l = j + 1
      <4>1. j \in Int /\ i \in Int /\ n \in Int /\ i <= j /\ j <= n - 1
        BY <1>1, <2>2
      <4>2. j - (i - 1) \in 1 .. n - i
        BY <4>1
      <4>3. (i - 1) + (j - (i - 1)) = j /\ i + (j - (i - 1)) = j + 1
        BY <4>1
      <4>. QED  BY <4>2, <4>3
    <3>2. l \in 1 .. Len(b) /\ Len(a) + l = j
      BY <1>2, <1>3, <3>1
    <3>3. s[j] = b[l]
      BY <1>5, <3>2
    <3>. QED  BY <1>3, <2>2, <3>1, <3>3
  <2>. QED  BY <2>1, <2>2
<1>8. ASSUME NEW j \in 1 .. n, j # i PROVE \E l \in 1 .. n - 1 : s[l] = values[j]
  <2>1. CASE j < i
    <3>1. j \in 1 .. n - 1
      BY <1>1, <2>1
    <3>. QED  BY <1>7, <2>1, <3>1
  <2>2. CASE ~(j < i)
    <3>1. PICK l \in 1 .. n - 1 : l = j - 1 /\ l + 1 = j /\ ~(l < i)
      BY <1>1, <1>8, <2>2
    <3>. QED  BY <1>7, <3>1
  <2>. QED  BY <2>1, <2>2
<1>9. \A j \in DOMAIN values : j # i => values[j] \in ToSet(s)
  BY <1>1, <1>6, <1>8 DEF ToSet
<1>. QED  BY <1>4, <1>5, <1>6, <1>7, <1>9 DEF n

LEMMA RemovalKeepsNames ==
  ASSUME NEW values \in Seq(RegistryValues), NEW i \in DOMAIN values, NamesDiffer(values)
  PROVE  NamesDiffer(RemoveAt(values, i))
<1> DEFINE s == RemoveAt(values, i)  n == Len(values)  f(j) == IF j < i THEN j ELSE j + 1
<1>1. s \in Seq(RegistryValues) /\ Len(s) = n - 1 /\ \A j \in DOMAIN s : s[j] = values[f(j)]
  BY RemovalKeeps
<1>2. n \in Nat /\ i \in 1 .. n /\ DOMAIN values = 1 .. n
  OBVIOUS
<1>. HIDE DEF s, n
<1>3. DOMAIN s = 1 .. n - 1
  BY <1>1
<1>4. \A j, l \in DOMAIN s : f(j) \in DOMAIN values /\ (f(j) = f(l) => j = l)
  BY <1>2, <1>3
<1>. HIDE DEF f
<1>5. NamesDiffer(s)
  BY <1>1, <1>4 DEF NamesDiffer
<1>. QED  BY <1>5 DEF s
-----------------------------------------------------------------------------
(* Types *)

\* A set of natural numbers that is not empty has a least one.
LEMMA LeastNumber ==
  ASSUME NEW S, S \subseteq Nat, S # {}
  PROVE  \E m \in S : \A n \in S : m <= n
<1> DEFINE Less == OpToRel(<, Nat)
<1>1. \A m, n \in Nat : m < n => <<m, n>> \in Less
  BY DEF OpToRel
<1>. HIDE DEF Less
<1>2. IsWellFoundedOn(Less, Nat)
  BY NatLessThanWellFounded DEF Less
<1>3. PICK m \in S : \A n \in S : ~ (<<n, m>> \in Less)
  BY <1>2, WFMin
<1>4. \A n \in S : ~ (n < m)
  BY <1>1, <1>3
<1>. QED  BY <1>4

LEMMA RegValueType ==
  ASSUME NEW v \in RegistryValues
  PROVE  /\ RegValue(v) \in RegistryValues /\ RegValue(v).name = v.name
         /\ v.type \in {"expandable_string", "multi_string", "qword", "binary"} => RegValue(v) = v
<1>1. v.name \in STRING /\ v.type \in Types /\ v.data \in Seq(Nat) /\ v = Value(v.name, v.type, v.data)
  BY ValueFields
<1>2. LossyString(v.data) \in Seq(Nat)
  <2> DEFINE zeros == {i \in DOMAIN v.data : v.data[i] = 0}
             first == CHOOSE i \in zeros : \A j \in zeros : i <= j
  <2>1. CASE zeros = {}
    BY <1>1, <2>1 DEF LossyString
  <2>2. CASE zeros # {}
    <3>1. Len(v.data) \in Nat /\ DOMAIN v.data = 1 .. Len(v.data)
      BY <1>1
    <3>2. zeros \subseteq Nat
      BY <3>1
    <3>. HIDE DEF zeros
    <3>3. \E i \in zeros : \A j \in zeros : i <= j
      BY <2>2, <3>2, LeastNumber
    <3>4. first \in zeros
      BY <3>3
    <3>5. first \in 1 .. Len(v.data)
      BY <3>1, <3>4 DEF zeros
    <3>. HIDE DEF first
    <3>6. SubSeq(v.data, 1, first - 1) \in Seq(Nat)
      BY <1>1, <3>1, <3>5
    <3>7. LossyString(v.data) = SubSeq(v.data, 1, first - 1)
      BY <2>2 DEF LossyString, zeros, first
    <3>. QED  BY <3>6, <3>7
  <2>. QED  BY <2>1, <2>2
<1>3. DwordText(v.data) \in Seq(Nat)
  <2>1. \A i \in 1 .. 4 : (IF i <= Len(v.data) THEN v.data[i] ELSE 0) \in Nat
    BY <1>1
  <2>. QED  BY <2>1 DEF DwordText
<1>. HIDE DEF LossyString, DwordText
<1>4. \A t \in Types : \A d \in Seq(Nat) :
        Value(v.name, t, d) \in RegistryValues /\ Value(v.name, t, d).name = v.name
  BY <1>1 DEF Value, RegistryValues
<1>5. "string" \in Types /\ "dword" \in Types /\ "binary" \in Types
  BY DEF Types
<1>6. CASE v.type = "string"
  <2>1. RegValue(v) = Value(v.name, "string", LossyString(v.data))
    BY <1>6 DEF RegValue
  <2>. QED  BY <1>2, <1>4, <1>5, <1>6, <2>1
<1>7. CASE v.type = "dword"
  <2>1. RegValue(v) = Value(v.name, "dword", DwordText(v.data))
    BY <1>7 DEF RegValue
  <2>. QED  BY <1>3, <1>4, <1>5, <1>7, <2>1
<1>8. CASE v.type \in {"expandable_string", "multi_string", "qword"}
  <2>1. RegValue(v) = v
    BY <1>8 DEF RegValue
  <2>. QED  BY <2>1
<1>9. CASE v.type \notin {"string", "dword", "expandable_string", "multi_string", "qword"}
  <2>1. RegValue(v) = Value(v.name, "binary", v.data)
    BY <1>9 DEF RegValue
  <2>. QED  BY <1>1, <1>4, <1>5, <1>9, <2>1
<1>. QED  BY <1>6, <1>7, <1>8, <1>9

SnapshotItems == [path : KeyPaths, value : RegistryValues]

LEMMA ItemFields ==
  \A i \in SnapshotItems : i.path \in KeyPaths /\ i.value \in RegistryValues
BY DEF SnapshotItems

\* What a document brings back, item by item.
LEMMA ImageItems ==
  ASSUME items \in Seq(SnapshotItems), Image.ok
  PROVE  /\ Image.items \in Seq(SnapshotItems)
         /\ format = "json" => Image.items = items
         /\ format # "json" /\ items # <<>> /\ items[1].path = <<>> =>
              /\ DOMAIN Image.items = DOMAIN items
              /\ \A i \in DOMAIN items : /\ Image.items[i].path = items[i].path
                                         /\ Image.items[i].value = RegValue(items[i].value)
<1>1. CASE format = "json"
  <2>1. Image = ThroughJson(Source, items)
    BY <1>1 DEF Image
  <2>2. Image = Read(items)
    BY <2>1 DEF ThroughJson, DocumentRefused
  <2>. QED  BY <1>1, <2>2 DEF Read
<1>2. CASE format # "json"
  <2> DEFINE key(i) == CombineKeyPath(Source, items[i].path)
             its == [i \in DOMAIN items |-> [path |-> RegRelative(key(1), key(i)), value |-> RegValue(items[i].value)]]
  <2>1. Image = ThroughReg(Source, items)
    BY <1>2 DEF Image
  <2>2. items # <<>> /\ Image = Read(its)
    BY <2>1 DEF ThroughReg, DocumentRefused
  <2>3. Image.items = its
    BY <2>2 DEF Read
  <2>4. Len(items) \in Nat /\ DOMAIN items = 1 .. Len(items) /\ Source \in KeyPaths
    BY RegistryAssumption
  <2>5. \A i \in DOMAIN items : key(i) \in KeyPaths /\ items[i].value \in RegistryValues /\ items[i].path \in KeyPaths
    BY <2>4, ItemFields DEF KeyPaths, CombineKeyPath
  <2>6. 1 \in DOMAIN items
    BY <2>2, <2>4
  <2>. HIDE DEF key
  <2>7. \A i \in DOMAIN items : RegRelative(key(1), key(i)) \in KeyPaths
    <3> SUFFICES ASSUME NEW i \in DOMAIN items PROVE RegRelative(key(1), key(i)) \in KeyPaths
      OBVIOUS
    <3>1. key(1) \in Seq(STRING) /\ key(i) \in Seq(STRING)
      BY <2>5, <2>6 DEF KeyPaths
    <3>2. Len(key(1)) + 1 \in Int /\ Len(key(1)) + 1 >= 1 /\ Len(key(i)) \in Int
      BY <3>1
    <3>3. \A j \in Len(key(1)) + 1 .. Len(key(i)) : key(i)[j] \in STRING
      BY <3>1
    <3>4. SubSeq(key(i), Len(key(1)) + 1, Len(key(i))) \in Seq(STRING)
      BY <3>2, <3>3, SubSeqProperties
    <3>. QED  BY <3>4 DEF RegRelative, KeyPaths
  <2>8. \A i \in DOMAIN items : [path |-> RegRelative(key(1), key(i)), value |-> RegValue(items[i].value)] \in SnapshotItems
    BY <2>5, <2>7, RegValueType DEF SnapshotItems
  <2>9. its \in Seq(SnapshotItems)
    BY <2>4, <2>8
  <2>10. ASSUME items[1].path = <<>>, NEW i \in DOMAIN items
         PROVE  RegRelative(key(1), key(i)) = items[i].path
    <3>1. Source \in Seq(STRING) /\ items[i].path \in Seq(STRING)
      BY <2>4, <2>5 DEF KeyPaths
    <3>2. key(1) = Source
      BY <2>10, <3>1 DEF key, CombineKeyPath
    <3>3. key(i) = Source \o items[i].path
      BY DEF key, CombineKeyPath
    <3>4. IsPrefix(Source, key(i)) /\ key(i) \in Seq(STRING)
      BY <3>1, <3>3, PrefixBelowRoot
    <3>5. /\ SubSeq(key(i), Len(Source) + 1, Len(key(i))) \in Seq(STRING)
          /\ Source \o items[i].path = Source \o SubSeq(key(i), Len(Source) + 1, Len(key(i)))
      BY <3>1, <3>3, <3>4, RestBelowRoot
    <3>6. \A a, b, c \in Seq(STRING) : a \o b = a \o c => b = c
      BY PrefixBelowRoot
    <3>. QED  BY <3>1, <3>2, <3>5, <3>6 DEF RegRelative
  <2>. QED  BY <1>2, <2>3, <2>9, <2>10
<1>. QED  BY <1>1, <1>2
-----------------------------------------------------------------------------
(* The registry and the walk keep their shape *)

Shaped == RegistryTypeOK /\ RegistryShape

LEMMA InHandType ==
  ASSUME RegistryTypeOK, work # <<>>
  PROVE  Head(work) \in KeyPaths /\ KeyInHand \in KeyPaths /\ Tail(work) \in Seq(KeyPaths) /\ Len(work) \in Nat
<1>1. work \in Seq(KeyPaths) /\ Source \in KeyPaths
  BY RegistryAssumption DEF RegistryTypeOK
<1>2. Head(work) \in KeyPaths /\ Tail(work) \in Seq(KeyPaths) /\ Len(work) \in Nat
  BY <1>1, HeadTailProperties
<1>. QED  BY <1>1, <1>2 DEF KeyInHand, CombineKeyPath, KeyPaths

\* What an enumerated subkey adds to the names.
LEMMA ChildIsBelow ==
  ASSUME RegistryTypeOK, work # <<>>, NEW c \in ChildrenIn(exists, KeyInHand)
  PROVE  /\ c \in KeyPaths /\ Append(Head(work), Last(c)) \in KeyPaths
         /\ Len(Append(Head(work), Last(c))) = Len(Head(work)) + 1
         /\ IsPrefix(Head(work), Append(Head(work), Last(c)))
         /\ CombineKeyPath(Source, Append(Head(work), Last(c))) = c
<1> DEFINE h == Head(work)  s == Source  k == KeyInHand  n == Last(c)  a == Append(h, n)  sa == s \o a
<1>1. h \in Seq(STRING) /\ s \in Seq(STRING) /\ k = s \o h /\ k \in Seq(STRING)
  BY InHandType, RegistryAssumption DEF KeyPaths, KeyInHand, CombineKeyPath
<1>2. c \in Seq(STRING) /\ Len(c) = Len(k) + 1 /\ IsPrefix(k, c)
  BY KeysAreKeys DEF ChildrenIn, KeyPaths, RegistryTypeOK
<1>3. Len(h) \in Nat /\ Len(s) \in Nat /\ Len(c) \in Nat /\ Len(k) = Len(s) + Len(h)
  BY <1>1, <1>2
<1>4. n \in STRING /\ n = c[Len(c)]
  BY <1>2, <1>3 DEF Last
<1>5. a \in Seq(STRING) /\ Len(a) = Len(h) + 1 /\ (\A i \in 1 .. Len(h) : a[i] = h[i]) /\ a[Len(h) + 1] = n
  BY <1>1, <1>4
<1>. HIDE DEF h, s, k, n, a
<1>6. IsPrefix(h, a)
  BY <1>1, <1>3, <1>5, PrefixElements
<1>7. /\ sa \in Seq(STRING) /\ Len(sa) = Len(s) + Len(a)
      /\ \A i \in 1 .. Len(s) : sa[i] = s[i]
      /\ \A i \in 1 .. Len(a) : sa[Len(s) + i] = a[i]
  BY <1>1, <1>5, ConcatElements
<1>8. /\ \A i \in 1 .. Len(s) : k[i] = s[i]
      /\ \A i \in 1 .. Len(h) : k[Len(s) + i] = h[i]
  <2>1. s \in Seq(STRING) /\ h \in Seq(STRING)
    BY <1>1
  <2>. QED  BY <1>1, <2>1, ConcatElements
<1>9. \A i \in 1 .. Len(k) : k[i] = c[i]
  <2>1. \A p, t \in Seq(STRING) : IsPrefix(p, t) => \A i \in 1 .. Len(p) : p[i] = t[i]
    BY PrefixElements
  <2>. QED  BY <1>1, <1>2, <2>1
<1>. HIDE DEF sa
<1>10. ASSUME NEW i \in 1 .. Len(sa) PROVE sa[i] = c[i]
  <2>1. i \in 1 .. Len(s) + (Len(h) + 1)
    BY <1>5, <1>7
  <2>2. i \in 1 .. Len(s) \/ \E j \in 1 .. Len(h) + 1 : i = Len(s) + j
    <3>. Len(h) + 1 \in Nat
      BY <1>3
    <3>. QED  BY <1>3, <2>1, PlaceInConcat
  <2>3. CASE i \in 1 .. Len(s)
    BY <1>3, <1>7, <1>8, <1>9, <2>3
  <2>4. ASSUME NEW j \in 1 .. Len(h) + 1, i = Len(s) + j PROVE sa[i] = c[i]
    <3>1. sa[i] = a[j]
      BY <1>5, <1>7, <2>4
    <3>2. CASE j \in 1 .. Len(h)
      <4>1. i \in 1 .. Len(k) /\ k[i] = h[j] /\ a[j] = h[j]
        BY <1>3, <1>5, <1>8, <2>4, <3>2
      <4>. QED  BY <1>9, <3>1, <4>1
    <3>3. CASE j = Len(h) + 1
      BY <1>2, <1>3, <1>4, <1>5, <2>4, <3>1, <3>3
    <3>. QED  BY <1>3, <3>2, <3>3
  <2>. QED  BY <2>2, <2>3, <2>4
<1>11. sa = c
  <2>1. Len(sa) = Len(c)
    BY <1>2, <1>3, <1>5, <1>7
  <2>. QED  BY <1>2, <1>7, <1>10, <2>1, SeqEqual
<1>. QED  BY <1>2, <1>5, <1>6, <1>11 DEF sa, h, s, k, n, a, KeyPaths, CombineKeyPath

LEMMA SubkeyInHand ==
  ASSUME RegistryTypeOK, work # <<>>, NEW i \in Nat \ {0}, i <= Len(Subkeys(KeyInHand))
  PROVE  i \in DOMAIN Subkeys(KeyInHand) /\ Subkeys(KeyInHand)[i] \in ChildrenIn(exists, KeyInHand)
<1>1. Subkeys(KeyInHand) = SubkeysIn(exists, KeyInHand) /\ exists \subseteq KeySet
  BY SubkeysAreSubkeysIn DEF RegistryTypeOK
<1>. QED  BY <1>1, SubkeysAreChildren

LEMMA RegistryInitShape == RegistryInit => Shaped
<1> SUFFICES ASSUME RegistryInit PROVE Shaped
  OBVIOUS
<1>1. store \in [KeySet -> Seq(RegistryValues)] /\ \A k \in KeySet : NamesDiffer(store[k])
  BY RegistryAssumption DEF RegistryInit
<1>2. exists \subseteq KeySet /\ \A k \in KeySet : store[k] # <<>> => k \in exists
  BY DEF RegistryInit
<1>3. ASSUME NEW k \in exists, Len(k) > 1 PROVE Front(k) \in exists
  <2>1. k \in KeySet /\ Front(k) \in KeySet
    BY <1>2, <1>3, RegistryAssumption
  <2>2. k \in Seq(STRING) /\ Front(k) \in Seq(STRING) /\ IsPrefix(Front(k), k)
    <3>1. k \in Seq(STRING) /\ Len(k) > 0
      BY <1>3, <2>1, KeysAreKeys DEF KeyPaths
    <3>. QED  BY <3>1, FrontIsBefore
  <2>3. PICK j \in KeySet : store[j] # <<>> /\ (k = j \/ IsPrefix(k, j))
    BY DEF RegistryInit
  <2>4. IsPrefix(Front(k), j)
    <3>1. j \in Seq(STRING)
      BY KeysAreKeys DEF KeyPaths
    <3>2. \A a, b, c \in Seq(STRING) : IsPrefix(a, b) /\ IsPrefix(b, c) => IsPrefix(a, c)
      BY PrefixIsOrder
    <3>. QED  BY <2>2, <2>3, <3>1, <3>2
  <2>. QED  BY <2>1, <2>3, <2>4 DEF RegistryInit
<1>5. RegistryTypeOK
  <2>1. got \in RegistryValues \cup {NothingRead}
    BY DEF RegistryInit
  <2>2. at \in Places
    BY DEF RegistryInit, Places
  <2>3. work \in Seq(KeyPaths) /\ names \in Seq(KeyPaths) /\ items \in Seq([path : KeyPaths, value : RegistryValues])
    BY EmptySeq DEF RegistryInit
  <2>4. index \in Nat \ {0} /\ count \in Nat /\ next \in Nat \ {0} /\ changes \in Nat /\ failures \in Nat
    <3>1. index = 1 /\ count = 0 /\ next = 1 /\ changes = 0 /\ failures = 0
      BY DEF RegistryInit
    <3>. QED  BY <3>1
  <2>6. ok \in BOOLEAN
    BY DEF RegistryInit
  <2>5. steady \subseteq KeySet \X RegistryValues
    BY DEF RegistryInit
  <2>. QED  BY <1>1, <1>2, <2>1, <2>2, <2>3, <2>4, <2>5, <2>6 DEF RegistryTypeOK
<1>6. RegistryShape
  BY <1>1, <1>2, <1>3 DEF RegistryInit, RegistryShape, Walking
<1>. QED  BY <1>5, <1>6 DEF Shaped
-----------------------------------------------------------------------------
(* Every step keeps the shape *)

RegistryThere ==
  /\ store \in [KeySet -> Seq(RegistryValues)] /\ exists \subseteq KeySet
  /\ \A k \in KeySet : NamesDiffer(store[k]) /\ (store[k] # <<>> => k \in exists)
  /\ \A k \in exists : Len(k) > 1 => Front(k) \in exists
WalkTyped ==
  /\ at \in Places /\ work \in Seq(KeyPaths) /\ names \in Seq(KeyPaths)
  /\ index \in Nat \ {0} /\ count \in Nat
  /\ Walking => work # <<>>
  /\ at = "reading" => got \in RegistryValues /\ \E k \in KeySet : work = <<k>>
RestTyped ==
  /\ next \in Nat \ {0} /\ items \in Seq(SnapshotItems)
  /\ steady \subseteq KeySet \X RegistryValues /\ got \in RegistryValues \cup {NothingRead}
  /\ ok \in BOOLEAN /\ changes \in Nat /\ failures \in Nat

LEMMA ShapedParts ==
  /\ Shaped <=> RegistryThere /\ WalkTyped /\ RestTyped
  /\ Shaped' <=> RegistryThere' /\ WalkTyped' /\ RestTyped'
<1>1. Shaped <=> RegistryThere /\ WalkTyped /\ RestTyped
  BY DEF Shaped, RegistryTypeOK, RegistryShape, RegistryThere, WalkTyped, RestTyped, SnapshotItems
<1>2. Shaped' <=> RegistryThere' /\ WalkTyped' /\ RestTyped'
  BY DEF Shaped, RegistryTypeOK, RegistryShape, RegistryThere, WalkTyped, RestTyped, SnapshotItems
<1>. QED  BY <1>1, <1>2

LEMMA StoreUpdate ==
  ASSUME Shaped, NEW k \in KeySet, NEW u \in Seq(RegistryValues), NamesDiffer(u),
         store' = [store EXCEPT ![k] = u]
  PROVE  /\ store' \in [KeySet -> Seq(RegistryValues)] /\ \A j \in KeySet : NamesDiffer(store'[j])
         /\ store'[k] = u /\ \A j \in KeySet : j # k => store'[j] = store[j]
<1>1. store \in [KeySet -> Seq(RegistryValues)] /\ \A j \in KeySet : NamesDiffer(store[j])
  BY ShapedParts DEF RegistryThere
<1>2. store' \in [KeySet -> Seq(RegistryValues)]
  BY <1>1
<1>3. \A j \in KeySet : store'[j] = IF j = k THEN u ELSE store[j]
  BY <1>1
<1>. QED  BY <1>1, <1>2, <1>3

LEMMA ValueSet ==
  ASSUME Shaped, NEW k \in KeySet, NEW v \in RegistryValues, store' = [store EXCEPT ![k] = Set(@, v)]
  PROVE  /\ store' \in [KeySet -> Seq(RegistryValues)] /\ \A j \in KeySet : NamesDiffer(store'[j])
         /\ store'[k] = Set(store[k], v) /\ \A j \in KeySet : j # k => store'[j] = store[j]
<1>1. store[k] \in Seq(RegistryValues) /\ NamesDiffer(store[k])
  BY ShapedParts DEF RegistryThere
<1>2. Set(store[k], v) \in Seq(RegistryValues) /\ NamesDiffer(Set(store[k], v))
  BY <1>1, SetKeeps
<1>. QED  BY <1>2, StoreUpdate

LEMMA ValueRemoved ==
  ASSUME Shaped, NEW k \in exists, NEW i \in DOMAIN store[k], store' = [store EXCEPT ![k] = RemoveAt(@, i)],
         exists' = exists
  PROVE  /\ RegistryThere'
         /\ store'[k] = RemoveAt(store[k], i) /\ \A j \in KeySet : j # k => store'[j] = store[j]
<1>1. k \in KeySet /\ store[k] \in Seq(RegistryValues) /\ NamesDiffer(store[k])
  BY ShapedParts DEF RegistryThere
<1>2. RemoveAt(store[k], i) \in Seq(RegistryValues) /\ NamesDiffer(RemoveAt(store[k], i))
  BY <1>1, RemovalKeeps, RemovalKeepsNames
<1>3. /\ store' \in [KeySet -> Seq(RegistryValues)] /\ \A j \in KeySet : NamesDiffer(store'[j])
      /\ store'[k] = RemoveAt(store[k], i) /\ \A j \in KeySet : j # k => store'[j] = store[j]
  BY <1>1, <1>2, StoreUpdate
<1>. QED  BY <1>1, <1>3, ShapedParts DEF RegistryThere

LEMMA KeyRemoved ==
  ASSUME Shaped, NEW k \in exists, Subkeys(k) = <<>>, store' = [store EXCEPT ![k] = <<>>], exists' = exists \ {k}
  PROVE  /\ RegistryThere'
         /\ store'[k] = <<>> /\ \A j \in KeySet : j # k => store'[j] = store[j]
<1>1. k \in KeySet /\ <<>> \in Seq(RegistryValues) /\ NamesDiffer(<<>>) /\ exists \subseteq KeySet
  BY EmptySeq, ShapedParts DEF RegistryThere, NamesDiffer
<1>2. /\ store' \in [KeySet -> Seq(RegistryValues)] /\ \A j \in KeySet : NamesDiffer(store'[j])
      /\ store'[k] = <<>> /\ \A j \in KeySet : j # k => store'[j] = store[j]
  BY <1>1, StoreUpdate
<1>3. ChildrenIn(exists, k) = {}
  <2>1. SubkeysIn(exists, k) = <<>>
    BY SubkeysAreSubkeysIn
  <2>2. DOMAIN SubkeysIn(exists, k) = {}
    BY <2>1
  <2>. QED  BY <1>1, <2>2, SubkeysAreChildren
<1>4. ASSUME NEW j \in exists', Len(j) > 1 PROVE Front(j) \in exists'
  <2>1. j \in exists /\ Front(j) \in exists
    BY <1>4, ShapedParts DEF RegistryThere
  <2>2. j \in Seq(STRING)
    BY <1>1, <2>1, KeysAreKeys DEF KeyPaths
  <2>3. Len(Front(j)) = Len(j) - 1 /\ IsPrefix(Front(j), j) /\ Len(j) \in Nat
    BY <1>4, <2>2, FrontIsBefore
  <2>4. Front(j) # k
    BY <1>3, <2>1, <2>3 DEF ChildrenIn
  <2>. QED  BY <2>1, <2>4
<1>. QED  BY <1>1, <1>2, <1>4, ShapedParts DEF RegistryThere

\* A step of the client leaves the registry alone.
LEMMA ClientLeavesRegistry ==
  ASSUME Shaped, UNCHANGED <<store, exists>>
  PROVE  RegistryThere'
BY ShapedParts DEF RegistryThere

LEMMA ExportShape == Shaped /\ Export => Shaped'
<1> SUFFICES ASSUME Shaped, Export PROVE Shaped'
  OBVIOUS
<1>1. RegistryThere /\ WalkTyped /\ RestTyped
  BY ShapedParts
<1>2. RegistryThere'
  BY ClientLeavesRegistry DEF Export, ClientOnly
<1>3. WalkTyped'
  <2>1. <<>> \in KeyPaths
    BY EmptySeq DEF KeyPaths
  <2>2. << <<>> >> \in Seq(KeyPaths) /\ << <<>> >> # <<>>
    BY <2>1
  <2>. QED  BY <1>1, <2>2 DEF Export, WalkTyped, Walking, Places
<1>4. RestTyped'
  <2>1. \A k \in KeySet : ToSet(store[k]) \subseteq RegistryValues
    BY <1>1 DEF RegistryThere, ToSet
  <2>2. steady' \subseteq KeySet \X RegistryValues
    BY <2>1 DEF Export
  <2>. QED  BY <1>1, <2>2 DEF Export, ClientOnly, RestTyped
<1>. QED  BY <1>2, <1>3, <1>4, ShapedParts

LEMMA OpenValuesShape == Shaped /\ OpenValues => Shaped'
<1> SUFFICES ASSUME Shaped, OpenValues PROVE Shaped'
  OBVIOUS
<1>1. RegistryThere /\ WalkTyped /\ RestTyped
  BY ShapedParts
<1>2. RegistryThere'
  BY ClientLeavesRegistry DEF OpenValues, ClientOnly
<1>3. CASE KeyInHand \in exists /\ count' = Len(store[KeyInHand]) /\ index' = 1 /\ at' = "values" /\ UNCHANGED <<ok, failures>>
  <2>1. Len(store[KeyInHand]) \in Nat
    BY <1>1, <1>3 DEF RegistryThere
  <2>2. WalkTyped'
    BY <1>1, <1>3, <2>1 DEF OpenValues, WalkTyped, Walking, Places, ClientOnly
  <2>3. RestTyped'
    BY <1>1, <1>3 DEF OpenValues, RestTyped, ClientOnly
  <2>. QED  BY <1>2, <2>2, <2>3, ShapedParts
<1>4. CASE (IF KeyInHand \in exists THEN CallFails ELSE UNCHANGED failures) /\ Stops /\ UNCHANGED <<index, count>>
  <2>1. failures' \in Nat
    BY <1>1, <1>4 DEF CallFails, RestTyped
  <2>2. WalkTyped'
    BY <1>1, <1>4 DEF OpenValues, WalkTyped, Walking, Places, ClientOnly, Stops
  <2>3. RestTyped'
    BY <1>1, <1>4, <2>1 DEF OpenValues, RestTyped, ClientOnly, Stops
  <2>. QED  BY <1>2, <2>2, <2>3, ShapedParts
<1>. QED  BY <1>3, <1>4 DEF OpenValues

LEMMA EnumValueShape == Shaped /\ EnumValue => Shaped'
<1> SUFFICES ASSUME Shaped, EnumValue PROVE Shaped'
  OBVIOUS
<1>1. RegistryThere /\ WalkTyped /\ RestTyped
  BY ShapedParts
<1>2. RegistryThere'
  BY ClientLeavesRegistry DEF EnumValue, ClientOnly
<1>3. CASE KeyInHand \in exists /\ index <= Len(store[KeyInHand])
  <2>1. /\ items' = Append(items, [path |-> Head(work), value |-> store[KeyInHand][index]])
        /\ index' = index + 1 /\ UNCHANGED <<at, ok>>
    BY <1>3 DEF EnumValue
  <2>2. Head(work) \in KeyPaths
    BY InHandType, <1>1 DEF Shaped, WalkTyped, EnumValue, Walking
  <2>3. store[KeyInHand] \in Seq(RegistryValues) /\ index \in Nat \ {0}
    BY <1>1, <1>3 DEF RegistryThere, WalkTyped
  <2>4. store[KeyInHand][index] \in RegistryValues
    BY <1>3, <2>3
  <2>5. items' \in Seq(SnapshotItems)
    BY <1>1, <2>1, <2>2, <2>4 DEF RestTyped, SnapshotItems
  <2>6. WalkTyped'
    BY <1>1, <2>1 DEF EnumValue, WalkTyped, Walking, ClientOnly
  <2>7. RestTyped'
    BY <1>1, <2>1, <2>5 DEF EnumValue, RestTyped, ClientOnly
  <2>. QED  BY <1>2, <2>6, <2>7, ShapedParts
<1>4. CASE ~(KeyInHand \in exists /\ index <= Len(store[KeyInHand]))
  <2>1. WalkTyped'
    BY <1>1, <1>4 DEF EnumValue, WalkTyped, Walking, ClientOnly, Stops, Places
  <2>2. RestTyped'
    BY <1>1, <1>4 DEF EnumValue, RestTyped, ClientOnly, Stops
  <2>. QED  BY <1>2, <2>1, <2>2, ShapedParts
<1>. QED  BY <1>3, <1>4

LEMMA OpenSubkeysShape == Shaped /\ OpenSubkeys => Shaped'
<1> SUFFICES ASSUME Shaped, OpenSubkeys PROVE Shaped'
  OBVIOUS
<1>1. RegistryThere /\ WalkTyped /\ RestTyped
  BY ShapedParts
<1>2. RegistryThere'
  BY ClientLeavesRegistry DEF OpenSubkeys, ClientOnly
<1>3. CASE /\ KeyInHand \in exists /\ count' = Len(Subkeys(KeyInHand)) /\ index' = 1
           /\ names' = <<>> /\ at' = "subkeys" /\ UNCHANGED <<ok, failures>>
  <2>1. Len(Subkeys(KeyInHand)) \in Nat
    BY <1>1, SubkeysAreSubkeysIn, SubkeysAreChildren DEF RegistryThere
  <2>2. <<>> \in Seq(KeyPaths)
    BY EmptySeq
  <2>. HIDE DEF KeyPaths, KeyInHand, Subkeys
  <2>3. WalkTyped'
    BY <1>1, <1>3, <2>1, <2>2 DEF OpenSubkeys, WalkTyped, Walking, Places, ClientOnly
  <2>4. RestTyped'
    BY <1>1, <1>3 DEF OpenSubkeys, RestTyped, ClientOnly
  <2>. QED  BY <1>2, <2>3, <2>4, ShapedParts
<1>4. CASE (IF KeyInHand \in exists THEN CallFails ELSE UNCHANGED failures) /\ Stops /\ UNCHANGED <<index, count, names>>
  <2>1. failures' \in Nat
    BY <1>1, <1>4 DEF CallFails, RestTyped
  <2>2. WalkTyped'
    BY <1>1, <1>4 DEF OpenSubkeys, WalkTyped, Walking, Places, ClientOnly, Stops
  <2>3. RestTyped'
    BY <1>1, <1>4, <2>1 DEF OpenSubkeys, RestTyped, ClientOnly, Stops
  <2>. QED  BY <1>2, <2>2, <2>3, ShapedParts
<1>. QED  BY <1>3, <1>4 DEF OpenSubkeys

LEMMA EnumSubkeyShape == Shaped /\ EnumSubkey => Shaped'
<1> SUFFICES ASSUME Shaped, EnumSubkey PROVE Shaped'
  OBVIOUS
<1>1. RegistryThere /\ WalkTyped /\ RestTyped
  BY ShapedParts
<1>2. RegistryThere'
  BY ClientLeavesRegistry DEF EnumSubkey, ClientOnly
<1>3. CASE KeyInHand \in exists /\ index <= Len(Subkeys(KeyInHand))
  <2>1. /\ names' = Append(names, Append(Head(work), Last(Subkeys(KeyInHand)[index])))
        /\ index' = index + 1 /\ UNCHANGED <<at, ok>>
    BY <1>3 DEF EnumSubkey
  <2>2. work # <<>> /\ RegistryTypeOK
    BY <1>1 DEF WalkTyped, Walking, EnumSubkey, Shaped
  <2>3. Subkeys(KeyInHand)[index] \in ChildrenIn(exists, KeyInHand)
    BY <1>1, <1>3, <2>2, SubkeyInHand DEF WalkTyped
  <2>4. Append(Head(work), Last(Subkeys(KeyInHand)[index])) \in KeyPaths
    BY <2>2, <2>3, ChildIsBelow
  <2>5. names' \in Seq(KeyPaths)
    BY <1>1, <2>1, <2>4 DEF WalkTyped
  <2>6. WalkTyped'
    BY <1>1, <2>1, <2>5 DEF EnumSubkey, WalkTyped, Walking, ClientOnly
  <2>7. RestTyped'
    BY <1>1, <2>1 DEF EnumSubkey, RestTyped, ClientOnly
  <2>. QED  BY <1>2, <2>6, <2>7, ShapedParts
<1>4. CASE ~(KeyInHand \in exists /\ index <= Len(Subkeys(KeyInHand)))
  <2>1. WalkTyped'
    BY <1>1, <1>4 DEF EnumSubkey, WalkTyped, Walking, ClientOnly, Stops, Places
  <2>2. RestTyped'
    BY <1>1, <1>4 DEF EnumSubkey, RestTyped, ClientOnly, Stops
  <2>. QED  BY <1>2, <2>1, <2>2, ShapedParts
<1>. QED  BY <1>3, <1>4

LEMMA DescendShape == Shaped /\ Descend => Shaped'
<1> SUFFICES ASSUME Shaped, Descend PROVE Shaped'
  OBVIOUS
<1>1. RegistryThere /\ WalkTyped /\ RestTyped
  BY ShapedParts
<1>2. RegistryThere'
  BY ClientLeavesRegistry DEF Descend, ClientOnly
<1>3. work # <<>> /\ RegistryTypeOK
  BY <1>1 DEF WalkTyped, Walking, Descend, Shaped
<1>4. names \o Tail(work) \in Seq(KeyPaths)
  BY <1>1, <1>3, InHandType DEF WalkTyped
<1>5. WalkTyped'
  BY <1>1, <1>4 DEF Descend, WalkTyped, Walking, Places, ClientOnly
<1>6. RestTyped'
  BY <1>1 DEF Descend, RestTyped, ClientOnly
<1>. QED  BY <1>2, <1>5, <1>6, ShapedParts

LEMMA ImportDocumentShape == Shaped /\ ImportDocument => Shaped'
<1> SUFFICES ASSUME Shaped, ImportDocument PROVE Shaped'
  OBVIOUS
<1>1. RegistryThere /\ WalkTyped /\ RestTyped
  BY ShapedParts
<1>2. RegistryThere'
  BY ClientLeavesRegistry DEF ImportDocument, ClientOnly
<1>3. \/ Stops /\ UNCHANGED items
      \/ at' = "import" /\ ok' = TRUE /\ items' = Image.items /\ Image.ok
  BY DEF ImportDocument
<1>4. items' \in Seq(SnapshotItems) /\ ok' \in BOOLEAN /\ at' \in {"import", "done"}
  BY <1>1, <1>3, ImageItems DEF RestTyped, Stops
<1>5. WalkTyped'
  BY <1>1, <1>4 DEF ImportDocument, WalkTyped, Walking, Places, ClientOnly, walk
<1>6. RestTyped'
  BY <1>1, <1>4 DEF ImportDocument, RestTyped, ClientOnly, walk
<1>. QED  BY <1>2, <1>5, <1>6, ShapedParts

LEMMA NativeIsValue ==
  ASSUME NEW v \in RegistryValues
  PROVE  /\ Native(v) \in RegistryValues /\ Native(v).name = v.name /\ Native(v).data = v.data
         /\ Native(v).type = v.type \/ (v.type = "unknown" /\ Native(v).type = "binary")
<1>1. "binary" \in Types
  BY DEF Types
<1>. QED  BY <1>1 DEF Native, RegistryValues

LEMMA NextItem ==
  ASSUME Shaped, next <= Len(items)
  PROVE  /\ next \in DOMAIN items /\ items[next] \in SnapshotItems /\ items[next].value \in RegistryValues
         /\ Target(next) \in KeyPaths
         /\ Native(items[next].value) \in RegistryValues /\ Native(items[next].value).name = items[next].value.name
<1>1. next \in Nat \ {0} /\ items \in Seq(SnapshotItems)
  BY ShapedParts DEF RestTyped
<1>2. next \in DOMAIN items /\ items[next] \in SnapshotItems
  BY <1>1
<1>3. items[next].path \in KeyPaths /\ items[next].value \in RegistryValues /\ Destination \in KeyPaths
  BY <1>2, ItemFields, RegistryAssumption
<1>4. Native(items[next].value) \in RegistryValues /\ Native(items[next].value).name = items[next].value.name
  BY <1>3, NativeIsValue
<1>. QED  BY <1>2, <1>3, <1>4 DEF Target, CombineKeyPath, KeyPaths

\* The keys made for a write leave every key with the ones above it.
LEMMA KeysMade ==
  ASSUME Shaped, NEW t \in KeySet, exists' = WithKey(t)
  PROVE  /\ exists' \subseteq KeySet /\ (\A j \in exists : j \in exists') /\ t \in exists'
         /\ \A j \in exists' : Len(j) > 1 => Front(j) \in exists'
<1>2. RegistryThere
  BY ShapedParts
<1>4. exists' \subseteq KeySet /\ \A j \in exists : j \in exists'
  BY <1>2 DEF RegistryThere, WithKey
<1>5. \A a, b, c \in Seq(STRING) : IsPrefix(a, b) /\ IsPrefix(b, c) => IsPrefix(a, c)
  BY PrefixIsOrder
<1>6. \A a \in Seq(STRING) : IsPrefix(a, a)
  BY PrefixIsOrder
<1>7. \A j \in KeySet : j \in Seq(STRING)
  BY KeysAreKeys DEF KeyPaths
<1>8. t \in exists'
  BY <1>6, <1>7 DEF WithKey
<1>9. ASSUME NEW j \in exists', Len(j) > 1 PROVE Front(j) \in exists'
  <2>1. CASE j \in exists
    BY <1>2, <1>4, <1>9, <2>1 DEF RegistryThere
  <2>2. CASE j \in KeySet /\ IsPrefix(j, t)
    <3>1. Front(j) \in KeySet
      BY <1>9, <2>2, RegistryAssumption
    <3>2. j \in Seq(STRING) /\ Len(j) > 0
      BY <1>7, <1>9, <2>2
    <3>3. Front(j) \in Seq(STRING) /\ IsPrefix(Front(j), j)
      BY <3>2, FrontIsBefore
    <3>4. IsPrefix(Front(j), t)
      BY <1>5, <1>7, <2>2, <3>2, <3>3
    <3>. QED  BY <3>1, <3>4 DEF WithKey
  <2>. QED  BY <2>1, <2>2 DEF WithKey
<1>. QED  BY <1>4, <1>8, <1>9

\* A write of the import: the value is in its place, the keys down to it are.
LEMMA ImportWrites ==
  ASSUME Shaped, next <= Len(items), Target(next) \in KeySet,
         store' = [store EXCEPT ![Target(next)] = Set(@, Native(items[next].value))],
         exists' = WithKey(Target(next))
  PROVE  /\ RegistryThere'
         /\ store'[Target(next)] = Set(store[Target(next)], Native(items[next].value))
         /\ \A j \in KeySet : j # Target(next) => store'[j] = store[j]
<1> DEFINE t == Target(next)
<1>1. Native(items[next].value) \in RegistryValues /\ t \in KeySet
  BY NextItem
<1>2. RegistryThere
  BY ShapedParts
<1>3. /\ store' \in [KeySet -> Seq(RegistryValues)] /\ \A j \in KeySet : NamesDiffer(store'[j])
      /\ store'[t] = Set(store[t], Native(items[next].value)) /\ \A j \in KeySet : j # t => store'[j] = store[j]
  BY <1>1, ValueSet
<1>. HIDE DEF t
<1>4. /\ exists' \subseteq KeySet /\ (\A j \in exists : j \in exists') /\ t \in exists'
      /\ \A j \in exists' : Len(j) > 1 => Front(j) \in exists'
  BY <1>1, KeysMade DEF t
<1>10. \A j \in KeySet : store'[j] # <<>> => j \in exists'
  BY <1>2, <1>3, <1>4 DEF RegistryThere
<1>11. RegistryThere'
  BY <1>3, <1>4, <1>10 DEF RegistryThere
<1>. QED  BY <1>3, <1>11 DEF t

LEMMA ImportValueShape == Shaped /\ ImportValue => Shaped'
<1> SUFFICES ASSUME Shaped, ImportValue PROVE Shaped'
  OBVIOUS
<1>1. RegistryThere /\ WalkTyped /\ RestTyped
  BY ShapedParts
<1>2. RegistryThere'
  <2>1. CASE UNCHANGED <<store, exists>>
    BY <2>1, ClientLeavesRegistry
  <2>2. CASE /\ Target(next) \in KeySet
             /\ store' = [store EXCEPT ![Target(next)] = Set(@, Native(items[next].value))]
             /\ exists' = WithKey(Target(next))
    <3>1. next <= Len(items)
      BY DEF ImportValue
    <3>. QED  BY <2>2, <3>1, ImportWrites
  <2>3. CASE UNCHANGED store /\ Target(next) \in KeySet /\ exists' = WithKey(Target(next))
    <3>1. RegistryThere /\ store' = store
      BY <2>3, ShapedParts
    <3>2. /\ exists' \subseteq KeySet /\ (\A j \in exists : j \in exists')
          /\ \A j \in exists' : Len(j) > 1 => Front(j) \in exists'
      BY <2>3, KeysMade
    <3>. QED  BY <3>1, <3>2 DEF RegistryThere
  <2>. QED  BY <2>1, <2>2, <2>3 DEF ImportValue
<1>3. WalkTyped'
  BY <1>1 DEF ImportValue, WalkTyped, Walking, walk
<1>4. ok' \in BOOLEAN /\ failures' \in Nat
  <2>1. \/ ok' = AfterFailure(FALSE) /\ UNCHANGED failures
        \/ ok' = AfterFailure(TRUE) /\ UNCHANGED failures
        \/ ok' = AfterFailure(TRUE) /\ CallFails
        \/ UNCHANGED <<ok, failures>>
    BY Zenon DEF ImportValue
  <2>2. ok' = AfterFailure(FALSE) \/ ok' = AfterFailure(TRUE) => ok' \in BOOLEAN
    BY <1>1, Zenon DEF RestTyped, AfterFailure
  <2>3. UNCHANGED failures \/ CallFails => failures' \in Nat
    BY <1>1 DEF RestTyped, CallFails
  <2>4. ok \in BOOLEAN /\ failures \in Nat
    BY <1>1 DEF RestTyped
  <2>. QED  BY <2>1, <2>2, <2>3, <2>4
<1>5. RestTyped'
  BY <1>1, <1>4 DEF ImportValue, RestTyped
<1>. QED  BY <1>2, <1>3, <1>5, ShapedParts

LEMMA DeletionShape ==
  ASSUME Shaped, NEW k \in KeySet, DeleteKey(k) \/ \E i \in DOMAIN store[k] : DeleteValue(k, i)
  PROVE  Shaped'
<1>1. RegistryThere /\ WalkTyped /\ RestTyped
  BY ShapedParts
<1>2. RegistryThere'
  <2>1. CASE DeleteKey(k)
    BY <2>1, KeyRemoved DEF DeleteKey
  <2>2. ASSUME NEW i \in DOMAIN store[k], DeleteValue(k, i) PROVE RegistryThere'
    BY <2>2, ValueRemoved DEF DeleteValue
  <2>. QED  BY <2>1, <2>2
<1>3. WalkTyped'
  BY <1>1 DEF DeleteKey, DeleteValue, WalkTyped, Walking, walk, Places
<1>4. RestTyped'
  BY <1>1 DEF DeleteKey, DeleteValue, RestTyped
<1>. QED  BY <1>2, <1>3, <1>4, ShapedParts

LEMMA AskSizeShape ==
  ASSUME Shaped, NEW k \in KeySet, NEW i \in DOMAIN store[k], AskSize(k, i)
  PROVE  Shaped'
<1>1. RegistryThere /\ WalkTyped /\ RestTyped
  BY ShapedParts
<1>2. RegistryThere'
  BY ClientLeavesRegistry DEF AskSize
<1>3. got' \in RegistryValues
  BY <1>1 DEF AskSize, RegistryThere
<1>4. work' = <<k>> /\ work' \in Seq(KeyPaths) /\ at' = "reading"
  BY KeysAreKeys DEF AskSize
<1>5. WalkTyped'
  BY <1>1, <1>3, <1>4 DEF AskSize, WalkTyped, Walking, Places
<1>6. RestTyped'
  BY <1>1, <1>3 DEF AskSize, RestTyped
<1>. QED  BY <1>2, <1>5, <1>6, ShapedParts

LEMMA ReadDataShape == Shaped /\ ReadData => Shaped'
<1> SUFFICES ASSUME Shaped, ReadData PROVE Shaped'
  OBVIOUS
<1>1. RegistryThere /\ WalkTyped /\ RestTyped
  BY ShapedParts
<1>2. RegistryThere'
  BY ClientLeavesRegistry DEF ReadData
<1>3. WalkTyped'
  BY <1>1 DEF ReadData, WalkTyped, Walking, walk, Places
<1>4. got' \in RegistryValues /\ ok' \in BOOLEAN
  <2>1. got \in RegistryValues
    BY <1>1 DEF WalkTyped, ReadData
  <2>2. PICK k \in KeySet : work = <<k>>
    BY <1>1 DEF WalkTyped, ReadData
  <2>3. Head(work) = k /\ store[k] \in Seq(RegistryValues)
    BY <1>1, <2>2 DEF RegistryThere
  <2>4. CASE ok' = FALSE /\ UNCHANGED got
    BY <2>1, <2>4
  <2>5. ASSUME NEW i \in DOMAIN store[k], ok' = TRUE /\ got' = [got EXCEPT !.data = store[k][i].data]
        PROVE  got' \in RegistryValues /\ ok' \in BOOLEAN
    <3>1. store[k][i].data \in Seq(Nat)
      BY <2>3, ValueFields
    <3>. QED  BY <2>1, <2>5, <3>1 DEF RegistryValues
  <2>. QED  BY <2>3, <2>4, <2>5 DEF ReadData
<1>5. RestTyped'
  BY <1>1, <1>4 DEF ReadData, RestTyped
<1>. QED  BY <1>2, <1>3, <1>5, ShapedParts

LEMMA OtherProgramShape == Shaped /\ OtherProgram => Shaped'
<1> SUFFICES ASSUME Shaped, OtherProgram PROVE Shaped'
  OBVIOUS
<1>1. RegistryThere /\ WalkTyped /\ RestTyped
  BY ShapedParts
<1>2. PICK k \in exists :
       \/ \E v \in NewValues : store' = [store EXCEPT ![k] = Set(@, v)] /\ UNCHANGED exists
       \/ \E i \in DOMAIN store[k] : store' = [store EXCEPT ![k] = RemoveAt(@, i)] /\ UNCHANGED exists
       \/ Subkeys(k) = <<>> /\ exists' = exists \ {k} /\ store' = [store EXCEPT ![k] = <<>>]
  BY DEF OtherProgram
<1>3. RegistryThere'
  <2>1. ASSUME NEW v \in NewValues, store' = [store EXCEPT ![k] = Set(@, v)], UNCHANGED exists
        PROVE  RegistryThere'
    <3>1. v \in RegistryValues /\ k \in KeySet
      BY <1>1, RegistryAssumption DEF RegistryThere
    <3>2. /\ store' \in [KeySet -> Seq(RegistryValues)] /\ \A j \in KeySet : NamesDiffer(store'[j])
          /\ \A j \in KeySet : j # k => store'[j] = store[j]
      BY <2>1, <3>1, ValueSet
    <3>. QED  BY <1>1, <2>1, <3>2 DEF RegistryThere
  <2>2. ASSUME NEW i \in DOMAIN store[k], store' = [store EXCEPT ![k] = RemoveAt(@, i)], UNCHANGED exists
        PROVE  RegistryThere'
    BY <2>2, ValueRemoved
  <2>3. CASE Subkeys(k) = <<>> /\ exists' = exists \ {k} /\ store' = [store EXCEPT ![k] = <<>>]
    BY <2>3, KeyRemoved
  <2>. QED  BY <1>2, <2>1, <2>2, <2>3
<1>4. WalkTyped'
  BY <1>1 DEF OtherProgram, WalkTyped, Walking, walk
<1>5. steady' \subseteq steady /\ changes' \in Nat
  BY <1>1 DEF OtherProgram, Untouched, RestTyped
<1>6. RestTyped'
  BY <1>1, <1>5 DEF OtherProgram, RestTyped
<1>. QED  BY <1>3, <1>4, <1>6, ShapedParts

LEMMA ShapeStep == Shaped /\ [RegistryNext]_registryVars => Shaped'
<1> SUFFICES ASSUME Shaped, [RegistryNext]_registryVars PROVE Shaped'
  OBVIOUS
<1>1. CASE Export \/ OpenValues \/ EnumValue \/ OpenSubkeys \/ EnumSubkey \/ Descend
  BY <1>1, ExportShape, OpenValuesShape, EnumValueShape, OpenSubkeysShape, EnumSubkeyShape, DescendShape
<1>2. CASE ImportDocument \/ ImportValue
  BY <1>2, ImportDocumentShape, ImportValueShape
<1>3. CASE ImportDone
  <2>1. RegistryThere'
    BY <1>3, ClientLeavesRegistry DEF ImportDone, ClientOnly
  <2>2. WalkTyped'
    BY <1>3, ShapedParts DEF ImportDone, ClientOnly, WalkTyped, Walking, walk, Places
  <2>3. RestTyped'
    BY <1>3, ShapedParts DEF ImportDone, ClientOnly, RestTyped
  <2>. QED  BY <2>1, <2>2, <2>3, ShapedParts
<1>4. ASSUME NEW k \in KeySet, DeleteKey(k) \/ \E i \in DOMAIN store[k] : DeleteValue(k, i) \/ AskSize(k, i)
      PROVE  Shaped'
  BY <1>4, DeletionShape, AskSizeShape
<1>5. CASE ReadData
  BY <1>5, ReadDataShape
<1>6. CASE OtherProgram
  BY <1>6, OtherProgramShape
<1>7. CASE UNCHANGED registryVars
  BY <1>7, ShapedParts DEF registryVars, RegistryThere, WalkTyped, Walking, RestTyped
<1>. QED  BY <1>1, <1>2, <1>3, <1>4, <1>5, <1>6, <1>7 DEF RegistryNext

\* Type correctness of the registry, the walk, the snapshot and the import,
\* for every set of keys and any number of changes and failures.
THEOREM RegistryTypeCorrect == RegistrySpec => []RegistryTypeOK
<1>1. RegistryInit => Shaped
  BY RegistryInitShape
<1>2. Shaped /\ [RegistryNext]_registryVars => Shaped'
  BY ShapeStep
<1>3. Shaped => RegistryTypeOK
  BY DEF Shaped
<1>. QED  BY <1>1, <1>2, <1>3, PTL DEF RegistrySpec

-----------------------------------------------------------------------------
(* Only permitted changes *)

Permitted(k) == ~registryOptions.dryRun /\ WriteAllowed(Hive, k, registryOptions)

LEMMA StepPermitted ==
  ASSUME Shaped, RegistryNext, changes' = changes, NEW k \in KeySet, store'[k] # store[k]
  PROVE  Permitted(k)
<1>1. store \in [KeySet -> Seq(RegistryValues)]
  BY ShapedParts DEF RegistryThere
<1>2. ~OtherProgram
  BY ShapedParts DEF RestTyped, OtherProgram
<1>3. CASE ImportValue
  <2>1. /\ store' = [store EXCEPT ![Target(next)] = Set(@, Native(items[next].value))]
        /\ ~registryOptions.dryRun /\ WriteAllowed(Hive, Asked(next), registryOptions)
    BY <1>3 DEF ImportValue
  <2>2. k = Target(next)
    BY <1>1, <2>1
  <2>. QED  BY <2>1, <2>2 DEF Permitted, Asked
<1>4. ASSUME NEW j \in KeySet, DeleteKey(j) PROVE Permitted(k)
  <2>1. j = k
    BY <1>1, <1>4 DEF DeleteKey
  <2>. QED  BY <1>4, <2>1 DEF Permitted, DeleteKey
<1>5. ASSUME NEW j \in KeySet, NEW i \in DOMAIN store[j], DeleteValue(j, i) PROVE Permitted(k)
  <2>1. j = k
    BY <1>1, <1>5 DEF DeleteValue
  <2>. QED  BY <1>5, <2>1 DEF Permitted, DeleteValue
<1>6. ASSUME NEW j \in KeySet, NEW i \in DOMAIN store[j], AskSize(j, i) PROVE Permitted(k)
  BY <1>6 DEF AskSize
<1>7. CASE Export \/ OpenValues \/ EnumValue \/ OpenSubkeys \/ EnumSubkey \/ Descend
  BY <1>7 DEF Export, OpenValues, EnumValue, OpenSubkeys, EnumSubkey, Descend, ClientOnly
<1>8. CASE ImportDocument \/ ImportDone \/ ReadData
  BY <1>8 DEF ImportDocument, ImportDone, ReadData, ClientOnly
<1>. QED  BY <1>2, <1>3, <1>4, <1>5, <1>6, <1>7, <1>8 DEF RegistryNext

\* registry_write_allowed is asked for every key that a write or a deletion
\* touches, wherever the root of an import is; a dry run changes nothing.
THEOREM ChangesAlwaysPermitted == RegistrySpec => ChangesArePermitted
<1>1. RegistryInit => Shaped
  BY RegistryInitShape
<1>2. Shaped /\ [RegistryNext]_registryVars => Shaped'
  BY ShapeStep
<1>3. ASSUME Shaped, [RegistryNext]_registryVars
      PROVE  [changes' = changes => \A k \in KeySet : store'[k] # store[k] =>
                ~registryOptions.dryRun /\ WriteAllowed(Hive, k, registryOptions)]_registryVars
  BY <1>3, StepPermitted DEF Permitted
<1>. QED  BY <1>1, <1>2, <1>3, PTL DEF RegistrySpec, ChangesArePermitted

-----------------------------------------------------------------------------
(* The export is complete *)

\* What was not touched since the export began is still there.
SteadyThere ==
  Walking => \A s \in steady : IsPrefix(Source, s[1]) /\ s[2] \in ToSet(store[s[1]])

\* A change took away something that the enumeration in hand has counted: the
\* number that is missing will stop the export.
Doomed ==
  /\ index <= count /\ changes > 0
  /\ \/ at = "values" /\ (KeyInHand \notin exists \/ Len(store[KeyInHand]) < count)
     \/ at = "subkeys" /\ (KeyInHand \notin exists \/ Len(Subkeys(KeyInHand)) < count)
Counted ==
  changes = 0 =>
    /\ at = "values" => KeyInHand \in exists /\ Len(store[KeyInHand]) = count
    /\ at = "subkeys" => KeyInHand \in exists /\ Len(Subkeys(KeyInHand)) = count

\* A value is in the snapshot, or the walk will come to its key: below a key
\* that waits, or in the key in hand at a number that is still to come.
Exported(s) == \E i \in DOMAIN items : CombineKeyPath(Source, items[i].path) = s[1] /\ items[i].value = s[2]
Under(r, s) == IsPrefix(CombineKeyPath(Source, r), s[1])
UnderOne(paths, s) == \E i \in DOMAIN paths : Under(paths[i], s)
ValueAhead(s) ==
  s[1] = KeyInHand => \E i \in index .. count : i \in DOMAIN store[s[1]] /\ store[s[1]][i] = s[2]
SubkeyAhead(s) ==
  /\ s[1] # KeyInHand
  /\ \/ UnderOne(names, s)
     \/ \E i \in index .. count : i \in DOMAIN Subkeys(KeyInHand) /\ IsPrefix(Subkeys(KeyInHand)[i], s[1])
Ahead(s) ==
  \/ UnderOne(Tail(work), s)
  \/ /\ Under(Head(work), s)
     /\ at = "values" => ValueAhead(s)
     /\ at = "subkeys" => SubkeyAhead(s)
NothingLost ==
  changes <= 1 =>
    /\ Walking => Doomed \/ \A s \in steady : Exported(s) \/ Ahead(s)
    /\ at = "document" => \A s \in steady : Exported(s)

ExportInv == Shaped /\ SteadyThere /\ Counted /\ NothingLost

LEMMA SteadyFields ==
  ASSUME Shaped, NEW s \in steady
  PROVE  s[1] \in KeySet /\ s[2] \in RegistryValues /\ s[1] \in Seq(STRING) /\ store[s[1]] \in Seq(RegistryValues)
<1>1. s[1] \in KeySet /\ s[2] \in RegistryValues
  BY ShapedParts DEF RestTyped
<1>. QED  BY <1>1, KeysAreKeys, ShapedParts DEF RegistryThere, KeyPaths

\* A key is there with every key above it.
LEMMA AncestorsExist ==
  ASSUME Shaped, NEW k \in exists, NEW j \in Seq(STRING), Len(j) > 0, IsPrefix(j, k)
  PROVE  j \in exists
<1> DEFINE part(n) == SubSeq(k, 1, n)
           N == {n \in Len(j) .. Len(k) : part(n) \in exists}
<1>1. k \in Seq(STRING) /\ Len(j) \in Nat /\ Len(k) \in Nat /\ exists \subseteq KeySet
  BY KeysAreKeys, ShapedParts DEF KeyPaths, RegistryThere
<1>2. Len(j) <= Len(k) /\ \A i \in 1 .. Len(j) : j[i] = k[i]
  BY <1>1, PrefixElements
<1>3. \A n \in 0 .. Len(k) : part(n) \in Seq(STRING) /\ Len(part(n)) = n /\ \A i \in 1 .. n : part(n)[i] = k[i]
  BY <1>1
<1>. HIDE DEF part
<1>4. part(Len(k)) = k
  <2>1. part(Len(k)) \in Seq(STRING) /\ Len(part(Len(k))) = Len(k) /\ \A i \in 1 .. Len(k) : part(Len(k))[i] = k[i]
    BY <1>1, <1>3
  <2>. QED  BY <1>1, <2>1, SeqEqual
<1>5. Len(k) \in N
  BY <1>1, <1>2, <1>4
<1>6. N \subseteq Nat
  BY <1>1
<1>. HIDE DEF N
<1>7. PICK m \in N : \A n \in N : m <= n
  BY <1>5, <1>6, LeastNumber
<1>8. m \in Len(j) .. Len(k) /\ part(m) \in exists
  BY <1>7 DEF N
<1>9. m = Len(j)
  <2> SUFFICES ASSUME m # Len(j) PROVE FALSE
    OBVIOUS
  <2>1. PICK l \in Nat : l = m - 1 /\ l \in Len(j) .. Len(k) /\ l > 0
    BY <1>1, <1>8
  <2>2. part(m) \in Seq(STRING) /\ Len(part(m)) = m /\ m > 1 /\ \A i \in 1 .. m : part(m)[i] = k[i]
    BY <1>1, <1>3, <1>8, <2>1
  <2>3. Front(part(m)) \in exists
    BY <1>8, <2>2, ShapedParts DEF RegistryThere
  <2>4. Front(part(m)) \in Seq(STRING) /\ Len(Front(part(m))) = l /\ \A i \in 1 .. l : Front(part(m))[i] = part(m)[i]
    <3>1. Front(part(m)) \in Seq(STRING) /\ Len(Front(part(m))) = l /\ IsPrefix(Front(part(m)), part(m))
      BY <2>1, <2>2, FrontIsBefore
    <3>. QED  BY <2>2, <3>1, PrefixElements
  <2>5. part(l) \in Seq(STRING) /\ Len(part(l)) = l /\ \A i \in 1 .. l : part(l)[i] = k[i]
    BY <1>1, <1>3, <2>1
  <2>6. \A i \in 1 .. l : Front(part(m))[i] = part(l)[i]
    <3> SUFFICES ASSUME NEW i \in 1 .. l PROVE Front(part(m))[i] = part(l)[i]
      OBVIOUS
    <3>1. i \in 1 .. m
      BY <1>1, <1>8, <2>1
    <3>. QED  BY <2>2, <2>4, <2>5, <3>1
  <2>7. Front(part(m)) = part(l)
    BY <2>4, <2>5, <2>6, SeqEqual
  <2>8. l \in N
    BY <2>1, <2>3, <2>7 DEF N
  <2>. QED  BY <1>7, <1>8, <2>1, <2>8
<1>10. part(m) = j
  <2>1. part(m) \in Seq(STRING) /\ Len(part(m)) = Len(j) /\ \A i \in 1 .. Len(j) : part(m)[i] = j[i]
    BY <1>1, <1>2, <1>3, <1>8, <1>9
  <2>. QED  BY <2>1, SeqEqual
<1>. QED  BY <1>8, <1>10

LEMMA UnderHeadOrTail ==
  ASSUME NEW w \in Seq(KeyPaths), w # <<>>, NEW s
  PROVE  UnderOne(w, s) <=> Under(Head(w), s) \/ UnderOne(Tail(w), s)
<1>1. Len(w) \in Nat /\ Len(w) > 0 /\ DOMAIN w = 1 .. Len(w) /\ Head(w) = w[1]
  OBVIOUS
<1>2. DOMAIN Tail(w) = 1 .. Len(w) - 1 /\ \A i \in 1 .. Len(w) - 1 : Tail(w)[i] = w[i + 1]
  BY <1>1, HeadTailProperties
<1>3. \A i \in 1 .. Len(w) - 1 : i + 1 \in DOMAIN w
  BY <1>1
<1>4. ASSUME NEW i \in DOMAIN w, Under(w[i], s) PROVE Under(Head(w), s) \/ UnderOne(Tail(w), s)
  <2>1. CASE i = 1
    BY <1>1, <1>4, <2>1
  <2>2. CASE i # 1
    <3>1. PICK n \in 1 .. Len(w) - 1 : n + 1 = i
      <4>1. i - 1 \in 1 .. Len(w) - 1 /\ i - 1 + 1 = i
        BY <1>1, <2>2
      <4>. QED  BY <4>1
    <3>. QED  BY <1>2, <1>4, <3>1 DEF UnderOne
  <2>. QED  BY <2>1, <2>2
<1>. QED  BY <1>1, <1>2, <1>3, <1>4 DEF UnderOne

LEMMA UnderConcat ==
  ASSUME NEW v \in Seq(KeyPaths), NEW w \in Seq(KeyPaths), NEW s, UnderOne(v, s) \/ UnderOne(w, s)
  PROVE  UnderOne(v \o w, s)
<1>1. /\ v \o w \in Seq(KeyPaths) /\ Len(v \o w) = Len(v) + Len(w)
      /\ \A i \in 1 .. Len(v) : (v \o w)[i] = v[i]
      /\ \A i \in 1 .. Len(w) : (v \o w)[Len(v) + i] = w[i]
  BY ConcatElements
<1>2. Len(v) \in Nat /\ Len(w) \in Nat /\ DOMAIN v = 1 .. Len(v) /\ DOMAIN w = 1 .. Len(w)
  OBVIOUS
<1>3. DOMAIN (v \o w) = 1 .. Len(v) + Len(w)
  BY <1>1
<1>4. (\A i \in DOMAIN v : i \in DOMAIN (v \o w)) /\ (\A i \in DOMAIN w : Len(v) + i \in DOMAIN (v \o w))
  BY <1>2, <1>3
<1>. QED  BY <1>1, <1>2, <1>4 DEF UnderOne

\* A key above an existing one that is not in hand has a child on the way.
LEMMA ChildOnTheWay ==
  ASSUME Shaped, NEW k \in Seq(STRING), NEW j \in exists, IsPrefix(k, j), k # j
  PROVE  \E i \in DOMAIN Subkeys(k) : IsPrefix(Subkeys(k)[i], j)
<1> DEFINE c == Append(k, j[Len(k) + 1])
<1>1. j \in Seq(STRING) /\ exists \subseteq KeySet
  BY KeysAreKeys, ShapedParts DEF KeyPaths, RegistryThere
<1>2. Len(k) + 1 <= Len(j) /\ c \in Seq(STRING) /\ IsPrefix(c, j)
  BY <1>1, NameBelow
<1>3. j[Len(k) + 1] \in STRING
  BY <1>1, <1>2
<1>4. Len(c) = Len(k) + 1 /\ Len(k) \in Nat /\ \A i \in 1 .. Len(k) : k[i] = c[i]
  BY <1>3
<1>. HIDE DEF c
<1>5. IsPrefix(k, c)
  BY <1>2, <1>4, PrefixElements
<1>6. c \in exists
  BY <1>2, <1>4, AncestorsExist
<1>7. c \in ChildrenIn(exists, k)
  BY <1>4, <1>5, <1>6 DEF ChildrenIn
<1>8. PICK i \in DOMAIN SubkeysIn(exists, k) : SubkeysIn(exists, k)[i] = c
  BY <1>1, <1>7, SubkeysAreChildren
<1>. QED  BY <1>2, <1>8, SubkeysAreSubkeysIn

LEMMA ExportStarts == ExportInv /\ Export => SteadyThere' /\ Counted' /\ NothingLost'
<1> SUFFICES ASSUME ExportInv, Export PROVE SteadyThere' /\ Counted' /\ NothingLost'
  OBVIOUS
<1>1. at' = "opening" /\ work' = << <<>> >> /\ store' = store
  BY DEF Export, ClientOnly
<1>2. \A s \in steady' : IsPrefix(Source, s[1]) /\ s[2] \in ToSet(store[s[1]])
  BY DEF Export
<1>3. ASSUME NEW s \in steady' PROVE Ahead(s)'
  <2>1. CombineKeyPath(Source, <<>>) = Source
    <3>1. Source \in Seq(STRING)
      BY RegistryAssumption DEF KeyPaths
    <3>. QED  BY <3>1 DEF CombineKeyPath
  <2>2. Head(work') = <<>>
    BY <1>1
  <2>3. Under(Head(work'), s)
    BY <1>2, <2>1, <2>2 DEF Under
  <2>. QED  BY <1>1, <2>3 DEF Ahead
<1>. QED  BY <1>1, <1>2, <1>3 DEF SteadyThere, Counted, NothingLost, Walking

LEMMA OpenValuesKeeps == ExportInv /\ OpenValues => SteadyThere' /\ Counted' /\ NothingLost'
<1> SUFFICES ASSUME ExportInv, OpenValues PROVE SteadyThere' /\ Counted' /\ NothingLost'
  OBVIOUS
<1>1. at = "opening" /\ UNCHANGED <<work, names, items, steady, store, exists, changes>>
  BY DEF OpenValues, ClientOnly
<1>2. KeyInHand' = KeyInHand
  BY <1>1 DEF KeyInHand
<1>3. CASE KeyInHand \in exists /\ count' = Len(store[KeyInHand]) /\ index' = 1 /\ at' = "values"
  <2>1. SteadyThere'
    BY <1>1, <1>3 DEF ExportInv, SteadyThere, Walking
  <2>2. Counted'
    BY <1>1, <1>2, <1>3 DEF Counted
  <2>3. ASSUME NEW s \in steady, changes <= 1 PROVE Exported(s)' \/ Ahead(s)'
    <3>1. Exported(s) \/ Ahead(s)
      BY <1>1, <2>3 DEF ExportInv, NothingLost, Walking, Doomed
    <3>2. CASE Exported(s)
      BY <1>1, <3>2 DEF Exported
    <3>3. CASE UnderOne(Tail(work), s)
      BY <1>1, <3>3 DEF Ahead
    <3>4. CASE Under(Head(work), s)
      <4>1. ValueAhead(s)'
        <5>1. store[s[1]] \in Seq(RegistryValues) /\ s[2] \in ToSet(store[s[1]])
          BY <1>1, SteadyFields DEF ExportInv, SteadyThere, Walking
        <5>2. PICK i \in DOMAIN store[s[1]] : store[s[1]][i] = s[2]
          BY <5>1 DEF ToSet
        <5>3. i \in 1 .. Len(store[s[1]])
          BY <5>1
        <5>. QED  BY <1>1, <1>2, <1>3, <5>2, <5>3 DEF ValueAhead
      <4>. QED  BY <1>1, <1>3, <3>4, <4>1 DEF Ahead
    <3>. QED  BY <3>1, <3>2, <3>3, <3>4 DEF Ahead
  <2>. QED  BY <1>1, <1>3, <2>1, <2>2, <2>3 DEF NothingLost
<1>4. CASE at' = "done"
  BY <1>4 DEF SteadyThere, Counted, NothingLost, Walking
<1>. QED  BY <1>3, <1>4 DEF OpenValues, Stops

\* An enumeration that is doomed is so at the next number too.
LEMMA DoomedStays ==
  ASSUME Shaped, Doomed, EnumValue \/ EnumSubkey, at' # "done"
  PROVE  Doomed'
<1>1. index \in Nat \ {0} /\ count \in Nat
  BY ShapedParts DEF WalkTyped
<1>2. UNCHANGED <<work, count, store, exists, changes>>
  BY DEF EnumValue, EnumSubkey, ClientOnly
<1>3. KeyInHand' = KeyInHand /\ Subkeys(KeyInHand)' = Subkeys(KeyInHand)
  BY <1>2 DEF KeyInHand, Subkeys, SubkeyPlaces
<1>4. CASE EnumValue
  <2>1. at = "values" /\ at' = "values" /\ KeyInHand \in exists /\ index <= Len(store[KeyInHand]) /\ index' = index + 1
    BY <1>4 DEF EnumValue, Stops
  <2>2. Len(store[KeyInHand]) < count /\ changes > 0 /\ Len(store[KeyInHand]) \in Nat
    BY <2>1, ShapedParts DEF Doomed, RegistryThere
  <2>3. index' <= count
    BY <1>1, <2>1, <2>2
  <2>. QED  BY <1>2, <1>3, <2>1, <2>2, <2>3 DEF Doomed
<1>5. CASE EnumSubkey
  <2>1. at = "subkeys" /\ at' = "subkeys" /\ KeyInHand \in exists /\ index <= Len(Subkeys(KeyInHand)) /\ index' = index + 1
    BY <1>5 DEF EnumSubkey, Stops
  <2>2. Len(Subkeys(KeyInHand)) < count /\ changes > 0
    BY <2>1 DEF Doomed
  <2>3. Len(Subkeys(KeyInHand)) \in Nat
    BY SubkeysAreSubkeysIn, SubkeysAreChildren, ShapedParts DEF RegistryThere
  <2>4. index' <= count
    BY <1>1, <2>1, <2>2, <2>3
  <2>. QED  BY <1>2, <1>3, <2>1, <2>2, <2>4 DEF Doomed
<1>. QED  BY <1>4, <1>5

LEMMA EnumValueKeeps == ExportInv /\ EnumValue => SteadyThere' /\ Counted' /\ NothingLost'
<1> SUFFICES ASSUME ExportInv, EnumValue PROVE SteadyThere' /\ Counted' /\ NothingLost'
  OBVIOUS
<1>1. at = "values" /\ index <= count /\ UNCHANGED <<work, names, count, steady, store, exists, changes>>
  BY DEF EnumValue, ClientOnly
<1>2. KeyInHand' = KeyInHand
  BY <1>1 DEF KeyInHand
<1>3. index \in Nat \ {0} /\ count \in Nat /\ items \in Seq(SnapshotItems)
  BY ShapedParts DEF ExportInv, WalkTyped, RestTyped
<1>4. CASE KeyInHand \in exists /\ index <= Len(store[KeyInHand])
  <2> DEFINE item == [path |-> Head(work), value |-> store[KeyInHand][index]]
  <2>1. items' = Append(items, item) /\ index' = index + 1 /\ at' = "values"
    BY <1>1, <1>4 DEF EnumValue
  <2>2. SteadyThere'
    BY <1>1, <2>1 DEF ExportInv, SteadyThere, Walking
  <2>3. Counted'
    BY <1>1, <1>2, <2>1 DEF ExportInv, Counted
  <2>4. item \in SnapshotItems
    <3>1. items' \in Seq(SnapshotItems)
      BY EnumValueShape, ShapedParts DEF ExportInv, RestTyped
    <3>2. Len(items) + 1 \in DOMAIN items' /\ items'[Len(items) + 1] = item
      BY <1>3, <2>1
    <3>. QED  BY <3>1, <3>2
  <2>5. item.path = Head(work) /\ item.value = store[KeyInHand][index]
    OBVIOUS
  <2>. HIDE DEF item
  <2>6. /\ \A i \in DOMAIN items : i \in DOMAIN items' /\ items'[i] = items[i]
        /\ Len(items) + 1 \in DOMAIN items' /\ items'[Len(items) + 1] = item
    BY <1>3, <2>1, <2>4
  <2>7. Doomed => Doomed'
    BY <2>1, DoomedStays DEF ExportInv
  <2>8. ASSUME NEW s \in steady, Exported(s) \/ Ahead(s) PROVE Exported(s)' \/ Ahead(s)'
    <3>2. CASE Exported(s)
      BY <2>6, <3>2 DEF Exported
    <3>3. CASE UnderOne(Tail(work), s)
      BY <1>1, <3>3 DEF Ahead
    <3>4. CASE Under(Head(work), s) /\ ValueAhead(s)
      <4>1. CASE s[1] # KeyInHand
        BY <1>1, <1>2, <2>1, <3>4, <4>1 DEF Ahead, ValueAhead
      <4>2. CASE s[1] = KeyInHand
        <5>1. PICK i \in index .. count : i \in DOMAIN store[s[1]] /\ store[s[1]][i] = s[2]
          BY <3>4, <4>2 DEF ValueAhead
        <5>2. CASE i = index
          <6>1. CombineKeyPath(Source, item.path) = s[1] /\ item.value = s[2]
            BY <2>5, <4>2, <5>1, <5>2 DEF KeyInHand
          <6>. QED  BY <2>6, <6>1 DEF Exported
        <5>3. CASE i # index
          <6>1. i \in index' .. count
            BY <1>3, <2>1, <5>3
          <6>2. ValueAhead(s)'
            BY <1>1, <5>1, <6>1 DEF ValueAhead
          <6>. QED  BY <1>1, <2>1, <3>4, <6>2 DEF Ahead
        <5>. QED  BY <5>2, <5>3
      <4>. QED  BY <4>1, <4>2
    <3>. QED  BY <1>1, <2>8, <3>2, <3>3, <3>4 DEF Ahead
  <2>9. NothingLost'
    BY <1>1, <2>1, <2>7, <2>8 DEF ExportInv, NothingLost, Walking
  <2>. QED  BY <2>2, <2>3, <2>9
<1>5. CASE ~(KeyInHand \in exists /\ index <= Len(store[KeyInHand]))
  <2>1. at' = "done"
    BY <1>5 DEF EnumValue, Stops
  <2>. QED  BY <2>1 DEF SteadyThere, Counted, NothingLost, Walking
<1>. QED  BY <1>4, <1>5

LEMMA OpenSubkeysKeeps == ExportInv /\ OpenSubkeys => SteadyThere' /\ Counted' /\ NothingLost'
<1> SUFFICES ASSUME ExportInv, OpenSubkeys PROVE SteadyThere' /\ Counted' /\ NothingLost'
  OBVIOUS
<1>1. at = "values" /\ index > count /\ UNCHANGED <<work, items, steady, store, exists, changes>>
  BY DEF OpenSubkeys, ClientOnly
<1>2. KeyInHand' = KeyInHand /\ Subkeys(KeyInHand)' = Subkeys(KeyInHand)
  BY <1>1 DEF KeyInHand, Subkeys, SubkeyPlaces
<1>3. index \in Nat \ {0} /\ count \in Nat
  BY ShapedParts DEF ExportInv, WalkTyped
<1>4. CASE KeyInHand \in exists /\ count' = Len(Subkeys(KeyInHand)) /\ index' = 1 /\ names' = <<>> /\ at' = "subkeys"
  <2>1. SteadyThere'
    BY <1>1, <1>4 DEF ExportInv, SteadyThere, Walking
  <2>2. Counted'
    BY <1>1, <1>2, <1>4 DEF Counted
  <2>3. ASSUME NEW s \in steady, changes <= 1 PROVE Exported(s)' \/ Ahead(s)'
    <3>1. Exported(s) \/ Ahead(s)
      BY <1>1, <1>3, <2>3 DEF ExportInv, NothingLost, Walking, Doomed
    <3>2. CASE Exported(s)
      BY <1>1, <3>2 DEF Exported
    <3>3. CASE UnderOne(Tail(work), s)
      BY <1>1, <3>3 DEF Ahead
    <3>4. CASE Under(Head(work), s) /\ ValueAhead(s)
      <4>1. s[1] # KeyInHand
        BY <1>1, <1>3, <3>4 DEF ValueAhead
      <4>2. IsPrefix(KeyInHand, s[1])
        BY <3>4 DEF Under, KeyInHand
      <4>3. KeyInHand \in Seq(STRING)
        BY <1>1, InHandType DEF ExportInv, Shaped, RegistryShape, Walking, KeyPaths
      <4>4. s[1] \in exists
        <5>1. s[1] \in KeySet /\ s[2] \in ToSet(store[s[1]])
          BY <1>1, SteadyFields DEF ExportInv, SteadyThere, Walking
        <5>2. store[s[1]] # <<>>
          BY <5>1 DEF ToSet
        <5>. QED  BY <5>1, <5>2, ShapedParts DEF ExportInv, RegistryThere
      <4>5. PICK i \in DOMAIN Subkeys(KeyInHand) : IsPrefix(Subkeys(KeyInHand)[i], s[1])
        BY <4>1, <4>2, <4>3, <4>4, ChildOnTheWay DEF ExportInv
      <4>6. DOMAIN Subkeys(KeyInHand) = 1 .. Len(Subkeys(KeyInHand))
        BY SubkeysAreSubkeysIn, SubkeysAreChildren, ShapedParts DEF ExportInv, RegistryThere
      <4>7. SubkeyAhead(s)'
        BY <1>2, <1>4, <4>1, <4>5, <4>6 DEF SubkeyAhead
      <4>. QED  BY <1>1, <1>4, <3>4, <4>7 DEF Ahead
    <3>. QED  BY <1>1, <3>1, <3>2, <3>3, <3>4 DEF Ahead
  <2>. QED  BY <1>1, <1>4, <2>1, <2>2, <2>3 DEF NothingLost
<1>5. CASE at' = "done"
  BY <1>5 DEF SteadyThere, Counted, NothingLost, Walking
<1>. QED  BY <1>4, <1>5 DEF OpenSubkeys, Stops

LEMMA EnumSubkeyKeeps == ExportInv /\ EnumSubkey => SteadyThere' /\ Counted' /\ NothingLost'
<1> SUFFICES ASSUME ExportInv, EnumSubkey PROVE SteadyThere' /\ Counted' /\ NothingLost'
  OBVIOUS
<1>1. at = "subkeys" /\ index <= count /\ UNCHANGED <<work, items, count, steady, store, exists, changes>>
  BY DEF EnumSubkey, ClientOnly
<1>2. KeyInHand' = KeyInHand /\ Subkeys(KeyInHand)' = Subkeys(KeyInHand)
  BY <1>1 DEF KeyInHand, Subkeys, SubkeyPlaces
<1>3. index \in Nat \ {0} /\ count \in Nat /\ names \in Seq(KeyPaths) /\ work # <<>> /\ RegistryTypeOK
  BY <1>1, ShapedParts DEF ExportInv, WalkTyped, Walking, Shaped
<1>4. CASE KeyInHand \in exists /\ index <= Len(Subkeys(KeyInHand))
  <2> DEFINE name == Append(Head(work), Last(Subkeys(KeyInHand)[index]))
  <2>1. names' = Append(names, name) /\ index' = index + 1 /\ at' = "subkeys"
    BY <1>1, <1>4 DEF EnumSubkey
  <2>2. SteadyThere'
    BY <1>1, <2>1 DEF ExportInv, SteadyThere, Walking
  <2>3. Counted'
    BY <1>1, <1>2, <2>1 DEF ExportInv, Counted
  <2>4. name \in KeyPaths /\ CombineKeyPath(Source, name) = Subkeys(KeyInHand)[index]
    BY <1>3, <1>4, SubkeyInHand, ChildIsBelow
  <2>. HIDE DEF name
  <2>5. /\ \A i \in DOMAIN names : i \in DOMAIN names' /\ names'[i] = names[i]
        /\ Len(names) + 1 \in DOMAIN names' /\ names'[Len(names) + 1] = name
    BY <1>3, <2>1, <2>4
  <2>7. Doomed => Doomed'
    BY <2>1, DoomedStays DEF ExportInv
  <2>8. ASSUME NEW s \in steady, Exported(s) \/ Ahead(s) PROVE Exported(s)' \/ Ahead(s)'
    <3>2. CASE Exported(s)
      BY <1>1, <3>2 DEF Exported
    <3>3. CASE UnderOne(Tail(work), s)
      BY <1>1, <3>3 DEF Ahead
    <3>4. CASE Under(Head(work), s) /\ SubkeyAhead(s)
      <4>1. CASE UnderOne(names, s)
        <5>1. UnderOne(names, s)'
          BY <2>5, <4>1 DEF UnderOne
        <5>. QED  BY <1>1, <1>2, <2>1, <3>4, <5>1 DEF Ahead, SubkeyAhead
      <4>2. ASSUME NEW i \in index .. count, i \in DOMAIN Subkeys(KeyInHand), IsPrefix(Subkeys(KeyInHand)[i], s[1])
            PROVE  Ahead(s)'
        <5>1. CASE i = index
          <6>1. UnderOne(names, s)'
            BY <2>4, <2>5, <4>2, <5>1 DEF UnderOne, Under
          <6>. QED  BY <1>1, <1>2, <2>1, <3>4, <6>1 DEF Ahead, SubkeyAhead
        <5>2. CASE i # index
          <6>1. i \in index' .. count
            BY <1>3, <2>1, <5>2
          <6>2. SubkeyAhead(s)'
            BY <1>1, <1>2, <3>4, <4>2, <6>1 DEF SubkeyAhead
          <6>. QED  BY <1>1, <2>1, <3>4, <6>2 DEF Ahead
        <5>. QED  BY <5>1, <5>2
      <4>. QED  BY <3>4, <4>1, <4>2 DEF SubkeyAhead
    <3>. QED  BY <1>1, <2>8, <3>2, <3>3, <3>4 DEF Ahead
  <2>9. NothingLost'
    BY <1>1, <2>1, <2>7, <2>8 DEF ExportInv, NothingLost, Walking
  <2>. QED  BY <2>2, <2>3, <2>9
<1>5. CASE ~(KeyInHand \in exists /\ index <= Len(Subkeys(KeyInHand)))
  <2>1. at' = "done"
    BY <1>5 DEF EnumSubkey, Stops
  <2>. QED  BY <2>1 DEF SteadyThere, Counted, NothingLost, Walking
<1>. QED  BY <1>4, <1>5

LEMMA DescendKeeps == ExportInv /\ Descend => SteadyThere' /\ Counted' /\ NothingLost'
<1> SUFFICES ASSUME ExportInv, Descend PROVE SteadyThere' /\ Counted' /\ NothingLost'
  OBVIOUS
<1>1. /\ at = "subkeys" /\ index > count /\ UNCHANGED <<items, steady, store, changes>>
      /\ work' = names \o Tail(work) /\ at' = IF work' = <<>> THEN "document" ELSE "opening"
  BY DEF Descend, ClientOnly
<1>2. index \in Nat \ {0} /\ count \in Nat /\ names \in Seq(KeyPaths) /\ work # <<>> /\ RegistryTypeOK
  BY <1>1, ShapedParts DEF ExportInv, WalkTyped, Walking, Shaped
<1>3. Tail(work) \in Seq(KeyPaths) /\ work' \in Seq(KeyPaths)
  BY <1>1, <1>2, InHandType
<1>4. SteadyThere'
  BY <1>1 DEF ExportInv, SteadyThere, Walking
<1>5. Counted'
  BY <1>1 DEF Counted
<1>6. ASSUME NEW s \in steady, changes <= 1 PROVE Exported(s)' \/ UnderOne(work', s)
  <2>1. Exported(s) \/ Ahead(s)
    BY <1>1, <1>2, <1>6 DEF ExportInv, NothingLost, Walking, Doomed
  <2>2. CASE Exported(s)
    BY <1>1, <2>2 DEF Exported
  <2>3. CASE Ahead(s)
    <3>1. UnderOne(Tail(work), s) \/ UnderOne(names, s)
      BY <1>1, <1>2, <2>3 DEF Ahead, SubkeyAhead
    <3>. QED  BY <1>1, <1>2, <1>3, <3>1, UnderConcat
  <2>. QED  BY <2>1, <2>2, <2>3
<1>7. CASE work' = <<>>
  <2>1. \A s : ~UnderOne(work', s)
    BY <1>7 DEF UnderOne
  <2>. QED  BY <1>1, <1>4, <1>5, <1>6, <1>7, <2>1 DEF NothingLost, Walking
<1>8. CASE work' # <<>>
  <2>1. \A s : UnderOne(work', s) => Under(Head(work'), s) \/ UnderOne(Tail(work'), s)
    BY <1>3, <1>8, UnderHeadOrTail
  <2>2. at' = "opening"
    BY <1>1, <1>8
  <2>3. \A s : UnderOne(work', s) => Ahead(s)'
    BY <2>1, <2>2 DEF Ahead
  <2>. QED  BY <1>1, <1>4, <1>5, <1>6, <2>2, <2>3 DEF NothingLost, Walking
<1>. QED  BY <1>7, <1>8

\* A change by the other program: one of three, at a key of the source.
SetsValue(k) ==
  \E v \in NewValues :
    /\ store' = [store EXCEPT ![k] = Set(@, v)] /\ exists' = exists
    /\ steady' = {s \in steady : s[1] # k \/ s[2].name # v.name}
RemovesValue(k) ==
  \E i \in DOMAIN store[k] :
    /\ store' = [store EXCEPT ![k] = RemoveAt(@, i)] /\ exists' = exists
    /\ steady' = {s \in steady : s[1] # k \/ s[2].name # store[k][i].name}
RemovesKey(k) ==
  /\ Subkeys(k) = <<>> /\ store' = [store EXCEPT ![k] = <<>>] /\ exists' = exists \ {k}
  /\ steady' = {s \in steady : s[1] # k}

LEMMA OtherProgramDoes ==
  ASSUME OtherProgram
  PROVE  /\ UNCHANGED <<registryOptions, at, work, index, count, names, items, format, next, ok, got, failures>>
         /\ at \in {"opening", "values", "subkeys", "reading"} /\ changes' = changes + 1
         /\ \E k \in exists : IsPrefix(Source, k) /\ (SetsValue(k) \/ RemovesValue(k) \/ RemovesKey(k))
BY DEF OtherProgram, Untouched, SetsValue, RemovesValue, RemovesKey, walk

\* What is steady keeps its key and, until it moves, its number.
LEMMA SteadyStays ==
  ASSUME Shaped, NEW k \in exists, SetsValue(k) \/ RemovesValue(k) \/ RemovesKey(k),
         NEW s \in steady', s[2] \in ToSet(store[s[1]])
  PROVE  /\ s \in steady /\ s[2] \in ToSet(store'[s[1]])
         /\ s[1] # k \/ SetsValue(k) =>
              \A i \in DOMAIN store[s[1]] : store[s[1]][i] = s[2] => i \in DOMAIN store'[s[1]] /\ store'[s[1]][i] = s[2]
<1>1. s \in steady /\ k \in KeySet
  BY ShapedParts DEF SetsValue, RemovesValue, RemovesKey, RegistryThere
<1>2. s[1] \in KeySet /\ s[2] \in RegistryValues /\ store[s[1]] \in Seq(RegistryValues) /\ NamesDiffer(store[s[1]])
  BY <1>1, SteadyFields, ShapedParts DEF RegistryThere
<1>3. CASE SetsValue(k)
  <2>1. PICK v \in NewValues :
          store' = [store EXCEPT ![k] = Set(@, v)] /\ (s[1] # k \/ s[2].name # v.name)
    BY <1>3 DEF SetsValue
  <2>2. v \in RegistryValues
    BY RegistryAssumption
  <2>3. store'[k] = Set(store[k], v) /\ \A j \in KeySet : j # k => store'[j] = store[j]
    BY <1>1, <2>1, <2>2, ValueSet
  <2>4. \A i \in DOMAIN store[s[1]] : store[s[1]][i] = s[2] => i \in DOMAIN store'[s[1]] /\ store'[s[1]][i] = s[2]
    <3>1. CASE s[1] # k
      BY <1>2, <2>3, <3>1
    <3>2. CASE s[1] = k
      <4>1. s[2].name # v.name
        BY <2>1, <3>2
      <4>2. \A i \in DOMAIN store[k] : i \in DOMAIN Set(store[k], v) /\ (store[k][i].name # v.name => Set(store[k], v)[i] = store[k][i])
        BY <1>2, <2>2, <3>2, SetKeeps
      <4>. QED  BY <2>3, <3>2, <4>1, <4>2
    <3>. QED  BY <3>1, <3>2
  <2>. QED  BY <1>1, <2>4 DEF ToSet
<1>4. CASE RemovesValue(k)
  <2>1. PICK i \in DOMAIN store[k] :
          /\ store' = [store EXCEPT ![k] = RemoveAt(@, i)] /\ exists' = exists
          /\ s[1] # k \/ s[2].name # store[k][i].name
    BY <1>4 DEF RemovesValue
  <2>2. store'[k] = RemoveAt(store[k], i) /\ \A j \in KeySet : j # k => store'[j] = store[j]
    BY <1>1, <2>1, ValueRemoved
  <2>3. CASE s[1] # k
    BY <1>1, <1>2, <2>2, <2>3
  <2>4. CASE s[1] = k
    <3>1. PICK j \in DOMAIN store[k] : store[k][j] = s[2]
      BY <2>4 DEF ToSet
    <3>2. j # i
      BY <2>1, <2>4, <3>1
    <3>3. store[k][j] \in ToSet(RemoveAt(store[k], i))
      BY <1>2, <2>4, <3>2, RemovalKeeps
    <3>4. ~SetsValue(k) \/ \A n \in DOMAIN store[s[1]] : store[s[1]][n] = s[2] => n \in DOMAIN store'[s[1]] /\ store'[s[1]][n] = s[2]
      BY <1>3
    <3>. QED  BY <1>1, <2>2, <2>4, <3>1, <3>3, <3>4
  <2>. QED  BY <2>3, <2>4
<1>5. CASE RemovesKey(k)
  <2>1. s[1] # k /\ \A j \in KeySet : j # k => store'[j] = store[j]
    BY <1>5, KeyRemoved DEF RemovesKey
  <2>. QED  BY <1>1, <1>2, <2>1
<1>. QED  BY <1>3, <1>4, <1>5

\* A change either leaves every number in hand where it was or takes one away.
LEMMA NumbersInHand ==
  ASSUME Shaped, NEW k \in exists, SetsValue(k) \/ RemovesValue(k) \/ RemovesKey(k),
         NEW h \in KeyPaths
  PROVE  /\ \/ k # h \/ SetsValue(k)
            \/ h \notin exists' \/ Len(store'[h]) < Len(store[h])
         /\ \/ SubkeysIn(exists', h) = SubkeysIn(exists, h)
            \/ Len(SubkeysIn(exists', h)) < Len(SubkeysIn(exists, h))
<1>1. k \in KeySet /\ exists \subseteq KeySet /\ store[k] \in Seq(RegistryValues)
  BY ShapedParts DEF RegistryThere
<1>2. CASE SetsValue(k)
  BY <1>2 DEF SetsValue
<1>3. CASE RemovesValue(k)
  <2>1. PICK i \in DOMAIN store[k] : store' = [store EXCEPT ![k] = RemoveAt(@, i)] /\ exists' = exists
    BY <1>3 DEF RemovesValue
  <2>2. store'[k] = RemoveAt(store[k], i)
    BY <2>1, ValueRemoved
  <2>3. Len(store'[k]) = Len(store[k]) - 1 /\ Len(store[k]) \in Nat
    BY <1>1, <2>2, RemovalKeeps
  <2>. QED  BY <2>1, <2>3
<1>4. CASE RemovesKey(k)
  <2>1. exists' = exists \ {k}
    BY <1>4 DEF RemovesKey
  <2>2. Len(SubkeysIn(exists, h)) \in Nat
    BY <1>1, SubkeysAreChildren
  <2>3. \/ SubkeysIn(exists', h) = SubkeysIn(exists, h)
        \/ Len(SubkeysIn(exists', h)) = Len(SubkeysIn(exists, h)) - 1
    BY <1>1, <2>1, SubkeysAfterRemoval
  <2>. QED  BY <2>1, <2>2, <2>3
<1>. QED  BY <1>2, <1>3, <1>4

LEMMA OtherProgramKeeps == ExportInv /\ OtherProgram => SteadyThere' /\ Counted' /\ NothingLost'
<1> SUFFICES ASSUME ExportInv, OtherProgram PROVE SteadyThere' /\ Counted' /\ NothingLost'
  OBVIOUS
<1>1. /\ UNCHANGED <<at, work, index, count, names, items>> /\ changes' = changes + 1
      /\ at \in {"opening", "values", "subkeys", "reading"}
  BY OtherProgramDoes
<1>2. PICK k \in exists : SetsValue(k) \/ RemovesValue(k) \/ RemovesKey(k)
  BY OtherProgramDoes
<1>3. index \in Nat \ {0} /\ count \in Nat /\ changes \in Nat /\ RegistryTypeOK
  BY ShapedParts DEF ExportInv, WalkTyped, RestTyped, Shaped
<1>4. steady' \subseteq steady
  BY <1>2 DEF SetsValue, RemovesValue, RemovesKey
<1>5. SteadyThere'
  BY <1>1, <1>2, <1>4, SteadyStays DEF ExportInv, SteadyThere, Walking
<1>6. Counted'
  BY <1>1, <1>3 DEF Counted
<1> SUFFICES NothingLost'
  BY <1>5, <1>6
<1>7. CASE ~Walking
  BY <1>1, <1>7 DEF NothingLost, Walking
<1>8. CASE Walking /\ changes' <= 1
  <2>1. work # <<>> /\ KeyInHand \in KeyPaths /\ KeyInHand' = KeyInHand /\ changes = 0 /\ changes' > 0
    BY <1>1, <1>3, <1>8, InHandType DEF ExportInv, Shaped, RegistryShape, KeyInHand
  <2>2. \A s \in steady : Exported(s) \/ Ahead(s)
    BY <1>8, <2>1 DEF ExportInv, NothingLost, Doomed
  <2>3. /\ at = "values" => Len(store[KeyInHand]) = count
        /\ at = "subkeys" => Len(Subkeys(KeyInHand)) = count
    BY <2>1 DEF ExportInv, Counted
  <2>4. Subkeys(KeyInHand) = SubkeysIn(exists, KeyInHand) /\ Subkeys(KeyInHand)' = SubkeysIn(exists', KeyInHand)
    <3>1. \A h : Subkeys(h) = SubkeysIn(exists, h)
      BY SubkeysAreSubkeysIn
    <3>2. ASSUME NEW h PROVE Subkeys(h)' = SubkeysIn(exists', h)
      BY SubkeysAreSubkeysIn
    <3>3. Subkeys(KeyInHand)' = SubkeysIn(exists', KeyInHand')
      BY <3>2 DEF Subkeys, SubkeyPlaces
    <3>. QED  BY <2>1, <3>1, <3>3
  <2>5. \/ k # KeyInHand \/ SetsValue(k)
        \/ KeyInHand \notin exists' \/ Len(store'[KeyInHand]) < Len(store[KeyInHand])
    BY <1>2, <2>1, NumbersInHand DEF ExportInv
  <2>6. \/ SubkeysIn(exists', KeyInHand) = SubkeysIn(exists, KeyInHand)
        \/ Len(SubkeysIn(exists', KeyInHand)) < Len(SubkeysIn(exists, KeyInHand))
    BY <1>2, <2>1, NumbersInHand DEF ExportInv
  <2>7. CASE at = "opening"
    <3>1. \A s \in steady : Exported(s)' \/ Ahead(s)'
      BY <1>1, <2>2, <2>7 DEF Exported, Ahead
    <3>. QED  BY <1>1, <1>4, <2>7, <3>1 DEF NothingLost
  <2>8. CASE at = "values"
    <3>1. CASE index <= count /\ (KeyInHand \notin exists' \/ Len(store'[KeyInHand]) < count)
      BY <1>1, <2>1, <2>8, <3>1 DEF NothingLost, Doomed
    <3>2. CASE index > count \/ k # KeyInHand \/ SetsValue(k)
      <4>1. ASSUME NEW s \in steady' PROVE Exported(s)' \/ Ahead(s)'
        <5>1. CASE Exported(s)
          BY <1>1, <5>1 DEF Exported
        <5>2. CASE UnderOne(Tail(work), s)
          BY <1>1, <5>2 DEF Ahead
        <5>3. CASE Under(Head(work), s) /\ ValueAhead(s)
          <6>1. ValueAhead(s)'
            <7>1. CASE s[1] # KeyInHand
              BY <2>1, <7>1 DEF ValueAhead
            <7>2. CASE s[1] = KeyInHand
              <8>1. PICK i \in index .. count : i \in DOMAIN store[s[1]] /\ store[s[1]][i] = s[2]
                BY <5>3, <7>2 DEF ValueAhead
              <8>2. s[1] # k \/ SetsValue(k)
                BY <1>3, <3>2, <7>2, <8>1
              <8>3. s[2] \in ToSet(store[s[1]])
                BY <8>1 DEF ToSet
              <8>4. i \in DOMAIN store'[s[1]] /\ store'[s[1]][i] = s[2]
                BY <1>2, <8>1, <8>2, <8>3, SteadyStays DEF ExportInv
              <8>. QED  BY <1>1, <8>1, <8>4 DEF ValueAhead
            <7>. QED  BY <7>1, <7>2
          <6>. QED  BY <1>1, <2>8, <5>3, <6>1 DEF Ahead
        <5>. QED  BY <1>4, <2>2, <2>8, <5>1, <5>2, <5>3 DEF Ahead
      <4>. QED  BY <1>1, <2>8, <4>1 DEF NothingLost
    <3>. QED  BY <1>3, <2>3, <2>5, <2>8, <3>1, <3>2
  <2>9. CASE at = "subkeys"
    <3>1. CASE index <= count /\ Len(Subkeys(KeyInHand)') < count
      BY <1>1, <2>1, <2>4, <2>9, <3>1 DEF NothingLost, Doomed
    <3>2. CASE index > count \/ Subkeys(KeyInHand)' = Subkeys(KeyInHand)
      <4>1. ASSUME NEW s \in steady' PROVE Exported(s)' \/ Ahead(s)'
        <5>1. CASE Exported(s)
          BY <1>1, <5>1 DEF Exported
        <5>2. CASE UnderOne(Tail(work), s)
          BY <1>1, <5>2 DEF Ahead
        <5>3. CASE Under(Head(work), s) /\ SubkeyAhead(s)
          <6>1. CASE UnderOne(names, s)
            BY <1>1, <2>1, <2>9, <5>3, <6>1 DEF Ahead, SubkeyAhead
          <6>2. ASSUME NEW i \in index .. count, i \in DOMAIN Subkeys(KeyInHand), IsPrefix(Subkeys(KeyInHand)[i], s[1])
                PROVE  Ahead(s)'
            <7>1. Subkeys(KeyInHand)' = Subkeys(KeyInHand)
              BY <1>3, <3>2, <6>2
            <7>2. SubkeyAhead(s)'
              BY <1>1, <2>1, <5>3, <6>2, <7>1 DEF SubkeyAhead
            <7>. QED  BY <1>1, <2>9, <5>3, <7>2 DEF Ahead
          <6>. QED  BY <5>3, <6>1, <6>2 DEF SubkeyAhead
        <5>. QED  BY <1>4, <2>2, <2>9, <5>1, <5>2, <5>3 DEF Ahead
      <4>. QED  BY <1>1, <2>9, <4>1 DEF NothingLost
    <3>. QED  BY <1>3, <2>3, <2>4, <2>6, <2>9, <3>1, <3>2
  <2>. QED  BY <1>8, <2>7, <2>8, <2>9 DEF Walking
<1>9. CASE ~(changes' <= 1)
  BY <1>9 DEF NothingLost
<1>. QED  BY <1>7, <1>8, <1>9

LEMMA ExportInvStep == ExportInv /\ [RegistryNext]_registryVars => ExportInv'
<1> SUFFICES ASSUME ExportInv, [RegistryNext]_registryVars PROVE ExportInv'
  OBVIOUS
<1>0. Shaped'
  BY ShapeStep DEF ExportInv
<1>1. SteadyThere' /\ Counted' /\ NothingLost'
  <2>1. CASE Export \/ OpenValues \/ EnumValue
    BY <2>1, ExportStarts, OpenValuesKeeps, EnumValueKeeps
  <2>2. CASE OpenSubkeys \/ EnumSubkey \/ Descend
    BY <2>2, OpenSubkeysKeeps, EnumSubkeyKeeps, DescendKeeps
  <2>3. CASE OtherProgram
    BY <2>3, OtherProgramKeeps
  <2>4. CASE at' \in {"import", "done", "reading"}
    BY <2>4 DEF SteadyThere, Counted, NothingLost, Walking
  <2>5. CASE UNCHANGED registryVars
    <3>1. KeyInHand' = KeyInHand /\ Subkeys(KeyInHand)' = Subkeys(KeyInHand)
      BY <2>5 DEF registryVars, KeyInHand, Subkeys, SubkeyPlaces
    <3>2. Doomed' <=> Doomed
      BY <2>5, <3>1 DEF registryVars, Doomed
    <3>3. \A s : (Exported(s)' <=> Exported(s)) /\ (Ahead(s)' <=> Ahead(s))
      BY <2>5, <3>1 DEF registryVars, Exported, Ahead, ValueAhead, SubkeyAhead
    <3>4. SteadyThere' /\ Counted'
      BY <2>5, <3>1 DEF registryVars, ExportInv, SteadyThere, Counted, Walking
    <3>5. NothingLost'
      BY <2>5, <3>2, <3>3 DEF registryVars, ExportInv, NothingLost, Walking
    <3>. QED  BY <3>4, <3>5
  <2>6. ImportDocument \/ ImportValue \/ ImportDone \/ ReadData => at' \in {"import", "done", "reading"}
    BY DEF ImportDocument, ImportValue, ImportDone, ReadData, Stops
  <2>7. ASSUME NEW k \in KeySet, DeleteKey(k) \/ \E i \in DOMAIN store[k] : DeleteValue(k, i) \/ AskSize(k, i)
        PROVE  at' \in {"import", "done", "reading"}
    BY <2>7 DEF DeleteKey, DeleteValue, AskSize
  <2>. QED  BY <2>1, <2>2, <2>3, <2>4, <2>5, <2>6, <2>7 DEF RegistryNext
<1>. QED  BY <1>0, <1>1 DEF ExportInv

LEMMA ExportInvInit == RegistryInit => ExportInv
<1> SUFFICES ASSUME RegistryInit PROVE ExportInv
  OBVIOUS
<1>1. Shaped
  BY RegistryInitShape
<1>2. at = "idle"
  BY DEF RegistryInit
<1>. QED  BY <1>1, <1>2 DEF ExportInv, SteadyThere, Counted, NothingLost, Walking

\* An export that succeeds holds every value that stayed untouched, under the
\* right key, although another program made one change meanwhile.
THEOREM ExportAlwaysComplete == RegistrySpec => []ExportIsComplete
<1>1. RegistryInit => ExportInv
  BY ExportInvInit
<1>2. ExportInv /\ [RegistryNext]_registryVars => ExportInv'
  BY ExportInvStep
<1>3. ExportInv => ExportIsComplete
  BY DEF ExportInv, NothingLost, Exported, ExportIsComplete
<1>. QED  BY <1>1, <1>2, <1>3, PTL DEF RegistrySpec

-----------------------------------------------------------------------------
(* The import is faithful *)

\* No name is in the snapshot twice under one key: a later write would replace
\* an earlier one.
Distinct(its) == \A i, j \in DOMAIN its : its[i].path = its[j].path /\ its[i].value.name = its[j].value.name => i = j
\* The keys that wait are not below each other, nor is anything of the
\* snapshot below them, but for the values of the key in hand.
Apart(paths) == \A i, j \in DOMAIN paths : IsPrefix(paths[i], paths[j]) => i = j
Clear(paths) == \A i \in DOMAIN items : \A j \in DOMAIN paths : ~IsPrefix(paths[j], items[i].path)
Numbered(name) == \E j \in 1 .. index - 1 : j \in DOMAIN store[KeyInHand] /\ store[KeyInHand][j].name = name
HeadItems ==
  \A i \in DOMAIN items : IsPrefix(Head(work), items[i].path) =>
    /\ at # "opening" /\ items[i].path = Head(work)
    /\ at = "values" /\ index <= count => Numbered(items[i].value.name)
KeyNumbered(name) ==
  \E j \in 1 .. index - 1 : j \in DOMAIN Subkeys(KeyInHand) /\ CombineKeyPath(Source, name) = Subkeys(KeyInHand)[j]
NamesBehind ==
  at = "subkeys" =>
    /\ \A i, j \in DOMAIN names : names[i] = names[j] => i = j
    /\ \A i \in DOMAIN names : Len(names[i]) = Len(Head(work)) + 1 /\ IsPrefix(Head(work), names[i])
    /\ index <= count => \A i \in DOMAIN names : KeyNumbered(names[i])
RootSteady == \E r \in steady : r[1] = Source
RootFirst == RootSteady /\ items # <<>> => items[1].path = <<>>
Orderly == Distinct(items) /\ Apart(work) /\ Clear(Tail(work)) /\ HeadItems /\ NamesBehind /\ RootFirst
NothingTwice ==
  changes <= 1 =>
    /\ Walking => Doomed \/ Orderly
    /\ at = "document" => Distinct(items) /\ RootFirst

\* What the document carries is in it, and what was imported is in its place.
Place(s) == CombineKeyPath(Destination, SubSeq(s[1], Len(Source) + 1, Len(s[1])))
Carries == \A s \in steady : Carried(s) => \E i \in DOMAIN items : items[i].value = s[2] /\ Target(i) = Place(s)
Written == \A i \in DOMAIN items : i < next => Target(i) \in KeySet /\ Native(items[i].value) \in ToSet(store[Target(i)])
Importing == at = "import" \/ next > 1
Brought ==
  /\ at = "idle" => items = <<>>
  /\ next > 1 => at \in {"import", "done"}
  /\ Importing /\ changes <= 1 /\ (format = "json" \/ RootSteady) =>
       /\ Distinct(items) /\ Carries
       /\ ok /\ ~registryOptions.dryRun => Written /\ (at = "done" => next > Len(items))

ImportInv == ExportInv /\ NothingTwice /\ Brought

LEMMA TailElements ==
  ASSUME NEW w \in Seq(KeyPaths), w # <<>>
  PROVE  /\ Len(w) \in Nat \ {0} /\ DOMAIN w = 1 .. Len(w) /\ Head(w) = w[1]
         /\ Head(w) \in Seq(STRING) /\ Tail(w) \in Seq(KeyPaths)
         /\ DOMAIN Tail(w) = 1 .. Len(w) - 1
         /\ \A i \in DOMAIN Tail(w) : i + 1 \in DOMAIN w /\ Tail(w)[i] = w[i + 1] /\ Tail(w)[i] \in Seq(STRING)
<1>1. Len(w) \in Nat \ {0} /\ DOMAIN w = 1 .. Len(w) /\ Head(w) = w[1] /\ \A i \in DOMAIN w : w[i] \in KeyPaths
  OBVIOUS
<1>2. Tail(w) \in Seq(KeyPaths) /\ DOMAIN Tail(w) = 1 .. Len(w) - 1 /\ \A i \in 1 .. Len(w) - 1 : Tail(w)[i] = w[i + 1]
  BY <1>1, HeadTailProperties
<1>3. \A i \in 1 .. Len(w) - 1 : i + 1 \in DOMAIN w
  BY <1>1
<1>. QED  BY <1>1, <1>2, <1>3 DEF KeyPaths

LEMMA ApartHeadTail ==
  ASSUME NEW w \in Seq(KeyPaths), w # <<>>, Apart(w)
  PROVE  /\ Apart(Tail(w))
         /\ \A i \in DOMAIN Tail(w) : ~IsPrefix(Tail(w)[i], Head(w)) /\ ~IsPrefix(Head(w), Tail(w)[i])
<1>1. /\ 1 \in DOMAIN w /\ Head(w) = w[1]
      /\ \A i \in DOMAIN Tail(w) : i \in Nat /\ i + 1 \in DOMAIN w /\ i + 1 # 1 /\ Tail(w)[i] = w[i + 1]
  BY TailElements
<1>2. \A i, j \in DOMAIN Tail(w) : i + 1 = j + 1 => i = j
  BY <1>1
<1>. QED  BY <1>1, <1>2 DEF Apart

LEMMA ApartConcat ==
  ASSUME NEW v \in Seq(KeyPaths), NEW w \in Seq(KeyPaths), Apart(v), Apart(w),
         \A i \in DOMAIN v : \A j \in DOMAIN w : ~IsPrefix(v[i], w[j]) /\ ~IsPrefix(w[j], v[i])
  PROVE  Apart(v \o w)
<1>1. /\ Len(v \o w) = Len(v) + Len(w) /\ v \o w \in Seq(KeyPaths)
      /\ \A i \in 1 .. Len(v) : (v \o w)[i] = v[i]
      /\ \A i \in 1 .. Len(w) : (v \o w)[Len(v) + i] = w[i]
  BY ConcatElements
<1>2. Len(v) \in Nat /\ Len(w) \in Nat /\ DOMAIN v = 1 .. Len(v) /\ DOMAIN w = 1 .. Len(w) /\ DOMAIN (v \o w) = 1 .. Len(v) + Len(w)
  BY <1>1
<1> DEFINE vw == v \o w
<1>3. \A i \in DOMAIN vw : \/ i \in DOMAIN v /\ vw[i] = v[i]
                           \/ \E n \in DOMAIN w : i = Len(v) + n /\ vw[i] = w[n]
  <2>1. \A i \in 1 .. Len(v) + Len(w) : i \in 1 .. Len(v) \/ \E n \in 1 .. Len(w) : i = Len(v) + n
    BY <1>2, PlaceInConcat
  <2>. QED  BY <1>1, <1>2, <2>1
<1>. HIDE DEF vw
<1>4. ASSUME NEW i \in DOMAIN vw, NEW j \in DOMAIN vw, IsPrefix(vw[i], vw[j]) PROVE i = j
  <2>1. CASE i \in DOMAIN v /\ vw[i] = v[i] /\ j \in DOMAIN v /\ vw[j] = v[j]
    BY <1>4, <2>1 DEF Apart
  <2>2. CASE i \in DOMAIN v /\ vw[i] = v[i] /\ \E n \in DOMAIN w : j = Len(v) + n /\ vw[j] = w[n]
    BY <1>4, <2>2
  <2>3. CASE (\E n \in DOMAIN w : i = Len(v) + n /\ vw[i] = w[n]) /\ j \in DOMAIN v /\ vw[j] = v[j]
    BY <1>4, <2>3
  <2>4. CASE (\E n \in DOMAIN w : i = Len(v) + n /\ vw[i] = w[n]) /\ (\E n \in DOMAIN w : j = Len(v) + n /\ vw[j] = w[n])
    BY <1>4, <2>4 DEF Apart
  <2>. QED  BY <1>3, <2>1, <2>2, <2>3, <2>4
<1>. QED  BY <1>4 DEF Apart, vw

LEMMA ClearHeadTail ==
  ASSUME NEW w \in Seq(KeyPaths), w # <<>>
  PROVE  Clear(w) => Clear(Tail(w)) /\ \A i \in DOMAIN items : ~IsPrefix(Head(w), items[i].path)
<1>1. /\ 1 \in DOMAIN w /\ Head(w) = w[1]
      /\ \A i \in DOMAIN Tail(w) : i + 1 \in DOMAIN w /\ Tail(w)[i] = w[i + 1]
  BY TailElements
<1>. QED  BY <1>1 DEF Clear

LEMMA ClearConcat ==
  ASSUME NEW v \in Seq(KeyPaths), NEW w \in Seq(KeyPaths), Clear(v), Clear(w)
  PROVE  Clear(v \o w)
<1>1. /\ Len(v \o w) = Len(v) + Len(w) /\ v \o w \in Seq(KeyPaths)
      /\ \A i \in 1 .. Len(v) : (v \o w)[i] = v[i]
      /\ \A i \in 1 .. Len(w) : (v \o w)[Len(v) + i] = w[i]
  BY ConcatElements
<1>2. Len(v) \in Nat /\ Len(w) \in Nat /\ DOMAIN v = 1 .. Len(v) /\ DOMAIN w = 1 .. Len(w) /\ DOMAIN (v \o w) = 1 .. Len(v) + Len(w)
  BY <1>1
<1>3. \A i \in 1 .. Len(v) + Len(w) : i \in 1 .. Len(v) \/ \E n \in 1 .. Len(w) : i = Len(v) + n
  BY <1>2, PlaceInConcat
<1>4. ASSUME NEW i \in DOMAIN items, NEW j \in DOMAIN (v \o w) PROVE ~IsPrefix((v \o w)[j], items[i].path)
  <2>1. CASE j \in 1 .. Len(v)
    BY <1>1, <1>2, <2>1 DEF Clear
  <2>2. ASSUME NEW n \in 1 .. Len(w), j = Len(v) + n PROVE ~IsPrefix((v \o w)[j], items[i].path)
    BY <1>1, <1>2, <2>2 DEF Clear
  <2>. QED  BY <1>2, <1>3, <2>1, <2>2
<1>. QED  BY <1>4 DEF Clear

LEMMA ItemTyped ==
  ASSUME Shaped, NEW i \in DOMAIN items
  PROVE  items[i].path \in Seq(STRING) /\ items[i].value \in RegistryValues
<1>1. items[i] \in SnapshotItems
  BY ShapedParts DEF RestTyped
<1>. QED  BY <1>1, ItemFields DEF KeyPaths

\* The walk of the export: one lemma per action.
LEMMA ExportOrdered == ImportInv /\ Export => NothingTwice'
<1> SUFFICES ASSUME ImportInv, Export PROVE NothingTwice'
  OBVIOUS
<1>1. at = "idle" /\ at' = "opening" /\ items' = <<>> /\ work' = << <<>> >>
  BY DEF Export, ImportInv, Brought
<1>2. DOMAIN items' = {} /\ DOMAIN Tail(work') = {}
  BY <1>1
<1>3. Distinct(items') /\ Clear(Tail(work))' /\ HeadItems' /\ RootFirst'
  BY <1>1, <1>2 DEF Distinct, Clear, HeadItems, RootFirst
<1>4. Apart(work') /\ NamesBehind'
  BY <1>1 DEF Apart, NamesBehind
<1>. QED  BY <1>1, <1>3, <1>4 DEF NothingTwice, Orderly

LEMMA OpenValuesOrdered == ImportInv /\ OpenValues => NothingTwice'
<1> SUFFICES ASSUME ImportInv, OpenValues PROVE NothingTwice'
  OBVIOUS
<1>1. at = "opening" /\ UNCHANGED <<work, names, items, steady, store, exists, changes>>
  BY DEF OpenValues, ClientOnly
<1>2. CASE at' = "values"
  <2> SUFFICES ASSUME changes <= 1 PROVE Orderly'
    BY <1>1, <1>2 DEF NothingTwice
  <2>1. Orderly
    BY <1>1 DEF ImportInv, NothingTwice, Walking, Doomed
  <2>2. HeadItems'
    BY <1>1, <2>1 DEF Orderly, HeadItems
  <2>3. Clear(Tail(work))' /\ NamesBehind' /\ RootFirst'
    BY <1>1, <1>2, <2>1 DEF Orderly, Clear, NamesBehind, RootFirst, RootSteady
  <2>. QED  BY <1>1, <2>1, <2>2, <2>3 DEF Orderly
<1>3. CASE at' = "done"
  BY <1>3 DEF NothingTwice, Walking
<1>. QED  BY <1>2, <1>3 DEF OpenValues, Stops

LEMMA EnumValueOrdered == ImportInv /\ EnumValue => NothingTwice'
<1> SUFFICES ASSUME ImportInv, EnumValue PROVE NothingTwice'
  OBVIOUS
<1>1. at = "values" /\ index <= count /\ UNCHANGED <<work, names, count, steady, store, exists, changes>>
  BY DEF EnumValue, ClientOnly
<1>2. KeyInHand' = KeyInHand
  BY <1>1 DEF KeyInHand
<1>3. /\ Shaped /\ index \in Nat \ {0} /\ items \in Seq(SnapshotItems) /\ work # <<>> /\ work \in Seq(KeyPaths)
      /\ RegistryTypeOK
  BY <1>1, ShapedParts DEF ImportInv, ExportInv, WalkTyped, RestTyped, Walking, Shaped
<1>4. CASE KeyInHand \in exists /\ index <= Len(store[KeyInHand])
  <2> DEFINE item == [path |-> Head(work), value |-> store[KeyInHand][index]]  n == Len(items) + 1
  <2>1. items' = Append(items, item) /\ index' = index + 1 /\ at' = "values"
    BY <1>1, <1>4 DEF EnumValue
  <2> SUFFICES ASSUME changes <= 1, ~Doomed PROVE Orderly'
    <3>1. Doomed => Doomed'
      BY <1>3, <2>1, DoomedStays
    <3>. QED  BY <1>1, <2>1, <3>1 DEF NothingTwice
  <2>2. Orderly
    BY <1>1 DEF ImportInv, NothingTwice, Walking
  <2>3. Shaped'
    BY EnumValueShape DEF ImportInv, ExportInv
  <2>4. item \in SnapshotItems /\ item.path = Head(work) /\ item.value = store[KeyInHand][index]
    <3>1. items' \in Seq(SnapshotItems)
      BY <2>3, ShapedParts DEF RestTyped
    <3>2. n \in DOMAIN items' /\ items'[n] = item
      BY <1>3, <2>1
    <3>. QED  BY <3>1, <3>2
  <2>. HIDE DEF item
  <2>5. /\ DOMAIN items = 1 .. Len(items) /\ Len(items) \in Nat /\ DOMAIN items' = 1 .. n
        /\ (\A i \in DOMAIN items : i \in DOMAIN items' /\ items'[i] = items[i]) /\ items'[n] = item
        /\ \A i \in DOMAIN items' : i \in DOMAIN items \/ i = n
    BY <1>3, <2>1, <2>4
  <2>. HIDE DEF n
  <2>6. Head(work) \in Seq(STRING) /\ IsPrefix(Head(work), Head(work))
    <3>1. Head(work) \in Seq(STRING)
      BY <1>3, TailElements
    <3>. QED  BY <3>1, PrefixIsOrder
  <2>7. \A i \in DOMAIN items : items[i].path = Head(work) => items[i].value.name # item.value.name
    <3> SUFFICES ASSUME NEW i \in DOMAIN items, items[i].path = Head(work), items[i].value.name = item.value.name
                 PROVE  FALSE
      OBVIOUS
    <3>1. Numbered(items[i].value.name)
      BY <1>1, <2>2, <2>6 DEF Orderly, HeadItems
    <3>2. PICK j \in 1 .. index - 1 : j \in DOMAIN store[KeyInHand] /\ store[KeyInHand][j].name = item.value.name
      BY <3>1 DEF Numbered
    <3>3. NamesDiffer(store[KeyInHand]) /\ store[KeyInHand] \in Seq(RegistryValues)
      BY <1>3, <1>4, ShapedParts DEF RegistryThere
    <3>4. index \in DOMAIN store[KeyInHand]
      BY <1>3, <1>4, <3>3
    <3>5. j = index
      BY <2>4, <3>2, <3>3, <3>4 DEF NamesDiffer
    <3>. QED  BY <1>3, <3>2, <3>5
  <2>8. Distinct(items')
    BY <2>2, <2>4, <2>5, <2>7 DEF Orderly, Distinct
  <2>9. Clear(Tail(work))'
    <3>1. \A j \in DOMAIN Tail(work) : ~IsPrefix(Tail(work)[j], Head(work))
      BY <1>3, <2>2, ApartHeadTail DEF Orderly
    <3>. QED  BY <1>1, <2>2, <2>4, <2>5, <3>1 DEF Orderly, Clear
  <2>10. HeadItems'
    <3> DEFINE PassedBy(name) == \E j \in 1 .. index : j \in DOMAIN store[KeyInHand] /\ store[KeyInHand][j].name = name
    <3>1. \A name : Numbered(name) => PassedBy(name)
      BY <1>3 DEF Numbered
    <3>2. PassedBy(item.value.name)
      <4>1. store[KeyInHand] \in Seq(RegistryValues)
        BY <1>3, <1>4, ShapedParts DEF RegistryThere
      <4>2. index \in 1 .. index /\ index \in DOMAIN store[KeyInHand]
        BY <1>3, <1>4, <4>1
      <4>. QED  BY <2>4, <4>2
    <3>. HIDE DEF PassedBy
    <3>3. ASSUME NEW i \in DOMAIN items', IsPrefix(Head(work), items'[i].path)
          PROVE  items'[i].path = Head(work) /\ PassedBy(items'[i].value.name)
      <4>1. CASE i \in DOMAIN items
        BY <1>1, <2>2, <2>5, <3>1, <3>3, <4>1 DEF Orderly, HeadItems
      <4>2. CASE i = n
        BY <2>4, <2>5, <3>2, <4>2
      <4>. QED  BY <2>5, <4>1, <4>2
    <3>4. 1 .. index' - 1 = 1 .. index
      BY <1>3, <2>1
    <3>. QED  BY <1>1, <1>2, <2>1, <3>3, <3>4 DEF HeadItems, Numbered, PassedBy
  <2>11. RootFirst'
    <3>1. CASE items # <<>>
      <4>1. items'[1] = items[1]
        BY <1>3, <2>5, <3>1
      <4>. QED  BY <1>1, <2>2, <3>1, <4>1 DEF Orderly, RootFirst, RootSteady
    <3>2. CASE items = <<>>
      <4>1. items'[1].path = Head(work)
        <5>1. n = 1
          BY <3>2 DEF n
        <5>. QED  BY <2>4, <2>5, <5>1
      <4>2. ASSUME NEW r \in steady, r[1] = Source PROVE Head(work) = <<>>
        <5>1. Exported(r) \/ Ahead(r)
          BY <1>1 DEF ImportInv, ExportInv, NothingLost, Walking
        <5>2. ~Exported(r)
          BY <3>2 DEF Exported
        <5>3. Under(Head(work), r) \/ UnderOne(Tail(work), r)
          BY <5>1, <5>2 DEF Ahead
        <5>4. ASSUME NEW p \in Seq(STRING), Under(p, r) PROVE p = <<>>
          <6>1. Source \in Seq(STRING)
            BY RegistryAssumption DEF KeyPaths
          <6>2. Len(Source \o p) = Len(Source) + Len(p) /\ Source \o p \in Seq(STRING)
            BY <6>1, ConcatElements
          <6>3. Len(Source \o p) <= Len(Source)
            <7>1. IsPrefix(Source \o p, Source)
              BY <4>2, <5>4 DEF Under, CombineKeyPath
            <7>. QED  BY <6>1, <6>2, <7>1, PrefixElements
          <6>. QED  BY <5>4, <6>1, <6>2, <6>3
        <5>5. ~UnderOne(Tail(work), r)
          <6> SUFFICES ASSUME NEW j \in DOMAIN Tail(work), Under(Tail(work)[j], r) PROVE FALSE
            BY DEF UnderOne
          <6>1. Tail(work)[j] \in Seq(STRING)
            BY <1>3, TailElements
          <6>2. Tail(work)[j] = <<>>
            BY <5>4, <6>1
          <6>3. IsPrefix(Tail(work)[j], Head(work))
            <7>1. Len(Tail(work)[j]) = 0 /\ Len(Head(work)) \in Nat
              BY <2>6, <6>2
            <7>. QED  BY <2>6, <6>1, <7>1, PrefixElements
          <6>. QED  BY <1>3, <2>2, <6>3, ApartHeadTail DEF Orderly
        <5>. QED  BY <2>6, <5>3, <5>4, <5>5
      <4>. QED  BY <1>1, <4>1, <4>2 DEF RootFirst, RootSteady
    <3>. QED  BY <3>1, <3>2
  <2>12. NamesBehind'
    BY <2>1 DEF NamesBehind
  <2>. QED  BY <1>1, <2>2, <2>8, <2>9, <2>10, <2>11, <2>12 DEF Orderly
<1>5. CASE ~(KeyInHand \in exists /\ index <= Len(store[KeyInHand]))
  <2>1. at' = "done"
    BY <1>5 DEF EnumValue, Stops
  <2>. QED  BY <2>1 DEF NothingTwice, Walking
<1>. QED  BY <1>4, <1>5

LEMMA OpenSubkeysOrdered == ImportInv /\ OpenSubkeys => NothingTwice'
<1> SUFFICES ASSUME ImportInv, OpenSubkeys PROVE NothingTwice'
  OBVIOUS
<1>1. at = "values" /\ index > count /\ UNCHANGED <<work, items, steady, store, exists, changes>>
  BY DEF OpenSubkeys, ClientOnly
<1>2. index \in Nat /\ count \in Nat
  BY ShapedParts DEF ImportInv, ExportInv, WalkTyped
<1>3. CASE at' = "subkeys" /\ names' = <<>>
  <2> SUFFICES ASSUME changes <= 1 PROVE Orderly'
    BY <1>1, <1>3 DEF NothingTwice
  <2>1. Orderly
    BY <1>1, <1>2 DEF ImportInv, NothingTwice, Walking, Doomed
  <2>2. HeadItems'
    BY <1>1, <1>3, <2>1 DEF Orderly, HeadItems
  <2>3. Clear(Tail(work))' /\ NamesBehind' /\ RootFirst'
    BY <1>1, <1>3, <2>1 DEF Orderly, Clear, NamesBehind, RootFirst, RootSteady
  <2>. QED  BY <1>1, <2>1, <2>2, <2>3 DEF Orderly
<1>4. CASE at' = "done"
  BY <1>4 DEF NothingTwice, Walking
<1>. QED  BY <1>3, <1>4 DEF OpenSubkeys, Stops

LEMMA EnumSubkeyOrdered == ImportInv /\ EnumSubkey => NothingTwice'
<1> SUFFICES ASSUME ImportInv, EnumSubkey PROVE NothingTwice'
  OBVIOUS
<1>1. at = "subkeys" /\ index <= count /\ UNCHANGED <<work, items, count, steady, store, exists, changes>>
  BY DEF EnumSubkey, ClientOnly
<1>2. KeyInHand' = KeyInHand /\ Subkeys(KeyInHand)' = Subkeys(KeyInHand)
  BY <1>1 DEF KeyInHand, Subkeys, SubkeyPlaces
<1>3. Shaped /\ index \in Nat \ {0} /\ names \in Seq(KeyPaths) /\ work # <<>> /\ RegistryTypeOK
  BY <1>1, ShapedParts DEF ImportInv, ExportInv, WalkTyped, Walking, Shaped
<1>4. CASE KeyInHand \in exists /\ index <= Len(Subkeys(KeyInHand))
  <2> DEFINE name == Append(Head(work), Last(Subkeys(KeyInHand)[index]))  n == Len(names) + 1
  <2>1. names' = Append(names, name) /\ index' = index + 1 /\ at' = "subkeys"
    BY <1>1, <1>4 DEF EnumSubkey
  <2> SUFFICES ASSUME changes <= 1, ~Doomed PROVE Orderly'
    <3>1. Doomed => Doomed'
      BY <1>3, <2>1, DoomedStays
    <3>. QED  BY <1>1, <2>1, <3>1 DEF NothingTwice
  <2>2. Orderly
    BY <1>1 DEF ImportInv, NothingTwice, Walking
  <2>3. index \in DOMAIN Subkeys(KeyInHand) /\ Subkeys(KeyInHand)[index] \in ChildrenIn(exists, KeyInHand)
    BY <1>3, <1>4, SubkeyInHand
  <2>4. /\ name \in KeyPaths /\ CombineKeyPath(Source, name) = Subkeys(KeyInHand)[index]
        /\ Len(name) = Len(Head(work)) + 1 /\ IsPrefix(Head(work), name)
    BY <1>3, <2>3, ChildIsBelow
  <2>. HIDE DEF name
  <2>5. /\ (\A i \in DOMAIN names : i \in DOMAIN names' /\ names'[i] = names[i]) /\ names'[n] = name
        /\ \A i \in DOMAIN names' : i \in DOMAIN names \/ i = n
    BY <1>3, <2>1, <2>4
  <2>. HIDE DEF n
  <2>6. \A i \in DOMAIN names : names[i] # name
    <3> SUFFICES ASSUME NEW i \in DOMAIN names, names[i] = name PROVE FALSE
      OBVIOUS
    <3>1. KeyNumbered(name)
      BY <1>1, <2>2 DEF Orderly, NamesBehind
    <3>2. PICK j \in 1 .. index - 1 : j \in DOMAIN Subkeys(KeyInHand) /\ Subkeys(KeyInHand)[index] = Subkeys(KeyInHand)[j]
      BY <2>4, <3>1 DEF KeyNumbered
    <3>3. \A a, b \in DOMAIN Subkeys(KeyInHand) : Subkeys(KeyInHand)[a] = Subkeys(KeyInHand)[b] => a = b
      BY <1>3, SubkeysAreSubkeysIn, SubkeysAreChildren, ShapedParts DEF RegistryThere
    <3>4. index = j
      BY <2>3, <3>2, <3>3
    <3>. QED  BY <1>3, <3>2, <3>4
  <2>7. NamesBehind'
    <3>1. \A i, j \in DOMAIN names' : names'[i] = names'[j] => i = j
      BY <1>1, <2>2, <2>5, <2>6 DEF Orderly, NamesBehind
    <3>2. \A i \in DOMAIN names' : Len(names'[i]) = Len(Head(work)) + 1 /\ IsPrefix(Head(work), names'[i])
      BY <1>1, <2>2, <2>4, <2>5 DEF Orderly, NamesBehind
    <3> DEFINE PassedBy(x) == \E j \in 1 .. index : j \in DOMAIN Subkeys(KeyInHand) /\ CombineKeyPath(Source, x) = Subkeys(KeyInHand)[j]
    <3>3. \A x : KeyNumbered(x) => PassedBy(x)
      BY <1>3 DEF KeyNumbered
    <3>4. PassedBy(name)
      <4>1. index \in 1 .. index
        BY <1>3
      <4>. QED  BY <2>3, <2>4, <4>1
    <3>. HIDE DEF PassedBy
    <3>5. ASSUME NEW i \in DOMAIN names' PROVE PassedBy(names'[i])
      <4>1. CASE i \in DOMAIN names
        BY <1>1, <2>2, <2>5, <3>3, <4>1 DEF Orderly, NamesBehind
      <4>2. CASE i = n
        BY <2>5, <3>4, <4>2
      <4>. QED  BY <2>5, <4>1, <4>2
    <3>6. 1 .. index' - 1 = 1 .. index
      BY <1>3, <2>1
    <3>. QED  BY <1>1, <1>2, <3>1, <3>2, <3>5, <3>6 DEF NamesBehind, KeyNumbered, PassedBy
  <2>8. HeadItems'
    BY <1>1, <2>1, <2>2 DEF Orderly, HeadItems
  <2>9. Clear(Tail(work))' /\ RootFirst'
    BY <1>1, <2>2 DEF Orderly, Clear, RootFirst, RootSteady
  <2>. QED  BY <1>1, <2>2, <2>7, <2>8, <2>9 DEF Orderly
<1>5. CASE ~(KeyInHand \in exists /\ index <= Len(Subkeys(KeyInHand)))
  <2>1. at' = "done"
    BY <1>5 DEF EnumSubkey, Stops
  <2>. QED  BY <2>1 DEF NothingTwice, Walking
<1>. QED  BY <1>4, <1>5

LEMMA DescendOrdered == ImportInv /\ Descend => NothingTwice'
<1> SUFFICES ASSUME ImportInv, Descend PROVE NothingTwice'
  OBVIOUS
<1>1. /\ at = "subkeys" /\ index > count /\ UNCHANGED <<items, steady, store, changes>>
      /\ work' = names \o Tail(work) /\ at' = IF work' = <<>> THEN "document" ELSE "opening"
  BY DEF Descend, ClientOnly
<1>2. /\ Shaped /\ index \in Nat /\ count \in Nat /\ names \in Seq(KeyPaths) /\ work # <<>>
      /\ work \in Seq(KeyPaths) /\ Tail(work) \in Seq(KeyPaths) /\ Head(work) \in Seq(STRING)
  <2>1. Shaped /\ index \in Nat /\ count \in Nat /\ names \in Seq(KeyPaths) /\ work # <<>> /\ work \in Seq(KeyPaths)
    BY <1>1, ShapedParts DEF ImportInv, ExportInv, WalkTyped, Walking
  <2>. QED  BY <2>1, TailElements
<1> SUFFICES ASSUME changes <= 1 PROVE (Walking => Orderly)' /\ (at = "document" => Distinct(items) /\ RootFirst)'
  BY <1>1 DEF NothingTwice
<1>3. Orderly
  BY <1>1, <1>2 DEF ImportInv, NothingTwice, Walking, Doomed
<1>4. \A i \in DOMAIN names : names[i] \in Seq(STRING) /\ Len(names[i]) = Len(Head(work)) + 1 /\ IsPrefix(Head(work), names[i])
  BY <1>1, <1>2, <1>3 DEF Orderly, NamesBehind, KeyPaths
<1>5. \A a, b, c \in Seq(STRING) : /\ IsPrefix(a, b) /\ IsPrefix(b, c) => IsPrefix(a, c)
                                   /\ IsPrefix(a, c) /\ IsPrefix(b, c) => IsPrefix(a, b) \/ IsPrefix(b, a)
  BY PrefixIsOrder
<1>6. Apart(names)
  <2>1. ASSUME NEW i \in DOMAIN names, NEW j \in DOMAIN names, IsPrefix(names[i], names[j]) PROVE names[i] = names[j]
    <3>1. \A a, b \in Seq(STRING) : IsPrefix(a, b) <=> Len(a) <= Len(b) /\ \A n \in 1 .. Len(a) : a[n] = b[n]
      BY PrefixElements
    <3>2. Len(names[i]) = Len(names[j]) /\ \A n \in 1 .. Len(names[i]) : names[i][n] = names[j][n]
      BY <1>4, <2>1, <3>1
    <3>. QED  BY <1>4, <3>2, SeqEqual
  <2>. QED  BY <1>1, <1>3, <2>1 DEF Orderly, NamesBehind, Apart
<1>7. Apart(Tail(work)) /\ \A j \in DOMAIN Tail(work) : /\ Tail(work)[j] \in Seq(STRING)
                                                         /\ ~IsPrefix(Tail(work)[j], Head(work)) /\ ~IsPrefix(Head(work), Tail(work)[j])
  BY <1>2, <1>3, ApartHeadTail, TailElements DEF Orderly
<1>8. \A i \in DOMAIN names : \A j \in DOMAIN Tail(work) : ~IsPrefix(names[i], Tail(work)[j]) /\ ~IsPrefix(Tail(work)[j], names[i])
  BY <1>2, <1>4, <1>5, <1>7
<1>9. Apart(work')
  BY <1>1, <1>2, <1>6, <1>7, <1>8, ApartConcat
<1>10. Clear(names)
  <2> SUFFICES ASSUME NEW i \in DOMAIN items, NEW j \in DOMAIN names, IsPrefix(names[j], items[i].path) PROVE FALSE
    BY DEF Clear
  <2>1. items[i].path \in Seq(STRING)
    BY <1>2, ItemTyped
  <2>2. IsPrefix(Head(work), items[i].path)
    BY <1>2, <1>4, <1>5, <2>1
  <2>3. items[i].path = Head(work)
    BY <1>3, <2>2 DEF Orderly, HeadItems
  <2>4. Len(names[j]) <= Len(Head(work))
    BY <1>2, <1>4, <2>3, PrefixElements
  <2>. QED  BY <1>2, <1>4, <2>4
<1>11. Clear(work')
  BY <1>1, <1>2, <1>3, <1>10, ClearConcat DEF Orderly
<1>12. Distinct(items') /\ RootFirst'
  BY <1>1, <1>3 DEF Orderly, RootFirst, RootSteady
<1>13. CASE work' = <<>>
  BY <1>1, <1>12, <1>13 DEF Walking
<1>14. CASE work' # <<>>
  <2>1. at' = "opening"
    BY <1>1, <1>14
  <2>2. work' \in Seq(KeyPaths)
    BY <1>1, <1>2
  <2>3. Clear(Tail(work')) /\ \A i \in DOMAIN items : ~IsPrefix(Head(work'), items[i].path)
    BY <1>11, <1>14, <2>2, ClearHeadTail
  <2>4. Clear(Tail(work))'
    BY <1>1, <2>3 DEF Clear
  <2>5. HeadItems'
    BY <1>1, <2>3 DEF HeadItems
  <2>6. NamesBehind'
    BY <2>1 DEF NamesBehind
  <2>. QED  BY <1>9, <1>12, <2>1, <2>4, <2>5, <2>6 DEF Orderly
<1>. QED  BY <1>13, <1>14

\* A change elsewhere, or a value set, leaves the names at their numbers.
LEMMA NamesStay ==
  ASSUME Shaped, NEW k \in exists, SetsValue(k) \/ RemovesValue(k) \/ RemovesKey(k),
         NEW h \in KeySet, h # k \/ SetsValue(k), NEW j \in DOMAIN store[h]
  PROVE  j \in DOMAIN store'[h] /\ store'[h][j].name = store[h][j].name
<1>1. k \in KeySet /\ store[h] \in Seq(RegistryValues) /\ NamesDiffer(store[h])
  BY ShapedParts DEF RegistryThere
<1>2. CASE SetsValue(k)
  <2>1. PICK v \in NewValues : store' = [store EXCEPT ![k] = Set(@, v)]
    BY <1>2 DEF SetsValue
  <2>2. v \in RegistryValues
    BY RegistryAssumption
  <2>3. store'[k] = Set(store[k], v) /\ \A x \in KeySet : x # k => store'[x] = store[x]
    BY <1>1, <2>1, <2>2, ValueSet
  <2>4. CASE h # k
    BY <2>3, <2>4
  <2>5. CASE h = k
    <3>1. j \in DOMAIN Set(store[h], v) /\ Set(store[h], v)[j].name = store[h][j].name
      BY <1>1, <2>2, SetKeeps
    <3>. QED  BY <2>3, <2>5, <3>1
  <2>. QED  BY <2>4, <2>5
<1>3. CASE h # k /\ RemovesValue(k)
  <2>1. PICK i \in DOMAIN store[k] : store' = [store EXCEPT ![k] = RemoveAt(@, i)] /\ exists' = exists
    BY <1>3 DEF RemovesValue
  <2>. QED  BY <1>3, <2>1, ValueRemoved
<1>4. CASE h # k /\ RemovesKey(k)
  <2>1. \A x \in KeySet : x # k => store'[x] = store[x]
    BY <1>4, KeyRemoved DEF RemovesKey
  <2>. QED  BY <1>4, <2>1
<1>. QED  BY <1>2, <1>3, <1>4

LEMMA OtherProgramOrdered == ImportInv /\ OtherProgram => NothingTwice'
<1> SUFFICES ASSUME ImportInv, OtherProgram PROVE NothingTwice'
  OBVIOUS
<1>1. /\ UNCHANGED <<at, work, index, count, names, items>> /\ changes' = changes + 1
      /\ at \in {"opening", "values", "subkeys", "reading"}
  BY OtherProgramDoes
<1>2. PICK k \in exists : SetsValue(k) \/ RemovesValue(k) \/ RemovesKey(k)
  BY OtherProgramDoes
<1>3. index \in Nat \ {0} /\ count \in Nat /\ changes \in Nat /\ Shaped /\ RegistryTypeOK /\ exists \subseteq KeySet
  BY ShapedParts DEF ImportInv, ExportInv, WalkTyped, RestTyped, RegistryThere, Shaped
<1>4. steady' \subseteq steady
  BY <1>2 DEF SetsValue, RemovesValue, RemovesKey
<1>5. CASE ~Walking
  BY <1>1, <1>5 DEF NothingTwice, Walking
<1>6. CASE Walking /\ changes' <= 1
  <2> SUFFICES ASSUME ~Doomed' PROVE Orderly'
    BY <1>1, <1>6 DEF NothingTwice, Walking
  <2>1. work # <<>> /\ KeyInHand \in KeyPaths /\ KeyInHand' = KeyInHand /\ changes = 0 /\ changes' > 0
    BY <1>1, <1>3, <1>6, InHandType DEF Shaped, RegistryShape, KeyInHand
  <2>2. Orderly
    BY <1>6, <2>1 DEF ImportInv, NothingTwice, Doomed
  <2>3. /\ at = "values" => KeyInHand \in exists /\ Len(store[KeyInHand]) = count
        /\ at = "subkeys" => Len(Subkeys(KeyInHand)) = count
    BY <2>1 DEF ImportInv, ExportInv, Counted
  <2>4. Subkeys(KeyInHand) = SubkeysIn(exists, KeyInHand) /\ Subkeys(KeyInHand)' = SubkeysIn(exists', KeyInHand)
    <3>1. \A h : Subkeys(h) = SubkeysIn(exists, h)
      BY SubkeysAreSubkeysIn
    <3>2. ASSUME NEW h PROVE Subkeys(h)' = SubkeysIn(exists', h)
      BY SubkeysAreSubkeysIn
    <3>3. Subkeys(KeyInHand)' = SubkeysIn(exists', KeyInHand')
      BY <3>2 DEF Subkeys, SubkeyPlaces
    <3>. QED  BY <2>1, <3>1, <3>3
  <2>5. HeadItems'
    <3>1. CASE at = "values" /\ index <= count
      <4>1. k # KeyInHand \/ SetsValue(k)
        <5>1. \/ k # KeyInHand \/ SetsValue(k)
              \/ KeyInHand \notin exists' \/ Len(store'[KeyInHand]) < Len(store[KeyInHand])
          BY <1>2, <1>3, <2>1, NumbersInHand
        <5>. QED  BY <1>1, <2>1, <2>3, <3>1, <5>1 DEF Doomed
      <4>2. \A j \in DOMAIN store[KeyInHand] : j \in DOMAIN store'[KeyInHand] /\ store'[KeyInHand][j].name = store[KeyInHand][j].name
        BY <1>2, <1>3, <2>3, <3>1, <4>1, NamesStay
      <4>3. \A i \in DOMAIN items : IsPrefix(Head(work), items[i].path) =>
              items[i].path = Head(work) /\ Numbered(items[i].value.name)
        BY <2>2, <3>1 DEF Orderly, HeadItems
      <4>. QED  BY <1>1, <2>1, <3>1, <4>2, <4>3 DEF HeadItems, Numbered
    <3>2. CASE ~(at = "values" /\ index <= count)
      BY <1>1, <2>2, <3>2 DEF Orderly, HeadItems
    <3>. QED  BY <3>1, <3>2
  <2>6. NamesBehind'
    <3>1. CASE at = "subkeys" /\ index <= count
      <4>1. \/ SubkeysIn(exists', KeyInHand) = SubkeysIn(exists, KeyInHand)
            \/ Len(SubkeysIn(exists', KeyInHand)) < Len(SubkeysIn(exists, KeyInHand))
        BY <1>2, <1>3, <2>1, NumbersInHand
      <4>2. Subkeys(KeyInHand)' = Subkeys(KeyInHand)
        BY <1>1, <2>1, <2>3, <2>4, <3>1, <4>1 DEF Doomed
      <4>. QED  BY <1>1, <2>1, <2>2, <4>2 DEF Orderly, NamesBehind, KeyNumbered
    <3>2. CASE ~(at = "subkeys" /\ index <= count)
      BY <1>1, <2>2, <3>2 DEF Orderly, NamesBehind
    <3>. QED  BY <3>1, <3>2
  <2>7. Clear(Tail(work))' /\ RootFirst'
    BY <1>1, <1>4, <2>2 DEF Orderly, Clear, RootFirst, RootSteady
  <2>. QED  BY <1>1, <2>2, <2>5, <2>6, <2>7 DEF Orderly
<1>7. CASE ~(changes' <= 1)
  BY <1>7 DEF NothingTwice
<1>. QED  BY <1>5, <1>6, <1>7

\* The place of a value follows from the path of its item.
LEMMA PlaceOfItem ==
  ASSUME NEW s, NEW p \in Seq(STRING), CombineKeyPath(Source, p) = s[1]
  PROVE  Place(s) = CombineKeyPath(Destination, p)
<1>1. Source \in Seq(STRING) /\ s[1] = Source \o p
  BY RegistryAssumption DEF KeyPaths, CombineKeyPath
<1>2. s[1] \in Seq(STRING) /\ IsPrefix(Source, s[1])
  BY <1>1, PrefixBelowRoot
<1>3. /\ SubSeq(s[1], Len(Source) + 1, Len(s[1])) \in Seq(STRING)
      /\ Source \o p = Source \o SubSeq(s[1], Len(Source) + 1, Len(s[1]))
  BY <1>1, <1>2, RestBelowRoot
<1>4. \A a, b, c \in Seq(STRING) : a \o b = a \o c => b = c
  BY PrefixBelowRoot
<1>5. SubSeq(s[1], Len(Source) + 1, Len(s[1])) = p
  BY <1>1, <1>3, <1>4
<1>. QED  BY <1>5 DEF Place

LEMMA ImportDocumentBrings == ImportInv /\ ImportDocument => Brought'
<1> SUFFICES ASSUME ImportInv, ImportDocument PROVE Brought'
  OBVIOUS
<1>1. at = "document" /\ next' = 1 /\ UNCHANGED <<steady, format, changes, store, registryOptions>>
  BY DEF ImportDocument, ClientOnly
<1>2. CASE at' = "done"
  BY <1>1, <1>2 DEF Brought, Importing
<1>3. CASE at' = "import" /\ items' = Image.items /\ Image.ok
  <2> SUFFICES ASSUME changes <= 1, format = "json" \/ RootSteady
               PROVE  Distinct(items') /\ Carries' /\ Written'
    BY <1>1, <1>3 DEF Brought, RootSteady
  <2>1. items \in Seq(SnapshotItems) /\ Shaped /\ Shaped'
    BY ShapedParts, ImportDocumentShape DEF ImportInv, ExportInv, RestTyped
  <2>2. Distinct(items) /\ RootFirst /\ \A s \in steady : Exported(s)
    BY <1>1 DEF ImportInv, ExportInv, NothingTwice, NothingLost
  <2>3. /\ DOMAIN items' = DOMAIN items
        /\ \A i \in DOMAIN items :
             /\ items'[i].path = items[i].path
             /\ items'[i].value = items[i].value \/ (format # "json" /\ items'[i].value = RegValue(items[i].value))
    <3>1. CASE format = "json"
      BY <1>3, <2>1, <3>1, ImageItems
    <3>2. CASE format # "json"
      <4>1. PICK r \in steady : r[1] = Source
        BY <3>2 DEF RootSteady
      <4>2. items # <<>> /\ items[1].path = <<>>
        BY <2>2, <4>1 DEF Exported, RootFirst, RootSteady
      <4>. QED  BY <1>3, <2>1, <3>2, <4>2, ImageItems
    <3>. QED  BY <3>1, <3>2
  <2>4. \A i \in DOMAIN items : items[i].value \in RegistryValues /\ items[i].path \in Seq(STRING)
    BY <2>1, ItemTyped
  <2>5. \A i \in DOMAIN items : /\ items'[i].value.name = items[i].value.name
                                /\ items[i].value.type \in {"expandable_string", "multi_string", "qword", "binary"} \/ format = "json" =>
                                     items'[i].value = items[i].value
    BY <2>3, <2>4, RegValueType
  <2>6. Distinct(items')
    BY <2>2, <2>3, <2>5 DEF Distinct
  <2>7. ASSUME NEW s \in steady, Carried(s)' PROVE \E i \in DOMAIN items' : items'[i].value = s[2] /\ Target(i)' = Place(s)
    <3>1. PICK i \in DOMAIN items : CombineKeyPath(Source, items[i].path) = s[1] /\ items[i].value = s[2]
      BY <2>2 DEF Exported
    <3>2. items'[i].value = s[2]
      BY <1>1, <2>5, <2>7, <3>1 DEF Carried
    <3>3. Place(s) = CombineKeyPath(Destination, items[i].path)
      BY <2>4, <3>1, PlaceOfItem
    <3>4. Target(i)' = Place(s)
      BY <2>3, <3>3 DEF Target
    <3>. QED  BY <2>3, <3>2, <3>4
  <2>8. Carries'
    BY <1>1, <2>7 DEF Carries
  <2>9. Written'
    <3>1. items' \in Seq(SnapshotItems)
      BY <2>1, ShapedParts DEF RestTyped
    <3>. QED  BY <1>1, <3>1 DEF Written
  <2>. QED  BY <2>6, <2>8, <2>9
<1>. QED  BY <1>2, <1>3 DEF ImportDocument, Stops

LEMMA ImportValueBrings == ImportInv /\ ImportValue => Brought'
<1> SUFFICES ASSUME ImportInv, ImportValue PROVE Brought'
  OBVIOUS
<1>1. /\ at = "import" /\ at' = "import" /\ next <= Len(items) /\ next' = next + 1
      /\ UNCHANGED <<registryOptions, items, format, steady, changes>>
  BY DEF ImportValue
<1>2. Shaped /\ next \in Nat \ {0} /\ items \in Seq(SnapshotItems) /\ RegistryThere
  BY ShapedParts DEF ImportInv, ExportInv, RestTyped
<1> SUFFICES ASSUME changes <= 1, format = "json" \/ RootSteady
             PROVE  Distinct(items') /\ Carries' /\ (ok' /\ ~registryOptions.dryRun => Written')
  BY <1>1 DEF Brought, RootSteady
<1>3. Distinct(items) /\ Carries /\ (ok /\ ~registryOptions.dryRun => Written)
  BY <1>1 DEF ImportInv, Brought, Importing
<1>4. Carries'
  BY <1>1, <1>3 DEF Carries, Carried, Target
<1>5. ASSUME ok', ~registryOptions.dryRun PROVE Written'
  <2>1. /\ ok /\ Target(next) \in KeySet
        /\ store' = [store EXCEPT ![Target(next)] = Set(@, Native(items[next].value))]
        /\ exists' = WithKey(Target(next))
    <3>1. \/ /\ Target(next) \in KeySet /\ ok' = AfterFailure(FALSE)
             /\ store' = [store EXCEPT ![Target(next)] = Set(@, Native(items[next].value))]
             /\ exists' = WithKey(Target(next))
          \/ ok' = AfterFailure(TRUE)
      BY <1>5, Zenon DEF ImportValue
    <3>2. ok' # AfterFailure(TRUE)
      BY <1>5, Zenon DEF AfterFailure
    <3>3. ok' = AfterFailure(FALSE) => ok
      BY <1>5, Zenon DEF AfterFailure
    <3>. QED  BY <3>1, <3>2, <3>3, Zenon
  <2> DEFINE t == Target(next)  v == Native(items[next].value)
  <2>2. next \in DOMAIN items /\ v \in RegistryValues /\ v.name = items[next].value.name
    BY <1>1, <1>2, NextItem
  <2>3. store'[t] = Set(store[t], v) /\ \A j \in KeySet : j # t => store'[j] = store[j]
    BY <1>1, <1>2, <2>1, ImportWrites
  <2>4. store[t] \in Seq(RegistryValues) /\ NamesDiffer(store[t])
    BY <1>2, <2>1 DEF RegistryThere
  <2>5. v \in ToSet(store'[t])
    BY <2>2, <2>3, <2>4, SetKeeps
  <2>6. ASSUME NEW i \in DOMAIN items, i < next PROVE Target(i) \in KeySet /\ Native(items[i].value) \in ToSet(store'[Target(i)])
    <3>1. Target(i) \in KeySet /\ Native(items[i].value) \in ToSet(store[Target(i)])
      BY <1>3, <1>5, <2>1, <2>6 DEF Written
    <3>2. CASE Target(i) # t
      BY <2>3, <3>1, <3>2
    <3>3. CASE Target(i) = t
      <4>1. items[i].path \in Seq(STRING) /\ items[next].path \in Seq(STRING) /\ Destination \in Seq(STRING)
        BY <1>2, <2>2, ItemTyped, RegistryAssumption DEF KeyPaths
      <4>2. \A a, b, c \in Seq(STRING) : a \o b = a \o c => b = c
        BY PrefixBelowRoot
      <4>3. items[i].path = items[next].path
        BY <3>3, <4>1, <4>2 DEF Target, CombineKeyPath
      <4>4. items[i].value.name # v.name
        BY <1>2, <1>3, <2>2, <2>6, <4>3 DEF Distinct
      <4>7. Native(items[i].value).name = items[i].value.name
        BY <1>2, ItemTyped, NativeIsValue
      <4>5. PICK j \in DOMAIN store[t] : store[t][j] = Native(items[i].value)
        BY <3>1, <3>3 DEF ToSet
      <4>6. j \in DOMAIN Set(store[t], v) /\ Set(store[t], v)[j] = Native(items[i].value)
        <5>1. \A x \in DOMAIN store[t] : /\ x \in DOMAIN Set(store[t], v)
                                         /\ store[t][x].name # v.name => Set(store[t], v)[x] = store[t][x]
          BY <2>2, <2>4, SetKeeps
        <5>. QED  BY <4>4, <4>5, <4>7, <5>1
      <4>. QED  BY <2>3, <3>1, <3>3, <4>6 DEF ToSet
    <3>. QED  BY <3>2, <3>3
  <2>7. ASSUME NEW i \in DOMAIN items, i < next' PROVE Target(i) \in KeySet /\ Native(items[i].value) \in ToSet(store'[Target(i)])
    <3>1. i < next \/ i = next
      BY <1>1, <1>2, <2>7
    <3>. QED  BY <2>1, <2>5, <2>6, <3>1
  <2>. HIDE DEF t, v
  <2>8. \A i \in DOMAIN items : Target(i)' = Target(i)
    BY <1>1 DEF Target
  <2>. QED  BY <1>1, <2>7, <2>8 DEF Written, Target
<1>. QED  BY <1>1, <1>3, <1>4, <1>5

LEMMA ImportDoneBrings == ImportInv /\ ImportDone => Brought'
<1> SUFFICES ASSUME ImportInv, ImportDone PROVE Brought'
  OBVIOUS
<1>1. /\ at = "import" /\ at' = "done" /\ next > Len(items)
      /\ UNCHANGED <<registryOptions, items, format, steady, changes, next, ok, store>>
  BY DEF ImportDone, ClientOnly
<1>2. Carries' <=> Carries
  BY <1>1 DEF Carries, Carried, Target
<1>3. Written' <=> Written
  BY <1>1 DEF Written, Target
<1>. QED  BY <1>1, <1>2, <1>3 DEF ImportInv, Brought, Importing, RootSteady

LEMMA BroughtStep == ImportInv /\ [RegistryNext]_registryVars => Brought'
<1> SUFFICES ASSUME ImportInv, [RegistryNext]_registryVars PROVE Brought'
  OBVIOUS
<1>1. CASE ImportDocument \/ ImportValue \/ ImportDone
  BY <1>1, ImportDocumentBrings, ImportValueBrings, ImportDoneBrings
<1>2. next \in Nat \ {0}
  BY ShapedParts DEF ImportInv, ExportInv, RestTyped
<1>3. CASE at \notin {"import", "done"} /\ at' \notin {"import", "idle"} /\ next' = next
  BY <1>2, <1>3 DEF ImportInv, Brought, Importing
<1>4. CASE Export \/ OpenValues \/ EnumValue \/ OpenSubkeys \/ EnumSubkey \/ Descend
  BY <1>3, <1>4 DEF Export, OpenValues, EnumValue, OpenSubkeys, EnumSubkey, Descend, Stops
<1>5. ASSUME NEW k \in KeySet, DeleteKey(k) \/ \E i \in DOMAIN store[k] : DeleteValue(k, i) \/ AskSize(k, i)
      PROVE  Brought'
  BY <1>3, <1>5 DEF DeleteKey, DeleteValue, AskSize
<1>6. CASE ReadData
  BY <1>3, <1>6 DEF ReadData
<1>7. CASE OtherProgram
  <2>1. at \in {"opening", "values", "subkeys", "reading"} /\ at' = at /\ next' = next
    BY <1>7, OtherProgramDoes
  <2>. QED  BY <1>3, <2>1
<1>8. CASE UNCHANGED registryVars
  <2>1. (Carries' <=> Carries) /\ (Written' <=> Written)
    BY <1>8 DEF registryVars, Carries, Carried, Written, Target
  <2>. QED  BY <1>8, <2>1 DEF registryVars, ImportInv, Brought, Importing, RootSteady
<1>. QED  BY <1>1, <1>4, <1>5, <1>6, <1>7, <1>8 DEF RegistryNext

LEMMA NothingTwiceStep == ImportInv /\ [RegistryNext]_registryVars => NothingTwice'
<1> SUFFICES ASSUME ImportInv, [RegistryNext]_registryVars PROVE NothingTwice'
  OBVIOUS
<1>1. CASE Export \/ OpenValues \/ EnumValue
  BY <1>1, ExportOrdered, OpenValuesOrdered, EnumValueOrdered
<1>2. CASE OpenSubkeys \/ EnumSubkey \/ Descend
  BY <1>2, OpenSubkeysOrdered, EnumSubkeyOrdered, DescendOrdered
<1>3. CASE OtherProgram
  BY <1>3, OtherProgramOrdered
<1>4. CASE at' \in {"import", "done", "reading"}
  BY <1>4 DEF NothingTwice, Walking
<1>5. CASE UNCHANGED registryVars
  <2>1. KeyInHand' = KeyInHand /\ Subkeys(KeyInHand)' = Subkeys(KeyInHand)
    BY <1>5 DEF registryVars, KeyInHand, Subkeys, SubkeyPlaces
  <2>2. Doomed' <=> Doomed
    BY <1>5, <2>1 DEF registryVars, Doomed
  <2>3. HeadItems' <=> HeadItems
    BY <1>5, <2>1 DEF registryVars, HeadItems, Numbered
  <2>4. NamesBehind' <=> NamesBehind
    BY <1>5, <2>1 DEF registryVars, NamesBehind, KeyNumbered
  <2>5. (Clear(Tail(work))' <=> Clear(Tail(work))) /\ (RootFirst' <=> RootFirst)
    BY <1>5 DEF registryVars, Clear, RootFirst, RootSteady
  <2>6. Orderly' <=> Orderly
    BY <1>5, <2>3, <2>4, <2>5 DEF registryVars, Orderly
  <2>. QED  BY <1>5, <2>2, <2>5, <2>6 DEF registryVars, ImportInv, NothingTwice, Walking
<1>6. ImportDocument \/ ImportValue \/ ImportDone \/ ReadData => at' \in {"import", "done", "reading"}
  BY DEF ImportDocument, ImportValue, ImportDone, ReadData, Stops
<1>7. ASSUME NEW k \in KeySet, DeleteKey(k) \/ \E i \in DOMAIN store[k] : DeleteValue(k, i) \/ AskSize(k, i)
      PROVE  at' \in {"import", "done", "reading"}
  BY <1>7 DEF DeleteKey, DeleteValue, AskSize
<1>. QED  BY <1>1, <1>2, <1>3, <1>4, <1>5, <1>6, <1>7 DEF RegistryNext

LEMMA ImportInvInit == RegistryInit => ImportInv
<1> SUFFICES ASSUME RegistryInit PROVE ImportInv
  OBVIOUS
<1>1. ExportInv
  BY ExportInvInit
<1>2. at = "idle" /\ items = <<>> /\ next = 1
  BY DEF RegistryInit
<1>. QED  BY <1>1, <1>2 DEF ImportInv, NothingTwice, Brought, Walking, Importing

\* An import that succeeds has left every exported value that its document can
\* carry in its place under the destination, with its name, its bytes and its
\* type, but for a type the code does not know: that one is written as binary.
THEOREM ImportAlwaysFaithful == RegistrySpec => []ImportIsFaithful
<1>1. RegistryInit => ImportInv
  BY ImportInvInit
<1>2. ImportInv /\ [RegistryNext]_registryVars => ImportInv'
  BY ExportInvStep, NothingTwiceStep, BroughtStep DEF ImportInv
<1>3. ImportInv => ImportIsFaithful
  <2> SUFFICES ASSUME ImportInv, at = "done", ok, ~registryOptions.dryRun, next > 1, changes <= 1,
                      NEW s \in steady, Carried(s)
               PROVE  \E v \in ToSet(store[Place(s)]) :
                        /\ v.name = s[2].name /\ v.data = s[2].data
                        /\ v.type = s[2].type \/ (s[2].type = "unknown" /\ v.type = "binary")
    BY DEF ImportIsFaithful, Place
  <2>1. Carries /\ Written /\ next > Len(items)
    BY DEF ImportInv, Brought, Importing, Carried, RootSteady
  <2>2. items \in Seq(SnapshotItems) /\ next \in Nat
    BY ShapedParts DEF ImportInv, ExportInv, RestTyped
  <2>3. PICK i \in DOMAIN items : items[i].value = s[2] /\ Target(i) = Place(s)
    BY <2>1 DEF Carries
  <2>4. i < next
    BY <2>1, <2>2
  <2>5. items[i].value \in RegistryValues
    BY ItemTyped DEF ImportInv, ExportInv
  <2>6. Native(s[2]) \in ToSet(store[Place(s)])
    BY <2>1, <2>3, <2>4 DEF Written
  <2>7. /\ Native(s[2]).name = s[2].name /\ Native(s[2]).data = s[2].data
        /\ Native(s[2]).type = s[2].type \/ (s[2].type = "unknown" /\ Native(s[2]).type = "binary")
    <3>1. s[2] \in RegistryValues
      BY <2>3, <2>5
    <3>. QED  BY <3>1, NativeIsValue
  <2>. QED  BY <2>6, <2>7
<1>. QED  BY <1>1, <1>2, <1>3, PTL DEF RegistrySpec

=============================================================================
