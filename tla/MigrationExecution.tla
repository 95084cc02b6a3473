------------------------- MODULE MigrationExecution -------------------------
(***************************************************************************)
(* plan_migration and execute_migration_plan (migration_planning.cpp,      *)
(* migration_filesystem.cpp): each action of a plan is checked, copied,    *)
(* verified, and for a move the source is removed, with one call of the    *)
(* file system per step.  Calls fail; a copy may be silently incomplete;   *)
(* the owner of the files writes to the source while it is migrated.       *)
(*                                                                         *)
(* A location holds nothing, a file, or a directory of files.  A file is a *)
(* location whose only entry is Self.  Every state is one a crash may      *)
(* leave, as nothing is kept elsewhere.                                    *)
(***************************************************************************)
EXTENDS Naturals, Sequences, FiniteSets

CONSTANTS
  Locations, Entries, Contents,
  Self,          \* the entry a file consists of
  Absent,        \* no content
  Plans,         \* plans: sequences of [kind, from, to, dangerous, elevation]
  Options,       \* the options a caller may pass
  Trees,         \* what the locations hold at first
  MaxMishaps,    \* bound: calls that fail, copies that are incomplete
  MaxWrites      \* bound: writes by the owner

Kinds == {"copy_file", "rename_file", "copy_directory", "move_directory", "registry"}
IsFileAction(kind) == kind # "registry"
IsDirectoryAction(kind) == kind \in {"copy_directory", "move_directory"}
IsMoveAction(kind) == kind \in {"rename_file", "move_directory"}
RequiresDangerousPermission(kind) == kind \in {"rename_file", "move_directory"}

\* What a location may hold: a file has the entry Self and no other.
Tree == [kind : {"none", "file", "directory", "link"}, files : [Entries -> Contents \cup {Absent}]]
WellFormed(t) ==
  /\ t.kind \in {"none", "link"} => \A e \in Entries : t.files[e] = Absent
  /\ t.kind = "file" => \A e \in Entries : t.files[e] # Absent <=> e = Self

ASSUME MigrationAssumption ==
  /\ Self \in Entries /\ Absent \notin Contents
  /\ MaxMishaps \in Nat /\ MaxWrites \in Nat
  /\ Trees \subseteq [Locations -> {t \in Tree : WellFormed(t)}]
  /\ \A p \in Plans :
       /\ p \in Seq([kind : Kinds, from : Locations, to : Locations, dangerous : BOOLEAN, elevation : BOOLEAN]) /\ p # <<>>
       /\ \A i \in DOMAIN p : p[i].from # p[i].to

VARIABLES
  tree,          \* what each location holds: [kind, files]
  plan, options, \* the plan being executed and the options
  planOk,        \* the plan has no error diagnostics
  step,          \* where execution is
  now,           \* the action it is at
  left,          \* entries still to copy, verify, remove
  existed,       \* result.target_existed_before
  vouched,       \* entries verified equal, with their content
  results,       \* report.actions: [state, rollback]
  lapses,        \* what went wrong so far that the code does not make good
  mishaps, writes

vars == <<tree, plan, options, planOk, step, now, left, existed, vouched, results, lapses, mishaps, writes>>
request == <<plan, options, planOk>>

Nothing == [kind |-> "none", files |-> [e \in Entries |-> Absent]]
Exists(loc) == tree[loc].kind # "none"
FilesIn(loc) == {e \in Entries : tree[loc].files[e] # Absent}
Steps == {"planning", "check", "parents", "copy", "verify", "remove", "rollback", "finish", "done"}
States == {"executed", "skipped", "blocked", "unsupported", "partially_executed", "rollback_missing", "rollback_failed"}
Rollbacks == {"unavailable", "succeeded", "failed"}
\* A source was not removed, a verification ended before its last entry.
Lapses == {"cleanup", "scan"}

Init ==
  /\ tree \in Trees /\ plan \in Plans /\ options \in Options
  /\ planOk = FALSE /\ step = "planning" /\ now = 1
  /\ left = {} /\ existed = FALSE /\ vouched = [e \in Entries |-> Absent]
  /\ results = <<>> /\ lapses = {} /\ mishaps = 0 /\ writes = 0

\* Every variable keeps its type.
TypeOK ==
  /\ tree \in [Locations -> Tree] /\ plan \in Plans
  /\ step \in Steps /\ left \subseteq Entries
  /\ now \in 1 .. IF step = "done" THEN Len(plan) + 1 ELSE Len(plan)
  /\ {planOk, existed} \subseteq BOOLEAN /\ lapses \subseteq Lapses
  /\ vouched \in [Entries -> Contents \cup {Absent}]
  /\ results \in Seq([state : States, rollback : Rollbacks])
  /\ mishaps \in 0 .. MaxMishaps /\ writes \in 0 .. MaxWrites
-----------------------------------------------------------------------------
(* Deciding about an action *)

\* append_action_gate_diagnostics
Gated(a) ==
  \/ a.dangerous /\ ~options.allowDangerous
  \/ a.elevation /\ ~options.allowElevation

\* append_file_action_diagnostics and append_source_object_model_diagnostics:
\* the errors among them.  A registry action gets only a warning.
Refused(a) ==
  /\ IsFileAction(a.kind)
  /\ \/ ~Exists(a.from)
     \/ tree[a.from].kind = "link"
     \/ IsDirectoryAction(a.kind) # (tree[a.from].kind = "directory")
     \/ Exists(a.to) /\ ~options.overwriteExisting

\* plan_migration: the same questions, asked when the plan is made.
PlanMigration ==
  /\ step = "planning"
  /\ planOk' = \A i \in DOMAIN plan : ~Gated(plan[i]) /\ ~Refused(plan[i])
  /\ step' = "check"
  /\ UNCHANGED <<tree, plan, options, now, left, existed, vouched, results, lapses, mishaps, writes>>

Action == plan[now]

\* The result of the current action is recorded, the next one is taken.
Report(state, rollback) ==
  /\ results' = Append(results, [state |-> state, rollback |-> rollback])
  /\ now' = now + 1
  /\ step' = IF now = Len(plan) THEN "done" ELSE "check"
  /\ left' = {}
  /\ vouched' = [e \in Entries |-> Absent]

GoOn(next, entries) == step' = next /\ left' = entries

\* The questions asked again before the action, in the order of the code;
\* the first that has an answer decides.
Check ==
  /\ step = "check"
  /\ existed' = Exists(Action.to)
  /\ IF ~planOk \/ Gated(Action) \/ Refused(Action) THEN Report("blocked", "unavailable")
     ELSE IF options.dryRun THEN Report("skipped", "unavailable")
     ELSE IF ~IsFileAction(Action.kind) THEN Report("unsupported", "unavailable")
     ELSE IF ~options.allowDangerous /\ RequiresDangerousPermission(Action.kind) THEN Report("blocked", "unavailable")
     ELSE GoOn("parents", {}) /\ UNCHANGED <<results, now, vouched>>
  /\ UNCHANGED <<tree, request, lapses, mishaps, writes>>
-----------------------------------------------------------------------------
(* Carrying it out *)

Fails == mishaps < MaxMishaps /\ mishaps' = mishaps + 1
Works == UNCHANGED mishaps
Carrying == UNCHANGED <<results, now>>
Put(loc, e, content) == tree' = [tree EXCEPT ![loc].files[e] = content]

\* create_directories, if asked for: what is missing exists afterwards.
Parents ==
  /\ step = "parents"
  /\ \/ /\ Works
        /\ GoOn(IF Action.kind = "rename_file" THEN "remove" ELSE "copy", FilesIn(Action.from))
        /\ Carrying /\ UNCHANGED vouched
     \/ /\ options.createParents /\ Fails
        /\ Report("blocked", "unavailable")
  /\ UNCHANGED <<tree, request, existed, lapses, writes>>

\* The first entry makes the target what the source is.
Made(loc) == [loc EXCEPT !.kind = tree[Action.from].kind]

\* copy_directory and copy_file, one entry at a time: an entry that is in the
\* target is replaced only with overwrite_existing; it may be incomplete.
CopyEntry(e) ==
  /\ step = "copy" /\ e \in left
  /\ tree[Action.to].files[e] = Absent \/ options.overwriteExisting
  /\ tree[Action.to].kind \in {"none", tree[Action.from].kind}
  /\ \E content \in Contents :
       /\ IF content = tree[Action.from].files[e] THEN Works ELSE Fails
       /\ tree' = [tree EXCEPT ![Action.to] = [Made(@) EXCEPT !.files[e] = content]]
  /\ GoOn("copy", left \ {e}) /\ Carrying
  /\ UNCHANGED <<request, existed, vouched, lapses, writes>>

\* The copy stops with an error: what was copied stays.
CopyFails ==
  /\ step = "copy"
  /\ \/ Fails
     \/ /\ Works
        /\ \/ tree[Action.to].kind \notin {"none", tree[Action.from].kind}
           \/ \E e \in left : tree[Action.to].files[e] # Absent /\ ~options.overwriteExisting
  /\ Report("blocked", "unavailable")
  /\ UNCHANGED <<tree, request, existed, lapses, writes>>

\* A move goes from the copy straight to the cleanup (mutant).
CopyDoneUnverified ==
  /\ step = "copy" /\ left = {}
  /\ tree[Action.to].kind \in {"none", tree[Action.from].kind}
  /\ tree' = [tree EXCEPT ![Action.to] = Made(@)]
  /\ IF IsMoveAction(Action.kind)
     THEN GoOn("remove", FilesIn(Action.from)) ELSE GoOn("finish", {})
  /\ Works /\ Carrying
  /\ UNCHANGED <<request, existed, vouched, lapses, writes>>

\* The copy is complete: an empty directory exists in the target by now.
CopyDone ==
  /\ step = "copy" /\ left = {}
  /\ tree[Action.to].kind \in {"none", tree[Action.from].kind}
  /\ tree' = [tree EXCEPT ![Action.to] = Made(@)]
  /\ IF IsDirectoryAction(Action.kind)
     THEN GoOn("verify", FilesIn(Action.from)) ELSE GoOn("finish", {})
  /\ Works /\ Carrying
  /\ UNCHANGED <<request, existed, vouched, lapses, writes>>

\* Only the presence of an entry is compared (mutant).
SameEntryBySize(e) == tree[Action.to].files[e] # Absent
\* regular_files_have_same_content
SameEntry(e) == tree[Action.to].files[e] = tree[Action.from].files[e]

\* verify_supported_directory_copy: every entry of the source, as it is now.
VerifyEntry(e) ==
  /\ step = "verify" /\ e \in left
  /\ IF SameEntry(e)
     THEN /\ vouched' = [vouched EXCEPT ![e] = tree[Action.from].files[e]]
          /\ GoOn("verify", left \ {e}) /\ Carrying
     ELSE Report(IF IsMoveAction(Action.kind) THEN "partially_executed" ELSE "blocked", "unavailable")
  /\ Works
  /\ UNCHANGED <<tree, request, existed, lapses, writes>>

\* The state, size or data of an entry cannot be read, or the walk not begun.
VerifyFails ==
  /\ step = "verify" /\ Fails
  /\ Report(IF IsMoveAction(Action.kind) THEN "partially_executed" ELSE "blocked", "unavailable")
  /\ UNCHANGED <<tree, request, existed, lapses, writes>>

\* The walk is over: after the last entry, or where going on failed, for the
\* iterator is then the end iterator and the loop does not look at the error.
VerifyDone ==
  /\ step = "verify"
  /\ IF left = {} THEN Works /\ UNCHANGED lapses ELSE Fails /\ lapses' = lapses \cup {"scan"}
  /\ GoOn(IF IsMoveAction(Action.kind) THEN "remove" ELSE "finish", FilesIn(Action.from))
  /\ Carrying
  /\ UNCHANGED <<tree, request, existed, vouched, writes>>

\* rename_file: one atomic step that replaces the target.
RenameFile ==
  /\ step = "remove" /\ Action.kind = "rename_file"
  /\ tree[Action.to].kind \in {"none", "file", "link"}
  /\ tree' = [tree EXCEPT ![Action.to] = tree[Action.from], ![Action.from] = Nothing]
  /\ GoOn("finish", {})
  /\ Works /\ Carrying
  /\ UNCHANGED <<request, existed, vouched, lapses, writes>>

RenameFails ==
  /\ step = "remove" /\ Action.kind = "rename_file"
  /\ IF tree[Action.to].kind = "directory" THEN Works ELSE Fails
  /\ Report("rollback_missing", "unavailable")
  /\ UNCHANGED <<tree, request, existed, lapses, writes>>

\* remove_all(source): the entries in any order, then the directory.
RemoveEntry(e) ==
  /\ step = "remove" /\ Action.kind = "move_directory" /\ e \in left
  /\ Put(Action.from, e, Absent)
  /\ GoOn("remove", left \ {e})
  /\ Works /\ Carrying
  /\ UNCHANGED <<request, existed, vouched, lapses, writes>>

RemoveDone ==
  /\ step = "remove" /\ Action.kind = "move_directory" /\ FilesIn(Action.from) = {}
  /\ tree' = [tree EXCEPT ![Action.from] = Nothing]
  /\ GoOn("finish", {})
  /\ Works /\ Carrying
  /\ UNCHANGED <<request, existed, vouched, lapses, writes>>

\* The target is rolled back whoever made it (mutant).
RollbackAlways == Exists(Action.to)
\* A target that was there before is not taken away again.
RollbackAvailable == Exists(Action.to) /\ ~existed

\* remove_all(source) fails half-way.
RemoveFails ==
  /\ step = "remove" /\ Action.kind = "move_directory"
  /\ Fails
  /\ lapses' = lapses \cup {"cleanup"}
  /\ IF RollbackAvailable
     THEN GoOn("rollback", FilesIn(Action.to)) /\ Carrying /\ UNCHANGED vouched
     ELSE Report("rollback_missing", "unavailable")
  /\ UNCHANGED <<tree, request, existed, writes>>

\* The rollback: remove_all(target).
RollbackEntry(e) ==
  /\ step = "rollback" /\ e \in left
  /\ Put(Action.to, e, Absent)
  /\ GoOn("rollback", left \ {e})
  /\ Works /\ Carrying
  /\ UNCHANGED <<request, existed, vouched, lapses, writes>>

RollbackDone ==
  /\ step = "rollback" /\ left = {}
  /\ tree' = [tree EXCEPT ![Action.to] = Nothing]
  /\ Report("partially_executed", "succeeded")
  /\ Works
  /\ UNCHANGED <<request, existed, lapses, writes>>

RollbackFails ==
  /\ step = "rollback" /\ Fails
  /\ Report("rollback_failed", "failed")
  /\ UNCHANGED <<tree, request, existed, lapses, writes>>

Finish ==
  /\ step = "finish"
  /\ Report("executed", "unavailable")
  /\ Works
  /\ UNCHANGED <<tree, request, existed, lapses, writes>>

\* The owner writes a file of the source while it is migrated, or between
\* the making of the plan and its execution; after an entry has been
\* verified the code promises nothing about it.
OwnerWrites(loc, e, content) ==
  /\ writes < MaxWrites /\ step \in {"planning", "check", "parents", "copy", "verify"}
  /\ loc = Action.from
  /\ tree[loc].kind \in {"file", "directory"} /\ tree[loc].files[e] # Absent
  /\ vouched[e] = Absent
  /\ Put(loc, e, content)
  /\ writes' = writes + 1
  /\ UNCHANGED <<request, step, now, left, existed, vouched, results, lapses, mishaps>>

Next ==
  \/ PlanMigration \/ Check \/ Parents \/ CopyFails \/ CopyDone \/ VerifyFails \/ VerifyDone
  \/ RenameFile \/ RenameFails \/ RemoveDone \/ RemoveFails \/ RollbackDone \/ RollbackFails \/ Finish
  \/ \E e \in Entries : CopyEntry(e) \/ VerifyEntry(e) \/ RemoveEntry(e) \/ RollbackEntry(e)
  \/ \E loc \in Locations, e \in Entries, content \in Contents : OwnerWrites(loc, e, content)

Spec == Init /\ [][Next]_vars
-----------------------------------------------------------------------------
(* Properties *)

\* No step takes the last copy of a content, until a cleanup has failed or a
\* verification was cut short: an entry leaves the source only when its content
\* is in the target (migration_filesystem.cpp 130-150).  Replacing an old target with
\* overwrite_existing is what the caller asked for.
KeepsContent ==
  [][\A e \in Entries :
       LET from == Action.from  to == Action.to IN
       /\ lapses = {} /\ step \in {"copy", "verify", "remove", "rollback"}
       /\ tree[from].files[e] # Absent /\ tree'[from].files[e] = Absent
       => tree'[to].files[e] = tree[from].files[e]]_vars

\* An action is reported executed only when its target holds every entry
\* that was verified, and for a move when the source is gone.
ExecutedMeansDone ==
  [][Len(results') > Len(results) /\ results'[Len(results')].state = "executed" =>
       /\ Exists(Action.to)
       /\ IsMoveAction(Action.kind) => ~Exists(Action.from)
       /\ \A e \in Entries : vouched[e] # Absent => tree[Action.to].files[e] = vouched[e]]_vars

\* A target that was there before the action keeps its entries, through every
\* failure and rollback; only overwrite_existing replaces their content.
TargetKept ==
  [][step # "check" /\ existed => \A e \in Entries :
       LET before == tree[Action.to].files[e] IN
       /\ before # Absent
       /\ tree'[Action.to].files[e] # before
       => options.overwriteExisting /\ tree'[Action.to].files[e] # Absent]_vars
=============================================================================
