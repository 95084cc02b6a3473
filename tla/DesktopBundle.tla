--------------------------- MODULE DesktopBundle ---------------------------
(***************************************************************************)
(* plan_bundle, apply_bundle, query_bundle and remove_bundle of            *)
(* desktop.cpp on a freedesktop system.  A bundle is a sequence of items:  *)
(* files the application owns (desktop entry, autostart entry, icon, MIME  *)
(* declaration), registrations in the shared mimeapps.list, a policy (a    *)
(* file of defaults and a file of locks), and files to clean up.  Several  *)
(* applications call at once and nothing is locked; calls fail and         *)
(* processes die between two steps.                                        *)
(***************************************************************************)
EXTENDS Filters, SequencesExt

CONSTANTS
  Apps,          \* the applications, one process each
  Bundle,        \* application -> its items
  Options,       \* the apply_options they pass
  Foreign,       \* mimeapps.list at first: what other programs registered
  Litter,        \* other files at first: path -> content
  Absent, Torn,  \* no file; what a broken copy leaves
  MaxCalls,      \* bound: calls
  MaxFaults      \* bound: failing steps and dying processes

Items == UNION {ToSet(Bundle[a]) : a \in Apps}
OwnedKinds == {"desktop_entry", "autostart", "icon", "mime_declaration"}
Registrations == {"mime_association", "default_application", "url_scheme_handler"}
Kinds == OwnedKinds \cup Registrations \cup {"policy", "cleanup"}
PathsOf(item) ==
  CASE item.kind \in Registrations -> {"mimeapps.list"}
    [] item.kind = "policy" -> {item.path, item.lock}
    [] OTHER -> {item.path}
Paths == (UNION {PathsOf(i) : i \in Items}) \ {"mimeapps.list"}

\* The section and the key of a registration: a URL scheme is registered as the
\* default of a MIME type of its own.
SchemeKey(scheme) == <<"x-scheme-handler", scheme>>
Slot(item) ==
  CASE item.kind = "mime_association" -> <<"Added Associations", item.key>>
    [] item.kind = "default_application" -> <<"Default Applications", item.key>>
    [] item.kind = "url_scheme_handler" -> <<"Default Applications", SchemeKey(item.key)>>
\* A default application may be an intent not to be the default: applying it removes.
Removing(item, op) == op = "remove" \/ (item.kind = "default_application" /\ ~item.make_default)

\* The list has a place, perhaps an empty one, for every key there may be, and
\* a name of its own.  A registration names one or more desktop ids, each once.
ASSUME DesktopAssumption ==
  /\ MaxCalls \in Nat /\ MaxFaults \in Nat
  /\ Bundle \in [Apps -> Seq(Items)]
  /\ Options \subseteq [dryRun : BOOLEAN, write : BOOLEAN, policy : BOOLEAN, global : BOOLEAN]
  /\ Foreign \in [DOMAIN Foreign -> Seq(UNION {ToSet(Foreign[slot]) : slot \in DOMAIN Foreign})]
  /\ \A i \in Items :
       /\ i.kind \in Kinds
       /\ IF i.kind \in Registrations
          THEN Slot(i) \in DOMAIN Foreign /\ i.ids \in Seq(ToSet(i.ids)) /\ i.ids # <<>> /\ IsInjective(i.ids)
          ELSE "mimeapps.list" \notin PathsOf(i)
       /\ i.kind \in OwnedKinds \cup {"policy"} => i.content # Absent

VARIABLES
  files,         \* path -> content
  list,          \* <<section, key>> -> sequence of desktop ids
  call,          \* application -> the call it is in
  report,        \* application -> the report of its last call
  staged,        \* registrations reported staged, and no removal has come as far as the list
  raced,         \* an update of the list began before another one ended
  halfRemoved,   \* policies whose removal stopped between its two files
  calls, faults

vars == <<files, list, call, report, staged, raced, halfRemoved, calls, faults>>

Idle == [op |-> "none"]
NoReport == [op |-> "none"]
Ops == {"plan", "apply", "query", "remove"}

Init ==
  /\ files = [p \in Paths |-> IF p \in DOMAIN Litter THEN Litter[p] ELSE Absent]
  /\ list = Foreign
  /\ call = [a \in Apps |-> Idle] /\ report = [a \in Apps |-> NoReport]
  /\ staged = {} /\ raced = FALSE /\ halfRemoved = {}
  /\ calls = 0 /\ faults = 0

Item(a) == Bundle[a][call[a].item]
Working(a) == call[a].op # "none" /\ call[a].item <= Len(Bundle[a])
At(a, pc) == Working(a) /\ call[a].pc = pc
Goto(a, pc) == call' = [call EXCEPT ![a].pc = pc]
Fault == faults < MaxFaults /\ faults' = faults + 1
Quiet == UNCHANGED <<list, staged, raced, report, calls>>
-----------------------------------------------------------------------------
(* What a call may do, and what its rows say *)

\* An item that fails its validation, or whose directory is given as a relative
\* path or cannot be found, is refused by every operation.
Valid(item) == item.valid
Located(item) == item.located

\* The scope and the permissions an item needs.
Admitted(item, opt) ==
  /\ item.user \/ opt.global
  /\ IF item.kind = "policy" THEN opt.policy ELSE opt.write

\* A query asks for no permission.
Passes(a) ==
  /\ Valid(Item(a)) /\ Located(Item(a))
  /\ call[a].op = "query" \/ Admitted(Item(a), call[a].options)

\* status_for_effect and status_for_policy.
StatusFor(c, ok, present) ==
  CASE ~ok -> "failed"
    [] ok /\ c.op = "query" -> IF present THEN "present" ELSE "missing"
    [] ok /\ c.op = "remove" -> "missing"
    [] OTHER -> IF c.options.dryRun THEN "planned" ELSE "staged"

\* Global cleanup needs its permission.
Withheld(c, item) == c.op = "remove" /\ ~item.user /\ ~c.options.global

\* make_cleanup_report: the row for a file the bundle generates.  A query looks
\* for the file once more, and that look may fail.
GeneratedStatus(c, item, path, ok, present, seen) ==
  CASE path \in c.seen -> "skipped_duplicate"
    [] path \notin c.seen /\ Withheld(c, item) -> "failed"
    [] path \notin c.seen /\ ~Withheld(c, item) ->
         IF item.kind \in Registrations THEN "manual_follow_up"
         ELSE CASE c.op \in {"plan", "apply"} -> "planned"
                [] c.op = "query" -> IF ~seen THEN "failed" ELSE IF files[path] # Absent THEN "planned" ELSE "already_absent"
                [] c.op = "remove" -> IF ~ok THEN "failed" ELSE IF present THEN "removed" ELSE "already_absent"

\* Which functions report a path before they look at the permissions.
PathKnown(c, item, ok) ==
  \/ ok
  \/ item.located /\ item.kind \in {"icon", "mime_declaration"} \cup Registrations
  \/ item.located /\ item.kind = "desktop_entry" /\ c.op \in {"query", "remove"}

\* append_effect_report, append_policy_report: the item's status, a cleanup
\* row per file, and on to the next item.
ConcludeSeeing(a, ok, known, present, looked, seen) ==
  LET c == call[a]
      item == Item(a)
      rows == {<<p, GeneratedStatus(c, item, p, ok, present, seen)>> : p \in IF item.kind = "policy"
                 THEN (IF known THEN {item.path} ELSE {}) \cup (IF item.enforced THEN {item.lock} ELSE {})
                 ELSE IF known THEN PathsOf(item) ELSE {}}
  IN call' = [call EXCEPT ![a] =
       [c EXCEPT !.item = @ + 1, !.pc = "start", !.present = FALSE, !.read = {},
                 !.seen = @ \cup {r[1] : r \in rows},
                 !.blind = IF looked THEN @ ELSE @ \cup {c.item},
                 !.status = Append(@, StatusFor(c, ok, present)),
                 !.rows = @ \cup rows]]
Conclude(a, ok, known, present) == ConcludeSeeing(a, ok, known, present, TRUE, TRUE)
Fails(a) == Conclude(a, FALSE, TRUE, call[a].present)
Succeeds(a) == Conclude(a, TRUE, TRUE, call[a].present)
-----------------------------------------------------------------------------
(* A call and the gate of each item *)

Begin(a) ==
  /\ call[a].op = "none" /\ calls < MaxCalls
  /\ \E op \in Ops, opt \in Options :
       call' = [call EXCEPT ![a] =
         [op |-> op, options |-> [opt EXCEPT !.dryRun = @ \/ op = "plan"], item |-> 1, pc |-> "start",
          present |-> FALSE, read |-> {}, blind |-> {}, seen |-> {}, status |-> <<>>, rows |-> {}]]
  /\ report' = [report EXCEPT ![a] = NoReport]
  /\ calls' = calls + 1
  /\ UNCHANGED <<files, list, staged, raced, halfRemoved, faults>>

\* run_bundle ends: the call reports.
Return(a) ==
  /\ call[a].op # "none" /\ call[a].item > Len(Bundle[a])
  /\ report' = [report EXCEPT ![a] = [op |-> call[a].op, dryRun |-> call[a].options.dryRun,
                                     status |-> call[a].status, rows |-> call[a].rows, blind |-> call[a].blind]]
  /\ call' = [call EXCEPT ![a] = Idle]
  /\ UNCHANGED <<files, list, staged, raced, halfRemoved, calls, faults>>

Refuse(a) ==
  /\ At(a, "start") /\ Item(a).kind # "cleanup" /\ ~Passes(a)
  /\ Conclude(a, FALSE, PathKnown(call[a], Item(a), FALSE), call[a].op = "apply" /\ Item(a).kind \in OwnedKinds)
  /\ UNCHANGED <<files, halfRemoved, faults>> /\ Quiet

\* What the query of an item finds: of a registration it looks for the first id.
FoundRegistration(item) == Head(item.ids) \in ToSet(list[Slot(item)])
FoundPolicy(item) == files[item.path] = item.content
Found(item) ==
  CASE item.kind \in Registrations -> FoundRegistration(item)
    [] item.kind = "policy" -> FoundPolicy(item)
    [] OTHER -> files[item.path] # Absent

Query(a) ==
  /\ At(a, "start") /\ Item(a).kind # "cleanup" /\ call[a].op = "query" /\ Passes(a)
  /\ Conclude(a, TRUE, TRUE, Found(Item(a)))
  /\ UNCHANGED <<files, halfRemoved, faults>> /\ Quiet

\* These queries take an error of exists() for absence.
TakesErrorForAbsence(item) == item.kind \in Registrations \cup {"autostart", "policy"}

\* A query that cannot look: exists() fails, which means "missing" or "failed" by
\* the kind; the file is there and cannot be read; or the look for the row fails.
QueryFails(a) ==
  /\ At(a, "start") /\ Item(a).kind # "cleanup" /\ call[a].op = "query" /\ Passes(a)
  /\ Fault
  /\ \/ \E seen \in BOOLEAN : ConcludeSeeing(a, TakesErrorForAbsence(Item(a)), TRUE, FALSE, FALSE, seen)
     \/ TakesErrorForAbsence(Item(a)) /\ Fails(a)
     \/ ConcludeSeeing(a, TRUE, TRUE, Found(Item(a)), TRUE, FALSE)
  /\ UNCHANGED <<files, halfRemoved>> /\ Quiet

IsDryRun(c) == c.options.dryRun

\* A dry run stops before the first change.
DryRun(a) ==
  /\ At(a, "start") /\ Item(a).kind # "cleanup" /\ call[a].op # "query" /\ Passes(a)
  /\ IsDryRun(call[a])
  /\ Conclude(a, TRUE, TRUE, call[a].op # "remove")
  /\ UNCHANGED <<files, halfRemoved, faults>> /\ Quiet

\* The checks are passed and the changes begin.
FirstStep(item, op) ==
  CASE item.kind \in Registrations -> IF Removing(item, op) THEN "look" ELSE "read"
    [] item.kind \notin Registrations /\ op = "remove" -> IF item.kind = "autostart" THEN "remove" ELSE "probe"
    [] OTHER -> "write"

Start(a) ==
  /\ At(a, "start") /\ Item(a).kind # "cleanup" /\ call[a].op \in {"apply", "remove"} /\ Passes(a)
  /\ ~IsDryRun(call[a])
  /\ Goto(a, FirstStep(Item(a), call[a].op))
  /\ UNCHANGED <<files, halfRemoved, faults>> /\ Quiet
-----------------------------------------------------------------------------
(* Owned files and policies *)

\* The file is replaced as a whole, or a policy's defaults are.
Write(a) ==
  /\ At(a, "write")
  /\ files' = [files EXCEPT ![Item(a).path] = Item(a).content]
  /\ IF Item(a).kind = "policy" /\ Item(a).enforced THEN Goto(a, "lock") ELSE Conclude(a, TRUE, TRUE, TRUE)
  /\ halfRemoved' = halfRemoved \ {Item(a).path}
  /\ UNCHANGED faults /\ Quiet

\* write_durable_file fails before its rename, which replaces nothing, or after it,
\* at the flush of the directory or at the readback, and the new content is in
\* place.  An icon is copied over the old one.
WriteFails(a) ==
  /\ At(a, "write") /\ Fault
  /\ \/ UNCHANGED <<files, halfRemoved>>
     \/ Item(a).kind = "icon" /\ files' = [files EXCEPT ![Item(a).path] = Torn] /\ UNCHANGED halfRemoved
     \/ files' = [files EXCEPT ![Item(a).path] = Item(a).content] /\ halfRemoved' = halfRemoved \ {Item(a).path}
  /\ Conclude(a, FALSE, TRUE, TRUE)
  /\ Quiet

WriteLock(a) ==
  /\ At(a, "lock")
  /\ \/ /\ files' = [files EXCEPT ![Item(a).lock] = Item(a).content]
        /\ Conclude(a, TRUE, TRUE, TRUE) /\ UNCHANGED faults
     \/ /\ Fault /\ Conclude(a, FALSE, TRUE, TRUE)
        /\ UNCHANGED files \/ files' = [files EXCEPT ![Item(a).lock] = Item(a).content]
  /\ UNCHANGED halfRemoved /\ Quiet

\* remove_* looks whether the file is there before it removes it.
Probe(a) ==
  /\ At(a, "probe")
  /\ \/ call' = [call EXCEPT ![a].present = files[Item(a).path] # Absent, ![a].pc = "remove"] /\ UNCHANGED faults
     \/ Fault /\ Fails(a)
  /\ UNCHANGED <<files, halfRemoved>> /\ Quiet

RemoveFile(a) ==
  /\ At(a, "remove")
  /\ files' = [files EXCEPT ![Item(a).path] = Absent]
  /\ IF Item(a).kind = "policy"
     THEN Goto(a, "unlock") /\ halfRemoved' = halfRemoved \cup {Item(a).path}
     ELSE Succeeds(a) /\ UNCHANGED halfRemoved
  /\ UNCHANGED faults /\ Quiet

\* Mutant of RemoveFails: the error of the removal is not looked at.
RemoveFailsUnseen(a) ==
  /\ At(a, "remove") /\ Fault /\ Succeeds(a)
  /\ UNCHANGED <<files, halfRemoved>> /\ Quiet

RemoveFails(a) ==
  /\ At(a, "remove") /\ Fault /\ Fails(a)
  /\ UNCHANGED <<files, halfRemoved>> /\ Quiet

RemoveLock(a) ==
  /\ At(a, "unlock")
  /\ \/ /\ files' = [files EXCEPT ![Item(a).lock] = Absent]
        /\ halfRemoved' = halfRemoved \ {Item(a).path}
        /\ Succeeds(a) /\ UNCHANGED faults
     \/ Fault /\ Fails(a) /\ UNCHANGED <<files, halfRemoved>>
  /\ Quiet
-----------------------------------------------------------------------------
(* mimeapps.list *)

\* A removal first looks for the first id (only to report it): an error of
\* exists() passes for absence; one of the read ends the removal of a default,
\* while an association goes on and is reported failed whatever comes of it.
Look(a) ==
  /\ At(a, "look")
  /\ \/ Goto(a, "read") /\ UNCHANGED faults
     \/ /\ Fault
        /\ IF Item(a).kind = "mime_association"
           THEN call' = [call EXCEPT ![a].pc = "read", ![a].blind = @ \cup {call[a].item}]
           ELSE Fails(a)
  /\ UNCHANGED <<files, halfRemoved>> /\ Quiet

\* Mutant of ReadList: a failed read is taken for an empty list.
ReadListLoose(a) ==
  /\ At(a, "read")
  /\ \/ call' = [call EXCEPT ![a].read = {list}, ![a].pc = "update"] /\ UNCHANGED faults
     \/ Fault /\ call' = [call EXCEPT ![a].read = {[s \in DOMAIN list |-> <<>>]}, ![a].pc = "update"]
  /\ UNCHANGED <<files, halfRemoved, list, staged, report, calls>>
  /\ raced' = (raced \/ \E b \in Apps \ {a} : At(b, "update"))

\* exists, read_text and parse_mimeapps: the whole file, kept outside any lock.
ReadList(a) ==
  /\ At(a, "read")
  /\ \/ /\ call' = [call EXCEPT ![a].read = {list}, ![a].pc = "update"]
        /\ UNCHANGED faults
     \/ Fault /\ Fails(a)
  /\ UNCHANGED <<files, halfRemoved, list, staged, report, calls>>
  /\ raced' = (raced \/ \E b \in Apps \ {a} : At(b, "update"))

\* Mutant of Updated: a removal drops the key, and with it every id.
UpdatedKey(old, item, remove) ==
  LET slot == Slot(item)
      ids == old[slot]
  IN [old EXCEPT ![slot] =
        IF remove THEN <<>> ELSE ids \o KeepIn(item.ids, ToSet(item.ids) \ ToSet(ids))]

\* update_mimeapps_key: the ids that are not there are added behind the others,
\* or all of them are taken out.
Updated(old, item, remove) ==
  LET slot == Slot(item)
      ids == old[slot]
  IN [old EXCEPT ![slot] =
        IF remove THEN KeepIn(ids, ToSet(ids) \ ToSet(item.ids))
        ELSE ids \o KeepIn(item.ids, ToSet(item.ids) \ ToSet(ids))]

\* The file is written as it was read, but for the one key.
Rewritten(a) == Updated(CHOOSE l \in call[a].read : TRUE, Item(a), Removing(Item(a), call[a].op))
Mine(a) == <<a, call[a].item>>

UpdateList(a) ==
  /\ At(a, "update")
  /\ list' = Rewritten(a)
  /\ staged' = IF Removing(Item(a), call[a].op) THEN staged \ {Mine(a)} ELSE staged \cup {Mine(a)}
  /\ Conclude(a, call[a].item \notin call[a].blind, TRUE, call[a].present)
  /\ UNCHANGED <<files, halfRemoved, faults, raced, report, calls>>

\* As WriteFails: after the rename the new list is in place, and the report says failed.
UpdateListFails(a) ==
  /\ At(a, "update") /\ Fault /\ Fails(a)
  /\ list' \in {list, Rewritten(a)}
  /\ staged' = IF Removing(Item(a), call[a].op) THEN staged \ {Mine(a)} ELSE staged
  /\ UNCHANGED <<files, halfRemoved, raced, report, calls>>
-----------------------------------------------------------------------------
(* run_explicit_cleanup_rule *)

CleanupRow(a, status) ==
  call' = [call EXCEPT ![a] = [call[a] EXCEPT !.item = @ + 1, !.pc = "start", !.seen = @ \cup {Item(a).path},
             !.status = Append(@, IF status = "failed" THEN "failed" ELSE "done"), !.rows = @ \cup {<<Item(a).path, status>>}]]

\* Where a rule ends without a removal: only remove_bundle goes on, whatever
\* dry_run and the permissions other than the global one say.
CleanupStatus(c, item) ==
  CASE item.path \in c.seen -> "skipped_duplicate"
    [] item.path \notin c.seen /\ Withheld(c, item) -> "failed"
    [] item.path \notin c.seen /\ ~Withheld(c, item) ->
         CASE files[item.path] = Absent -> "already_absent"
           [] files[item.path] # Absent /\ c.op # "remove" -> "planned"
           [] files[item.path] # Absent /\ c.op = "remove" -> IF item.directory THEN "manual_follow_up" ELSE "remove"

Cleanup(a) ==
  /\ At(a, "start") /\ Item(a).kind = "cleanup"
  /\ LET status == CleanupStatus(call[a], Item(a))
     IN \/ /\ IF status = "remove" THEN Goto(a, "clean") ELSE CleanupRow(a, status)
           /\ UNCHANGED faults
        \/ status \in {"already_absent", "planned", "manual_follow_up", "remove"} /\ Fault /\ CleanupRow(a, "failed")
  /\ UNCHANGED <<files, halfRemoved>> /\ Quiet

\* The file is removed and then, if asked for, its directory: when only that
\* fails, the row says failed of a file that is gone.
CleanupRemove(a) ==
  /\ At(a, "clean")
  /\ \/ files' = [files EXCEPT ![Item(a).path] = Absent] /\ CleanupRow(a, "removed") /\ UNCHANGED faults
     \/ /\ Fault /\ CleanupRow(a, "failed")
        /\ \/ UNCHANGED files
           \/ Item(a).remove_empty_parent /\ files' = [files EXCEPT ![Item(a).path] = Absent]
  /\ UNCHANGED halfRemoved /\ Quiet
-----------------------------------------------------------------------------
\* The process is killed in the middle of a call; a copy may be left torn.
Dies(a) ==
  /\ call[a].op # "none" /\ Fault
  /\ call' = [call EXCEPT ![a] = Idle]
  /\ \/ UNCHANGED files
     \/ At(a, "write") /\ Item(a).kind = "icon" /\ files' = [files EXCEPT ![Item(a).path] = Torn]
  /\ UNCHANGED halfRemoved /\ Quiet

Next ==
  \E a \in Apps :
    \/ Begin(a) \/ Return(a) \/ Refuse(a) \/ Query(a) \/ QueryFails(a) \/ DryRun(a) \/ Start(a)
    \/ Write(a) \/ WriteFails(a) \/ WriteLock(a) \/ Probe(a) \/ RemoveFile(a) \/ RemoveFails(a) \/ RemoveLock(a)
    \/ Look(a) \/ ReadList(a) \/ UpdateList(a) \/ UpdateListFails(a)
    \/ Cleanup(a) \/ CleanupRemove(a) \/ Dies(a)

Spec == Init /\ [][Next]_vars
-----------------------------------------------------------------------------
(* Properties *)

\* Every variable keeps its type.
TypeOK ==
  /\ \A p \in Paths : files[p] \in {Absent, Torn} \cup {i.content : i \in {j \in Items : j.kind \in OwnedKinds \cup {"policy"}}}
                                   \cup {Litter[q] : q \in DOMAIN Litter}
  /\ DOMAIN list = DOMAIN Foreign
  /\ \A a \in Apps : call[a].op \in Ops \cup {"none"}
  /\ raced \in BOOLEAN /\ calls \in Nat /\ faults \in Nat

\* What other programs registered stays in mimeapps.list through every update,
\* removal, failure and crash of ours, overlapping ones included.
ForeignKept ==
  \A slot \in DOMAIN Foreign : KeepIn(list[slot], ToSet(Foreign[slot])) = Foreign[slot]

\* A registration reported staged stays in the list with all its ids, through
\* every failure, until a removal by its owner has come as far as the list, as
\* long as no update was read before another was written: the file has no lock.
\* A policy's lock never stays without the value it locks, unless a removal
\* stopped between the two files.
LockHasValue ==
  \A i \in Items : i.kind = "policy" /\ files[i.lock] # Absent => files[i.path] # Absent \/ i.path \in halfRemoved
StagedStays ==
  /\ ~raced => \A s \in staged : LET item == Bundle[s[1]][s[2]] IN ToSet(item.ids) \subseteq ToSet(list[Slot(item)])
  /\ LockHasValue

\* Two applications own different files, so the report of a finished call is
\* true: what it staged is there as asked, what it removed is gone, what a query
\* says missing is missing, and a cleanup row that says removed or absent is
\* about a file that is not there.  The one answer that may be false is the
\* "missing" of a query whose look failed, for the kinds that take the error for
\* absence (desktop.cpp 1020-1025, 2106-2112); "failed" claims nothing.
ReportIsTrue ==
  \A a \in Apps : report[a].op \in {"apply", "query", "remove"} /\ ~report[a].dryRun =>
    /\ \A i \in DOMAIN Bundle[a] : LET item == Bundle[a][i] IN item.kind \in OwnedKinds \cup {"policy"} =>
         CASE report[a].status[i] = "staged" -> /\ files[item.path] = item.content
                                                /\ item.kind = "policy" /\ item.enforced => files[item.lock] = item.content
           [] report[a].status[i] = "missing" -> IF report[a].op # "query" THEN files[item.path] = Absent
                                                 ELSE Found(item) => i \in report[a].blind /\ TakesErrorForAbsence(item)
           [] report[a].status[i] = "present" -> Found(item)
           [] OTHER -> TRUE
    /\ report[a].op # "apply" => \A r \in report[a].rows : r[2] \in {"removed", "already_absent"} => files[r[1]] = Absent
=============================================================================
