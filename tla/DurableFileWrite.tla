-------------------------- MODULE DurableFileWrite --------------------------
(***************************************************************************)
(* write_durable_file (durable_file_write.cpp) on POSIX: several writers,  *)
(* each at its own step, on one directory.  A file is one image; Torn is   *)
(* any image that is not all of one content: truncated, half written or    *)
(* mixed.  What a power loss would leave is kept beside what readers see.  *)
(* Whoever calls it starts a writer with Enter and goes on when its pc is  *)
(* "returned".                                                             *)
(***************************************************************************)
EXTENDS Naturals, FiniteSets

CONSTANTS Writers,    \* threads that write
          Names,      \* paths by which applications name the file
          Main,       \* the path of the file itself; the others may be links
          Contents,   \* what applications write
          Absent,     \* no file
          Torn,       \* a damaged image
          MaxFaults   \* bound: system calls that fail

Images == Contents \union {Absent, Torn}

ASSUME NamesAssumption == Main \in Names
ASSUME ImagesAssumption == Absent \notin Contents /\ Torn \notin Contents /\ Absent # Torn
ASSUME FaultsAssumption == MaxFaults \in Nat

VARIABLES now,     \* the image a reader of each path sees, links apart
          disk,    \* images the file now at a path may have after a power loss
          older,   \* images of the files the entry on disk may still lead to
          link,    \* paths that are symbolic links to Main
          backup,  \* the ".bak" file of each path
          bakDisk, \* what a power loss may leave of it
          pc, op,  \* where each writer is, and its options and locals
          result,  \* the report each writer is about to hand over
          faults

files == <<now, disk, older, link, backup, bakDisk>>
writeVars == <<files, pc, op, result, faults>>

Gone == "gone"    \* an open file whose name a rename has taken
Bak  == "backup"  \* the backup, as the source or target of a copy
Closed == "closed"
Handles == Names \union {Gone, Bak, Closed}

ASSUME HandlesAssumption == Names \intersect {Gone, Bak, Closed} = {}

Requests == [path: Names, content: Contents, keep_backup: BOOLEAN,
             atomic_replace: BOOLEAN, durable_write: BOOLEAN, valid: BOOLEAN]
Ops == [path: Names, content: Contents, keep_backup: BOOLEAN, atomic_replace: BOOLEAN,
        durable_write: BOOLEAN, valid: BOOLEAN,
        backup_path: BOOLEAN, created: BOOLEAN, out: Handles, from: Handles, data: Images]
Steps == {"prepare", "backup", "copy", "open", "write", "sync", "validate",
          "rename", "flush", "readback", "restore", "restoring", "returned"}

\* A path is followed to the file when it is read or opened, not when it is renamed over.
Where(n) == IF n \in link THEN Main ELSE n
Seen(n) == now[Where(n)]

Fault == faults < MaxFaults /\ faults' = faults + 1
Goto(w, step) == pc' = [pc EXCEPT ![w] = step]
Return(w, r) == Goto(w, "returned") /\ result' = [result EXCEPT ![w] = r]
Fails(w) == Fault /\ Return(w, "failed") /\ UNCHANGED op
\* What the k-th writer of an open file makes of it: it may overlap with another's bytes.
Written(image, c) == IF image = Torn THEN {c} ELSE {c, Torn}
AfterBackup(w) == IF op[w].atomic_replace THEN "rename" ELSE "open"

NewOp(r) == [path |-> r.path, content |-> r.content, keep_backup |-> r.keep_backup,
             atomic_replace |-> r.atomic_replace, durable_write |-> r.durable_write, valid |-> r.valid,
             backup_path |-> FALSE, created |-> FALSE, out |-> Closed, from |-> Closed, data |-> Absent]
FirstStep(r) == IF r.atomic_replace THEN "prepare" ELSE "backup"
-----------------------------------------------------------------------------
\* The temporary file has a name of its own: nobody else sees it until the rename.
PrepareTemp(w) ==
  /\ pc[w] = "prepare"
  /\ IF op[w].valid THEN Goto(w, "backup") /\ UNCHANGED result ELSE Return(w, "failed")
  /\ UNCHANGED <<files, op, faults>>

FailTemp(w) == pc[w] = "prepare" /\ Fails(w) /\ UNCHANGED files

WantsBackup(w) == op[w].keep_backup /\ Seen(op[w].path) # Absent

SkipBackup(w) ==
  /\ pc[w] = "backup" /\ ~WantsBackup(w)
  /\ Goto(w, AfterBackup(w))
  /\ UNCHANGED <<files, op, result, faults>>

\* copy_file truncates the backup, then fills it; nothing is flushed.
OpenBackup(w) ==
  LET n == op[w].path IN
  /\ pc[w] = "backup" /\ WantsBackup(w)
  /\ backup' = [backup EXCEPT ![n] = Torn]
  /\ bakDisk' = [bakDisk EXCEPT ![n] = @ \union {Torn}]
  /\ op' = [op EXCEPT ![w].out = Bak, ![w].from = Where(n)]
  /\ Goto(w, "copy")
  /\ UNCHANGED <<now, disk, older, link, result, faults>>

CopyBackup(w) ==
  LET n == op[w].path
      data == IF op[w].from = Gone THEN op[w].data ELSE now[op[w].from]
  IN /\ pc[w] = "copy"
     /\ \E image \in Written(backup[n], data) :
          /\ backup' = [backup EXCEPT ![n] = image]
          /\ bakDisk' = [bakDisk EXCEPT ![n] = @ \union {image}]
     /\ op' = [op EXCEPT ![w].out = Closed, ![w].from = Closed, ![w].data = Absent,
                         ![w].backup_path = TRUE]
     /\ Goto(w, AfterBackup(w))
     /\ UNCHANGED <<now, disk, older, link, result, faults>>

FailBackup(w) ==
  /\ pc[w] = "copy" \/ (pc[w] = "backup" /\ WantsBackup(w))
  /\ Fails(w) /\ UNCHANGED files
-----------------------------------------------------------------------------
\* open(O_TRUNC) of the target, in place: through a link, and creating it if need be.
Truncate(w) ==
  LET n == Where(op[w].path) IN
  /\ now' = [now EXCEPT ![n] = Torn]
  /\ disk' = [disk EXCEPT ![n] = IF now[n] = Absent THEN {Torn} ELSE @ \union {Torn}]
  /\ older' = [older EXCEPT ![n] = IF now[n] = Absent THEN @ \union disk[n] ELSE @]
  /\ op' = [op EXCEPT ![w].out = n, ![w].created = (now[n] = Absent)]
  /\ UNCHANGED <<link, backup, bakDisk>>

\* Writes c to the target as it was opened; a renamed-over file is nobody's any more.
Fill(w, c) ==
  LET n == op[w].out IN
  IF n = Gone THEN UNCHANGED files
  ELSE /\ \E image \in Written(now[n], c) :
            /\ now' = [now EXCEPT ![n] = image]
            /\ disk' = [disk EXCEPT ![n] = @ \union {image}]
       /\ UNCHANGED <<older, link, backup, bakDisk>>

OpenTarget(w) ==
  /\ pc[w] = "open" /\ Truncate(w)
  /\ Goto(w, "write") /\ UNCHANGED <<result, faults>>

WriteTarget(w) ==
  /\ pc[w] = "write" /\ Fill(w, op[w].content)
  /\ Goto(w, IF op[w].durable_write THEN "sync" ELSE "validate")
  /\ UNCHANGED <<op, result, faults>>

\* fsync of the file, and of its directory if the file is new.
SyncTarget(w) ==
  LET n == op[w].out IN
  /\ pc[w] = "sync"
  /\ disk' = IF n = Gone THEN disk ELSE [disk EXCEPT ![n] = {now[n]}]
  /\ older' = IF n = Gone \/ ~op[w].created THEN older ELSE [older EXCEPT ![n] = {}]
  /\ Goto(w, "validate")
  /\ UNCHANGED <<now, link, backup, bakDisk, op, result, faults>>

\* Without durable_write the stream is flushed when it is closed, and nobody asks whether that worked.
LoseWrite(w) ==
  /\ pc[w] = "write" /\ ~op[w].durable_write
  /\ Fault /\ Goto(w, "validate")
  /\ UNCHANGED <<files, op, result>>

\* A direct write that fails returns at once and leaves the target as it is.
FailTarget(w) == pc[w] \in {"open", "write", "sync"} /\ Fails(w) /\ UNCHANGED files

\* The validation callback of a direct write; a rejected file is restored if there is a backup.
GiveBack(w) == IF op[w].backup_path THEN Goto(w, "restore") /\ UNCHANGED result ELSE Return(w, "failed")

Validate(w) ==
  /\ pc[w] = "validate"
  /\ IF op[w].valid THEN Goto(w, "readback") /\ UNCHANGED result ELSE GiveBack(w)
  /\ UNCHANGED <<files, op, faults>>
-----------------------------------------------------------------------------
\* Open files of the name keep the file they opened: they lose the name.
LoseName(o, n) ==
  [o EXCEPT !.out = IF @ = n THEN Gone ELSE @,
            !.from = IF @ = n THEN Gone ELSE @,
            !.data = IF o.from = n THEN now[n] ELSE @]

\* rename replaces the entry of the path itself, a link included.
Rename(w) ==
  LET n == op[w].path
      c == op[w].content
  IN /\ pc[w] = "rename"
     /\ now' = [now EXCEPT ![n] = c]
     /\ older' = [older EXCEPT ![n] = @ \union disk[n]]
     /\ disk' = [disk EXCEPT ![n] = IF op[w].durable_write THEN {c} ELSE {c, Torn}]
     /\ link' = link \ {n}
     /\ op' = [v \in Writers |-> LoseName(op[v], n)]
     /\ Goto(w, IF op[w].durable_write THEN "flush" ELSE "readback")
     /\ UNCHANGED <<backup, bakDisk, result, faults>>

\* Defect: the error of rename is not looked at.
FailRenameUnnoticed(w) == pc[w] = "rename" /\ Fault /\ Return(w, "ok") /\ UNCHANGED <<op, files>>

FailRename(w) == pc[w] = "rename" /\ Fails(w) /\ UNCHANGED files

\* Defect: the directory is not flushed.
FlushParentLater(w) ==
  /\ pc[w] = "flush"
  /\ Goto(w, "readback")
  /\ UNCHANGED <<files, op, result, faults>>

FlushParent(w) ==
  /\ pc[w] = "flush"
  /\ older' = [older EXCEPT ![op[w].path] = {}]
  /\ Goto(w, "readback")
  /\ UNCHANGED <<now, disk, link, backup, bakDisk, op, result, faults>>

\* The new content is in place, and the report says failed.
FailFlush(w) == pc[w] = "flush" /\ Fails(w) /\ UNCHANGED files

Readback(w) ==
  /\ pc[w] = "readback"
  /\ IF Seen(op[w].path) = op[w].content THEN Return(w, "ok") ELSE GiveBack(w)
  /\ UNCHANGED <<files, op, faults>>

FailReadback(w) == pc[w] = "readback" /\ Fault /\ GiveBack(w) /\ UNCHANGED <<files, op>>

\* The backup is copied over the target in place: after a rejected validation
\* (463-471) and after a failed readback (512-525).
OpenRestore(w) ==
  /\ pc[w] = "restore" /\ Truncate(w)
  /\ Goto(w, "restoring") /\ UNCHANGED <<result, faults>>

CopyRestore(w) ==
  /\ pc[w] = "restoring" /\ Fill(w, backup[op[w].path])
  /\ Return(w, "failed")
  /\ UNCHANGED <<op, faults>>

FailRestore(w) == pc[w] \in {"restore", "restoring"} /\ Fails(w) /\ UNCHANGED files
-----------------------------------------------------------------------------
WriteStep(w) ==
  \/ PrepareTemp(w) \/ FailTemp(w)
  \/ SkipBackup(w) \/ OpenBackup(w) \/ CopyBackup(w) \/ FailBackup(w)
  \/ OpenTarget(w) \/ WriteTarget(w) \/ LoseWrite(w) \/ SyncTarget(w)
  \/ FailTarget(w) \/ Validate(w)
  \/ Rename(w) \/ FailRename(w) \/ FlushParent(w) \/ FailFlush(w)
  \/ Readback(w) \/ FailReadback(w) \/ OpenRestore(w) \/ CopyRestore(w) \/ FailRestore(w)
=============================================================================
