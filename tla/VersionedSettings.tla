------------------------- MODULE VersionedSettings -------------------------
(***************************************************************************)
(* The writing half of settings.cpp: version tokens, the commit guard,     *)
(* write_versioned over write_durable_file, the writers that take no guard *)
(* (write_with_backup, write_common_config, ensure_config_defaults), and   *)
(* processes and machines that stop at any step.                           *)
(***************************************************************************)
EXTENDS DurableFileWrite

CONSTANTS Processes, ProcessOf,  \* the process of each thread
          VersionedRequests, PlainRequests,
          InitialImages,         \* what may be there at first
          Model,                 \* the content of the model file of a default
          NoToken, Nobody, NoRequest,
          Disciplined,           \* unguarded writes do not overlap others
          MaxCalls, MaxCrashes   \* bounds

ASSUME ProcessesAssumption == ProcessOf \in [Writers -> Processes]
ASSUME RequestsAssumption == VersionedRequests \subseteq Requests /\ PlainRequests \subseteq Requests
ASSUME ModelAssumption == Model \in Contents /\ InitialImages \subseteq Contents \union {Absent}
ASSUME NobodyAssumption == Nobody \notin Writers
ASSUME NoRequestAssumption ==
  NoRequest \notin [expected: Images, new: Contents, in_place: BOOLEAN, applied: BOOLEAN]
ASSUME BoundsAssumption == MaxCalls \in Nat /\ MaxCrashes \in Nat /\ Disciplined \in BOOLEAN

VARIABLES token,   \* what each caller holds from read_file_version or missing_file_version
          domain,  \* the lock domain of each commit, Nobody without a guard
          mutex,   \* process mutex of each domain
          flock,   \* lock on the file beside each domain
          calls, crashes,
          live,    \* history: images an idle file may show
          safe     \* history: images a power loss may leave

guardVars == <<token, domain, mutex, flock>>
history == <<live, safe>>
vars == <<writeVars, guardVars, calls, crashes, history>>

Token == [content: Images, domain: Names]
NoWrite == [path |-> Main, content |-> Model, keep_backup |-> FALSE, atomic_replace |-> FALSE,
            durable_write |-> FALSE, valid |-> TRUE]

Init ==
  /\ \E c \in InitialImages :
       /\ now = [n \in Names |-> IF n = Main THEN c ELSE Absent]
       /\ live = {c} /\ safe = {c}
  /\ disk = [n \in Names |-> {now[n]}]
  /\ older = [n \in Names |-> {}]
  /\ link = Names \ {Main}
  /\ backup = [n \in Names |-> Absent] /\ bakDisk = [n \in Names |-> {Absent}]
  /\ pc = [w \in Writers |-> "idle"]
  /\ op = [w \in Writers |-> NewOp(NoWrite)]
  /\ result = [w \in Writers |-> "none"]
  /\ token = [w \in Writers |-> NoToken]
  /\ domain = [w \in Writers |-> Nobody]
  /\ mutex = [d \in Processes \X Names |-> Nobody] /\ flock = [n \in Names |-> Nobody]
  /\ faults = 0 /\ calls = 0 /\ crashes = 0
-----------------------------------------------------------------------------
Call == calls < MaxCalls /\ calls' = calls + 1
Idle(w) == pc[w] = "idle"
Guarded(w) == domain[w] # Nobody

\* A link to a file that is missing stays lexical in weakly_canonical.
LockDomain(n) == IF n \in link /\ now[Main] # Absent THEN Main ELSE n

ReadFileVersion(w, n) ==
  /\ Idle(w) /\ Seen(n) # Absent /\ calls < MaxCalls
  /\ token' = [token EXCEPT ![w] = [content |-> Seen(n), domain |-> LockDomain(n)]]
  /\ UNCHANGED <<writeVars, domain, mutex, flock, calls, crashes, history>>

MissingFileVersion(w, n) ==
  /\ Idle(w) /\ calls < MaxCalls
  /\ token' = [token EXCEPT ![w] = [content |-> Absent, domain |-> LockDomain(n)]]
  /\ UNCHANGED <<writeVars, domain, mutex, flock, calls, crashes, history>>

Refuse(w, r) == Return(w, r) /\ UNCHANGED <<op, domain>>

\* write_versioned looks at the token before it asks for the guard.
WriteVersioned(w, r) ==
  /\ Idle(w) /\ Call
  /\ Disciplined => \A v \in Writers : Idle(v) \/ Guarded(v)
  /\ \/ token[w] = NoToken /\ Refuse(w, "token-invalid")
     \/ token[w] # NoToken /\ token[w].domain # LockDomain(r.path) /\ Refuse(w, "target-mismatch")
     \/ /\ token[w] # NoToken /\ token[w].domain = LockDomain(r.path)
        /\ op' = [op EXCEPT ![w] = NewOp(r)]
        /\ domain' = [domain EXCEPT ![w] = LockDomain(r.path)]
        /\ Goto(w, "mutex") /\ UNCHANGED result
  /\ UNCHANGED <<files, faults, token, mutex, flock, crashes, history>>

MutexOf(w) == <<ProcessOf[w], domain[w]>>

LockMutex(w) ==
  /\ pc[w] = "mutex" /\ mutex[MutexOf(w)] = Nobody
  /\ mutex' = [mutex EXCEPT ![MutexOf(w)] = w]
  /\ Goto(w, "flock")
  /\ UNCHANGED <<files, op, result, faults, token, domain, flock, calls, crashes, history>>

\* Defect: the lock is shared.
LockFileShared(w) ==
  /\ pc[w] = "flock"
  /\ flock' = [flock EXCEPT ![domain[w]] = w]
  /\ Goto(w, "compare")
  /\ UNCHANGED <<files, op, result, faults, token, domain, mutex, calls, crashes, history>>

LockFile(w) ==
  /\ pc[w] = "flock" /\ flock[domain[w]] = Nobody
  /\ flock' = [flock EXCEPT ![domain[w]] = w]
  /\ Goto(w, "compare")
  /\ UNCHANGED <<files, op, result, faults, token, domain, mutex, calls, crashes, history>>

\* The directory cannot be made, the lock file not opened or locked, or the target not read.
FailGuard(w) ==
  /\ pc[w] \in {"mutex", "flock", "compare"} /\ Fails(w)
  /\ UNCHANGED <<files, guardVars, calls, crashes, history>>

\* History: what a write can leave on the disk until a durable one is acknowledged.
MayLeave(r) == {r.content} \union (IF r.atomic_replace /\ r.durable_write THEN {} ELSE {Torn})
\* History: what a write that is not acknowledged may have made of the file.
InPlace(w) == ~op[w].atomic_replace \/ pc[w] \in {"restore", "restoring"}
InDoubt(w) == {op[w].content} \union (IF InPlace(w) THEN {Torn} ELSE {})

\* Defect: only the presence of the file is compared.
MatchesExistence(w) ==
  LET image == Seen(op[w].path) IN
  /\ pc[w] = "compare"
  /\ \/ /\ (image = Absent) <=> (token[w].content = Absent)
        /\ Goto(w, FirstStep(op[w]))
        /\ safe' = safe \union MayLeave(op[w])
        /\ UNCHANGED result
     \/ (image # token[w].content \/ image = Torn) /\ Return(w, "stale") /\ UNCHANGED safe
  /\ UNCHANGED <<files, op, faults, guardVars, calls, crashes, live>>

\* Two damaged images need not be the same bytes.
TargetMatchesToken(w) ==
  LET image == Seen(op[w].path) IN
  /\ pc[w] = "compare"
  /\ \/ /\ image = token[w].content /\ Goto(w, FirstStep(op[w]))
        /\ safe' = safe \union MayLeave(op[w])
        /\ UNCHANGED result
     \/ (image # token[w].content \/ image = Torn) /\ Return(w, "stale") /\ UNCHANGED safe
  /\ UNCHANGED <<files, op, faults, guardVars, calls, crashes, live>>
-----------------------------------------------------------------------------
\* write_with_backup and write_common_config go straight to the write.
WriteUnguarded(w, r) ==
  /\ Idle(w) /\ Call
  /\ Disciplined => \A v \in Writers : Idle(v)
  /\ op' = [op EXCEPT ![w] = NewOp(r)]
  /\ Goto(w, FirstStep(r))
  /\ safe' = safe \union MayLeave(r)
  /\ UNCHANGED <<files, result, faults, guardVars, crashes, live>>

\* ensure_config_defaults finds no target; an existing one is skipped.
EnsureDefault(w) ==
  /\ Idle(w) /\ Seen(Main) = Absent /\ Call
  /\ Disciplined => \A v \in Writers : Idle(v)
  /\ op' = [op EXCEPT ![w] = NewOp(NoWrite)]
  /\ Goto(w, "create")
  /\ safe' = safe \union MayLeave(NoWrite)
  /\ UNCHANGED <<files, result, faults, guardVars, crashes, live>>

\* copy_file without overwriting: the target must still be missing.
CreateDefault(w) ==
  /\ pc[w] = "create"
  /\ IF now[Main] = Absent
       THEN Truncate(w) /\ Goto(w, "fill") /\ UNCHANGED result
       ELSE Return(w, "failed") /\ UNCHANGED <<files, op>>
  /\ UNCHANGED <<faults, guardVars, calls, crashes, history>>

FillDefault(w) ==
  /\ pc[w] = "fill"
  /\ Fill(w, Model) /\ Return(w, "ok") /\ UNCHANGED <<op, faults>>
  /\ live' = {Model}
  /\ UNCHANGED <<guardVars, calls, crashes, safe>>

FailDefault(w) ==
  /\ pc[w] \in {"create", "fill"} /\ Fails(w)
  /\ live' = live \union InDoubt(w)
  /\ UNCHANGED <<files, guardVars, calls, crashes, safe>>
-----------------------------------------------------------------------------
\* A durable write in place does not flush the entry of a file it did not create.
Acknowledged(w) ==
  /\ live' = {op[w].content}
  /\ safe' = IF ~op[w].durable_write THEN safe
             ELSE {op[w].content} \union (IF op[w].atomic_replace THEN {} ELSE older[Main])

Write(w) ==
  /\ WriteStep(w)
  /\ CASE pc'[w] = "returned" /\ result'[w] = "ok" -> Acknowledged(w)
       [] pc'[w] = "returned" /\ result'[w] # "ok" -> live' = live \union InDoubt(w) /\ UNCHANGED safe
       [] pc'[w] = "restore" -> safe' = safe \union {Torn} /\ UNCHANGED live
       [] OTHER -> UNCHANGED history
  /\ UNCHANGED <<guardVars, calls, crashes>>

\* Defect: the lock file stays locked.
FinishHoldingLock(w) ==
  /\ pc[w] = "returned"
  /\ Goto(w, "idle")
  /\ op' = [op EXCEPT ![w] = NewOp(NoWrite)]
  /\ result' = [result EXCEPT ![w] = "none"]
  /\ domain' = [domain EXCEPT ![w] = Nobody]
  /\ mutex' = [d \in DOMAIN mutex |-> IF mutex[d] = w THEN Nobody ELSE mutex[d]]
  /\ UNCHANGED <<files, flock, faults, token, calls, crashes, history>>

\* The report is handed over; the guard, if there is one, is released.
Finish(w) ==
  /\ pc[w] = "returned"
  /\ Goto(w, "idle")
  /\ op' = [op EXCEPT ![w] = NewOp(NoWrite)]
  /\ result' = [result EXCEPT ![w] = "none"]
  /\ domain' = [domain EXCEPT ![w] = Nobody]
  /\ mutex' = [d \in DOMAIN mutex |-> IF mutex[d] = w THEN Nobody ELSE mutex[d]]
  /\ flock' = [n \in Names |-> IF flock[n] = w THEN Nobody ELSE flock[n]]
  /\ UNCHANGED <<files, faults, token, calls, crashes, history>>
-----------------------------------------------------------------------------
\* Threads W stop where they are; the kernel releases their locks.
Dies(W) ==
  /\ crashes < MaxCrashes /\ crashes' = crashes + 1
  /\ pc' = [w \in Writers |-> IF w \in W THEN "idle" ELSE pc[w]]
  /\ op' = [w \in Writers |-> IF w \in W THEN NewOp(NoWrite) ELSE op[w]]
  /\ result' = [w \in Writers |-> IF w \in W THEN "none" ELSE result[w]]
  /\ token' = [w \in Writers |-> IF w \in W THEN NoToken ELSE token[w]]
  /\ domain' = [w \in Writers |-> IF w \in W THEN Nobody ELSE domain[w]]
  /\ mutex' = [d \in DOMAIN mutex |-> IF mutex[d] \in W THEN Nobody ELSE mutex[d]]
  /\ flock' = [n \in Names |-> IF flock[n] \in W THEN Nobody ELSE flock[n]]
  /\ UNCHANGED <<link, faults, calls>>

Busy(w) == pc[w] \notin {"idle", "returned", "mutex", "flock", "compare"}

Kill(p) ==
  LET W == {w \in Writers : ProcessOf[w] = p} IN
  /\ Dies(W)
  /\ live' = live \union UNION {InDoubt(w) : w \in {v \in W : Busy(v)}}
  /\ UNCHANGED <<now, disk, older, backup, bakDisk, safe>>

PowerLoss ==
  /\ Dies(Writers)
  /\ now' \in [Names -> Images] /\ \A n \in Names : now'[n] \in disk[n] \union older[n]
  /\ backup' \in [Names -> Images] /\ \A n \in Names : backup'[n] \in bakDisk[n]
  /\ disk' = [n \in Names |-> {now'[n]}] /\ older' = [n \in Names |-> {}]
  /\ bakDisk' = [n \in Names |-> {backup'[n]}]
  /\ live' = {now'[Main]} /\ safe' = {now'[Main]}
-----------------------------------------------------------------------------
Thread(w) ==
  \/ LockMutex(w) \/ LockFile(w) \/ FailGuard(w) \/ TargetMatchesToken(w)
  \/ CreateDefault(w) \/ FillDefault(w) \/ FailDefault(w)
  \/ Write(w) \/ Finish(w)

Next ==
  \/ \E w \in Writers, n \in Names : ReadFileVersion(w, n) \/ MissingFileVersion(w, n)
  \/ \E w \in Writers, r \in VersionedRequests : WriteVersioned(w, r)
  \/ \E w \in Writers, r \in PlainRequests : WriteUnguarded(w, r)
  \/ \E w \in Writers : EnsureDefault(w)
  \/ \E w \in Writers : Thread(w)
  \/ \E p \in Processes : Kill(p)
  \/ PowerLoss

Spec == Init /\ [][Next]_vars /\ \A w \in Writers : WF_vars(Thread(w))
-----------------------------------------------------------------------------
TypeOK ==
  /\ now \in [Names -> Images] /\ backup \in [Names -> Images]
  /\ disk \in [Names -> SUBSET Images] /\ older \in [Names -> SUBSET Images]
  /\ bakDisk \in [Names -> SUBSET Images]
  /\ link \subseteq Names \ {Main}
  /\ pc \in [Writers -> Steps \union {"idle", "mutex", "flock", "compare", "create", "fill"}]
  /\ op \in [Writers -> Ops]
  /\ token \in [Writers -> Token \union {NoToken}]
  /\ domain \in [Writers -> Names \union {Nobody}]
  /\ mutex \in [Processes \X Names -> Writers \union {Nobody}]
  /\ flock \in [Names -> Writers \union {Nobody}]
  /\ live \subseteq Images /\ safe \subseteq Images

BeforeReplacing == {"prepare", "backup", "copy", "open", "rename"}

\* What the guard protects: from the comparison with the token to the replacement, the
\* file is still the one the caller read (write_versioned, settings.cpp:458-473).
TokenStaysCurrent ==
  \A w \in Writers : Guarded(w) /\ pc[w] \in BeforeReplacing => Seen(op[w].path) = token[w].content

\* While nobody writes, every path of the file shows the last acknowledged content, or
\* that of a failed write since (docs/adr/0016-versioned-settings-commit.md).
AcknowledgedIsVisible ==
  (\A w \in Writers : ~Busy(w)) => \A n \in Names : Seen(n) \in live

\* After a durable acknowledgement a power loss leaves its content or what later writes
\* made of it, and never a damaged file unless one of them was not durable and atomic.
AcknowledgedSurvives == disk[Main] \union older[Main] \subseteq safe

\* Every call of a writer ends: nobody waits for ever for the guard.
CallsReturn == \A w \in Writers : ~Idle(w) ~> Idle(w)

\* The commits as operations on one register: a commit has taken effect when the file
\* shows its content, by a rename or by the write that follows the truncation.
Replacing(w) ==
  Guarded(w) /\ pc[w] \in {"write", "sync", "validate", "flush", "readback", "restore", "restoring"}
Request(w) ==
  IF ~Guarded(w) \/ pc[w] = "returned" THEN NoRequest
  ELSE [expected |-> token[w].content, new |-> op[w].content,
        in_place |-> ~op[w].atomic_replace \/ pc[w] = "restoring",
        applied |-> Replacing(w) /\ now[Main] # Torn]

\* A file that a commit has torn still counts for the image it replaces.
Value ==
  IF now[Main] = Torn /\ \E w \in Writers : Replacing(w)
    THEN token[CHOOSE w \in Writers : Replacing(w)].content
    ELSE now[Main]

\* What a caller that held the guard is about to be told.
Answer(w) == IF Guarded(w) /\ pc[w] = "returned" THEN result[w] ELSE "none"

Register == INSTANCE CommitRegister WITH
  value <- Value, request <- [w \in Writers |-> Request(w)], answer <- [w \in Writers |-> Answer(w)]
CommitsAreAtomic == Register!Spec
=============================================================================
