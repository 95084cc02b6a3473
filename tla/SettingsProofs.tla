--------------------------- MODULE SettingsProofs ---------------------------
(***************************************************************************)
(* Theorems about the settings and the roots they are found in.  The first *)
(* part is about VersionedSettings: its types, that the image a commit     *)
(* compared with its token is the image it replaces, that the writers      *)
(* implement CommitRegister, and what readers and a power loss may find.   *)
(* The second part is about AppRoots: which source a path comes from, that *)
(* a call ends wholly in one mode, and where it creates directories.       *)
(***************************************************************************)
EXTENDS VersionedSettings, AppRoots, SequenceTheorems, NaturalsInduction, WellFoundedInduction, TLAPS

FilesTypeOK ==
  /\ now \in [Names -> Images] /\ backup \in [Names -> Images]
  /\ disk \in [Names -> SUBSET Images] /\ older \in [Names -> SUBSET Images]
  /\ bakDisk \in [Names -> SUBSET Images]
  /\ link \subseteq Names \ {Main}
AllSteps == Steps \union {"idle", "mutex", "flock", "compare", "create", "fill"}
WritersTypeOK == pc \in [Writers -> AllSteps] /\ op \in [Writers -> Ops]
\* What a backup is copied from has been opened.
SourceOpen == \A w \in Writers : pc[w] = "copy" => op[w].from \in Names \union {Gone}
WritingOK == FilesTypeOK /\ WritersTypeOK /\ SourceOpen
GuardsTypeOK ==
  /\ token \in [Writers -> Token \union {NoToken}]
  /\ domain \in [Writers -> Names \union {Nobody}]
  /\ mutex \in [Processes \X Names -> Writers \union {Nobody}]
  /\ flock \in [Names -> Writers \union {Nobody}]
  /\ live \subseteq Images /\ safe \subseteq Images

\* A request becomes the options of a write; the locals are fresh.
LEMMA NewOpType ==
  ASSUME NEW r \in Requests
  PROVE  NewOp(r) \in Ops
BY DEF NewOp, Requests, Ops, Handles, Closed, Images

LEMMA NoWriteType == NoWrite \in Requests
BY NamesAssumption, ModelAssumption DEF NoWrite, Requests

\* What ends up in a file is an image.
LEMMA WrittenType ==
  ASSUME NEW image, NEW c \in Images
  PROVE  Written(image, c) \subseteq Images
BY DEF Written, Images

LEMMA WhereType ==
  ASSUME NEW n \in Names
  PROVE  Where(n) \in Names
BY NamesAssumption DEF Where

\* An open file that loses its name stays a well-formed place.
LEMMA LoseNameType ==
  ASSUME FilesTypeOK, NEW o \in Ops, NEW n \in Names
  PROVE  /\ LoseName(o, n) \in Ops
         /\ LoseName(o, n).path = o.path
BY DEF LoseName, Ops, Handles, FilesTypeOK

LEMMA TruncateType ==
  ASSUME FilesTypeOK, op \in [Writers -> Ops], NEW w \in Writers, Truncate(w)
  PROVE  /\ FilesTypeOK' /\ op' \in [Writers -> Ops]
         /\ \A v \in Writers : op'[v].from = op[v].from /\ op'[v].path = op[v].path
<1> DEFINE n == Where(op[w].path)
<1>1. n \in Names
  BY WhereType DEF Ops
<1>2. Torn \in Images
  BY DEF Images
<1>3. FilesTypeOK'
  BY <1>1, <1>2 DEF FilesTypeOK, Truncate
<1> DEFINE o == [op[w] EXCEPT !.out = n, !.created = (now[n] = Absent)]
<1>4. op' = [op EXCEPT ![w] = o]
  BY DEF Truncate
<1>5. o \in Ops /\ o.from = op[w].from /\ o.path = op[w].path
  BY <1>1 DEF Ops, Handles
<1>6. op' \in [Writers -> Ops]
  BY <1>4, <1>5
<1>7. \A v \in Writers : op'[v].from = op[v].from /\ op'[v].path = op[v].path
  BY <1>4, <1>5
<1> QED BY <1>3, <1>6, <1>7

LEMMA FillType ==
  ASSUME FilesTypeOK, op \in [Writers -> Ops], NEW w \in Writers, NEW c \in Images, Fill(w, c)
  PROVE  FilesTypeOK'
<1>1. CASE op[w].out = Gone
  BY <1>1 DEF Fill, FilesTypeOK, files
<1>2. CASE op[w].out # Gone
  <2>1. PICK image \in Written(now[op[w].out], c) :
          /\ now' = [now EXCEPT ![op[w].out] = image]
          /\ disk' = [disk EXCEPT ![op[w].out] = @ \union {image}]
    BY <1>2 DEF Fill
  <2>2. image \in Images
    BY WrittenType
  <2> QED BY <1>2, <2>1, <2>2 DEF Fill, FilesTypeOK
<1> QED BY <1>1, <1>2

-----------------------------------------------------------------------------
(* Every step of a write keeps the types.  Only two kinds of step open or   *)
(* close a file; the others leave op alone.                                 *)

\* A step that leaves op alone and does not start a copy keeps the writers right.
LEMMA MoveType ==
  ASSUME WritersTypeOK, SourceOpen, NEW w \in Writers, NEW s \in AllSteps \ {"copy"},
         Goto(w, s), UNCHANGED op
  PROVE  WritersTypeOK' /\ SourceOpen'
BY DEF WritersTypeOK, SourceOpen, Goto

LEMMA ReturnType ==
  ASSUME WritersTypeOK, SourceOpen, NEW w \in Writers, NEW r, Return(w, r), UNCHANGED op
  PROVE  WritersTypeOK' /\ SourceOpen'
<1>1. "returned" \in AllSteps \ {"copy"}
  BY DEF AllSteps, Steps
<1> QED BY <1>1, MoveType DEF Return

\* The same for an operator that either moves on or returns.
LEMMA GiveBackType ==
  ASSUME WritersTypeOK, SourceOpen, NEW w \in Writers, GiveBack(w), UNCHANGED op
  PROVE  WritersTypeOK' /\ SourceOpen'
<1>1. "restore" \in AllSteps \ {"copy"}
  BY DEF AllSteps, Steps
<1> QED BY <1>1, MoveType, ReturnType DEF GiveBack

LEMMA FilesStay == ASSUME FilesTypeOK, UNCHANGED files PROVE FilesTypeOK'
BY DEF FilesTypeOK, files

LEMMA FailsType ==
  ASSUME WritingOK, NEW w \in Writers, Fails(w), UNCHANGED files
  PROVE  WritingOK'
BY ReturnType, FilesStay DEF WritingOK, Fails

LEMMA TruncateMoves ==
  ASSUME WritingOK, NEW w \in Writers, NEW s \in AllSteps \ {"copy"}, Truncate(w), Goto(w, s)
  PROVE  WritingOK'
<1>1. FilesTypeOK' /\ op' \in [Writers -> Ops] /\ \A v \in Writers : op'[v].from = op[v].from
  BY TruncateType DEF WritingOK, WritersTypeOK
<1>2. pc' = [pc EXCEPT ![w] = s]
  BY DEF Goto
<1> QED BY <1>1, <1>2 DEF WritingOK, WritersTypeOK, SourceOpen

LEMMA PrepareType ==
  ASSUME WritingOK, NEW w \in Writers, PrepareTemp(w) \/ SkipBackup(w)
  PROVE  WritingOK'
<1>1. "backup" \in AllSteps \ {"copy"} /\ AfterBackup(w) \in AllSteps \ {"copy"}
  BY DEF AllSteps, Steps, AfterBackup
<1> QED BY <1>1, MoveType, ReturnType, FilesStay DEF WritingOK, PrepareTemp, SkipBackup

LEMMA OpenBackupType ==
  ASSUME WritingOK, NEW w \in Writers, OpenBackup(w)
  PROVE  WritingOK'
<1> DEFINE n == op[w].path
<1>1. n \in Names /\ Where(n) \in Names
  BY WhereType DEF WritingOK, WritersTypeOK, Ops
<1>2. Torn \in Images
  BY DEF Images
<1>3. FilesTypeOK'
  BY <1>1, <1>2 DEF WritingOK, FilesTypeOK, OpenBackup
<1>4. op' = [op EXCEPT ![w] = [op[w] EXCEPT !.out = Bak, !.from = Where(n)]]
  BY DEF OpenBackup, WritingOK, WritersTypeOK
<1>5. [op[w] EXCEPT !.out = Bak, !.from = Where(n)] \in Ops
  BY <1>1 DEF WritingOK, WritersTypeOK, Ops, Handles
<1>6. pc' = [pc EXCEPT ![w] = "copy"] /\ "copy" \in AllSteps
  BY DEF OpenBackup, Goto, AllSteps, Steps
<1>7. WritersTypeOK'
  BY <1>4, <1>5, <1>6 DEF WritingOK, WritersTypeOK
<1>8. op'[w].from = Where(n)
  BY <1>4, <1>5 DEF WritingOK, WritersTypeOK, Ops
<1>9. SourceOpen'
  BY <1>1, <1>4, <1>6, <1>8 DEF WritingOK, WritersTypeOK, SourceOpen
<1> QED BY <1>3, <1>7, <1>9 DEF WritingOK

LEMMA CopyBackupType ==
  ASSUME WritingOK, NEW w \in Writers, CopyBackup(w)
  PROVE  WritingOK'
<1> DEFINE n == op[w].path
           data == IF op[w].from = Gone THEN op[w].data ELSE now[op[w].from]
<1>1. data \in Images /\ n \in Names
  BY DEF WritingOK, WritersTypeOK, FilesTypeOK, SourceOpen, CopyBackup, Ops
<1>2. PICK image \in Written(backup[n], data) :
        /\ backup' = [backup EXCEPT ![n] = image]
        /\ bakDisk' = [bakDisk EXCEPT ![n] = @ \union {image}]
  BY DEF CopyBackup
<1>3. image \in Images
  BY <1>1, WrittenType
<1>4. FilesTypeOK'
  BY <1>1, <1>2, <1>3 DEF WritingOK, FilesTypeOK, CopyBackup
<1>5. op' = [op EXCEPT ![w] = [op[w] EXCEPT !.out = Closed, !.from = Closed, !.data = Absent,
                                            !.backup_path = TRUE]]
  BY DEF CopyBackup, WritingOK, WritersTypeOK
<1>6. [op[w] EXCEPT !.out = Closed, !.from = Closed, !.data = Absent, !.backup_path = TRUE] \in Ops
  BY DEF WritingOK, WritersTypeOK, Ops, Handles, Images
<1>7. pc' = [pc EXCEPT ![w] = AfterBackup(w)] /\ AfterBackup(w) \in AllSteps \ {"copy"}
  BY DEF CopyBackup, Goto, AllSteps, Steps, AfterBackup
<1>8. WritersTypeOK'
  BY <1>5, <1>6, <1>7 DEF WritingOK, WritersTypeOK
<1>9. SourceOpen'
  BY <1>5, <1>7 DEF WritingOK, WritersTypeOK, SourceOpen
<1> QED BY <1>4, <1>8, <1>9 DEF WritingOK

LEMMA TargetType ==
  ASSUME WritingOK, NEW w \in Writers, OpenTarget(w) \/ WriteTarget(w) \/ LoseWrite(w)
  PROVE  WritingOK'
<1>1. {"write", "sync", "validate"} \subseteq AllSteps \ {"copy"}
  BY DEF AllSteps, Steps
<1>2. CASE OpenTarget(w)
  BY <1>1, <1>2, TruncateMoves DEF OpenTarget
<1>3. CASE WriteTarget(w)
  <2>1. op[w].content \in Images
    BY DEF WritingOK, WritersTypeOK, Ops, Images
  <2>2. FilesTypeOK'
    BY <1>3, <2>1, FillType DEF WriteTarget, WritingOK, WritersTypeOK
  <2> QED BY <1>1, <1>3, <2>2, MoveType DEF WriteTarget, WritingOK
<1>4. CASE LoseWrite(w)
  BY <1>1, <1>4, MoveType, FilesStay DEF LoseWrite, WritingOK
<1> QED BY <1>2, <1>3, <1>4

LEMMA SyncType ==
  ASSUME WritingOK, NEW w \in Writers, SyncTarget(w)
  PROVE  WritingOK'
<1>1. "validate" \in AllSteps \ {"copy"}
  BY DEF AllSteps, Steps
<1> DEFINE n == op[w].out
<1>2. disk' \in [Names -> SUBSET Images]
  <2>1. n \in Names => {now[n]} \in SUBSET Images
    BY DEF WritingOK, FilesTypeOK
  <2>2. disk' = IF n = Gone THEN disk ELSE [disk EXCEPT ![n] = {now[n]}]
    BY DEF SyncTarget
  <2>3. ASSUME NEW x \in SUBSET Images, NEW f \in [Names -> SUBSET Images], NEW k, k \in Names
        PROVE  [f EXCEPT ![k] = x] \in [Names -> SUBSET Images]
    BY <2>3
  <2>4. ASSUME NEW x, NEW f \in [Names -> SUBSET Images], NEW k, k \notin Names
        PROVE  [f EXCEPT ![k] = x] \in [Names -> SUBSET Images]
    BY <2>4
  <2> HIDE DEF n
  <2> QED BY <2>1, <2>2, <2>3, <2>4 DEF WritingOK, FilesTypeOK
<1>3. older' \in [Names -> SUBSET Images]
  BY DEF WritingOK, FilesTypeOK, SyncTarget
<1>4. FilesTypeOK'
  BY <1>2, <1>3 DEF WritingOK, FilesTypeOK, SyncTarget
<1> QED BY <1>1, <1>4, MoveType DEF SyncTarget, WritingOK

LEMMA ValidateType ==
  ASSUME WritingOK, NEW w \in Writers, Validate(w) \/ Readback(w) \/ FailReadback(w)
  PROVE  WritingOK'
<1>1. "readback" \in AllSteps \ {"copy"}
  BY DEF AllSteps, Steps
<1> QED BY <1>1, MoveType, ReturnType, GiveBackType, FilesStay
        DEF Validate, Readback, FailReadback, WritingOK

LEMMA RenameType ==
  ASSUME WritingOK, NEW w \in Writers, Rename(w)
  PROVE  WritingOK'
<1> DEFINE n == op[w].path
<1>1. n \in Names /\ op[w].content \in Images /\ Torn \in Images
  BY DEF WritingOK, WritersTypeOK, Ops, Images
<1>2. FilesTypeOK'
  BY <1>1 DEF WritingOK, FilesTypeOK, Rename
<1>3. \A v \in Writers : op'[v] = LoseName(op[v], n) /\ op'[v] \in Ops
  BY <1>1, LoseNameType DEF Rename, WritingOK, WritersTypeOK
<1>4. op' \in [Writers -> Ops]
  BY <1>3 DEF Rename
<1>5. \A v \in Writers : op'[v].from \in {op[v].from, Gone}
  BY <1>3, <1>4 DEF LoseName, WritingOK, WritersTypeOK, Ops
<1>6. PICK s \in AllSteps \ {"copy"} : pc' = [pc EXCEPT ![w] = s]
  BY DEF Rename, Goto, AllSteps, Steps
<1> QED BY <1>2, <1>4, <1>5, <1>6 DEF WritingOK, WritersTypeOK, SourceOpen

LEMMA FlushType ==
  ASSUME WritingOK, NEW w \in Writers, FlushParent(w)
  PROVE  WritingOK'
<1>1. "readback" \in AllSteps \ {"copy"}
  BY DEF AllSteps, Steps
<1>2. FilesTypeOK'
  BY DEF WritingOK, FilesTypeOK, FlushParent
<1> QED BY <1>1, <1>2, MoveType DEF FlushParent, WritingOK

LEMMA RestoreType ==
  ASSUME WritingOK, NEW w \in Writers, OpenRestore(w) \/ CopyRestore(w)
  PROVE  WritingOK'
<1>1. "restoring" \in AllSteps \ {"copy"}
  BY DEF AllSteps, Steps
<1>2. CASE OpenRestore(w)
  BY <1>1, <1>2, TruncateMoves DEF OpenRestore
<1>3. CASE CopyRestore(w)
  <2>1. backup[op[w].path] \in Images
    BY DEF WritingOK, WritersTypeOK, FilesTypeOK, Ops
  <2>2. FilesTypeOK'
    BY <1>3, <2>1, FillType DEF CopyRestore, WritingOK, WritersTypeOK
  <2> QED BY <1>3, <2>2, ReturnType DEF CopyRestore, WritingOK
<1> QED BY <1>2, <1>3

LEMMA WriteStepType ==
  ASSUME WritingOK, NEW w \in Writers, WriteStep(w)
  PROVE  WritingOK'
<1>1. CASE FailTemp(w) \/ FailBackup(w) \/ FailTarget(w) \/ FailRename(w) \/ FailFlush(w)
             \/ FailRestore(w)
  BY <1>1, FailsType
     DEF FailTemp, FailBackup, FailTarget, FailRename, FailFlush, FailRestore
<1> QED BY <1>1, PrepareType, OpenBackupType, CopyBackupType, TargetType, SyncType, ValidateType,
           RenameType, FlushType, RestoreType DEF WriteStep
-----------------------------------------------------------------------------
(* The actions around a write.                                             *)

Typed == WritingOK /\ GuardsTypeOK

LEMMA TypedIsTypeOK == Typed => TypeOK
BY DEF Typed, WritingOK, FilesTypeOK, WritersTypeOK, AllSteps, GuardsTypeOK, TypeOK

LEMMA FirstStepType ==
  ASSUME NEW r
  PROVE  FirstStep(r) \in AllSteps \ {"copy"}
BY DEF FirstStep, AllSteps, Steps

LEMMA StartType ==
  ASSUME WritersTypeOK, SourceOpen, NEW w \in Writers, NEW r \in Requests,
         NEW s \in AllSteps \ {"copy"}, Goto(w, s), op' = [op EXCEPT ![w] = NewOp(r)]
  PROVE  WritersTypeOK' /\ SourceOpen'
BY NewOpType DEF WritersTypeOK, SourceOpen, Goto

LEMMA HistoryType ==
  ASSUME WritersTypeOK, NEW w \in Writers, NEW r \in Requests
  PROVE  /\ MayLeave(r) \subseteq Images /\ MayLeave(op[w]) \subseteq Images
         /\ InDoubt(w) \subseteq Images
BY DEF WritersTypeOK, Ops, Requests, MayLeave, InDoubt, InPlace, Images

LEMMA InitTyped == Init => Typed
<1> SUFFICES ASSUME Init PROVE Typed
  OBVIOUS
<1>1. NewOp(NoWrite) \in Ops
  BY NewOpType, NoWriteType
<1>2. InitialImages \subseteq Images
  BY ModelAssumption DEF Images
<1>3. now \in [Names -> Images] /\ live \subseteq Images /\ safe \subseteq Images
  BY <1>2 DEF Init, Images
<1>4. FilesTypeOK
  BY <1>3 DEF Init, FilesTypeOK, Images
<1>5. WritersTypeOK /\ SourceOpen
  BY <1>1 DEF Init, WritersTypeOK, SourceOpen, AllSteps
<1>6. GuardsTypeOK
  BY <1>3 DEF Init, GuardsTypeOK
<1> QED BY <1>4, <1>5, <1>6 DEF Typed, WritingOK

LEMMA TokenTyped ==
  ASSUME Typed, NEW w \in Writers, NEW n \in Names,
         ReadFileVersion(w, n) \/ MissingFileVersion(w, n)
  PROVE  Typed'
<1>1. Seen(n) \in Images /\ Absent \in Images /\ LockDomain(n) \in Names
  BY WhereType, NamesAssumption DEF Typed, WritingOK, FilesTypeOK, Seen, LockDomain, Images
<1>2. /\ [content |-> Seen(n), domain |-> LockDomain(n)] \in Token
      /\ [content |-> Absent, domain |-> LockDomain(n)] \in Token
  BY <1>1 DEF Token
<1>3. GuardsTypeOK'
  BY <1>2 DEF Typed, GuardsTypeOK, ReadFileVersion, MissingFileVersion, history
<1>4. WritingOK'
  BY DEF Typed, WritingOK, FilesTypeOK, WritersTypeOK, SourceOpen, ReadFileVersion,
         MissingFileVersion, writeVars, files
<1> QED BY <1>3, <1>4 DEF Typed

LEMMA WriteVersionedTyped ==
  ASSUME Typed, NEW w \in Writers, NEW r \in VersionedRequests, WriteVersioned(w, r)
  PROVE  Typed'
<1>1. r \in Requests /\ r.path \in Names
  BY RequestsAssumption DEF Requests
<1>2. LockDomain(r.path) \in Names /\ "mutex" \in AllSteps \ {"copy"}
  BY <1>1, NamesAssumption DEF LockDomain, AllSteps
<1>3. WritersTypeOK' /\ SourceOpen'
  BY <1>1, <1>2, StartType, ReturnType DEF Typed, WritingOK, WriteVersioned, Refuse
<1>4. GuardsTypeOK'
  BY <1>2 DEF Typed, GuardsTypeOK, WriteVersioned, Refuse, history
<1>5. FilesTypeOK'
  BY FilesStay DEF Typed, WritingOK, WriteVersioned
<1> QED BY <1>3, <1>4, <1>5 DEF Typed, WritingOK

LEMMA GuardTyped ==
  ASSUME Typed, NEW w \in Writers,
         LockMutex(w) \/ LockFile(w) \/ FailGuard(w) \/ TargetMatchesToken(w)
  PROVE  Typed'
<1>1. {"flock", "compare"} \subseteq AllSteps \ {"copy"} /\ FirstStep(op[w]) \in AllSteps \ {"copy"}
  BY FirstStepType DEF AllSteps
<1>2. FilesTypeOK'
  BY FilesStay DEF Typed, WritingOK, LockMutex, LockFile, FailGuard, TargetMatchesToken
<1>3. WritersTypeOK' /\ SourceOpen'
  BY <1>1, MoveType, ReturnType
     DEF Typed, WritingOK, LockMutex, LockFile, FailGuard, TargetMatchesToken, Fails
<1>4. GuardsTypeOK'
  <2>1. CASE LockMutex(w)
    BY <2>1 DEF Typed, GuardsTypeOK, LockMutex, history
  <2>2. CASE LockFile(w)
    BY <2>2 DEF Typed, GuardsTypeOK, LockFile, history
  <2>3. CASE FailGuard(w)
    BY <2>3 DEF Typed, GuardsTypeOK, FailGuard, guardVars, history
  <2>4. CASE TargetMatchesToken(w)
    BY <2>4, NoWriteType, HistoryType
       DEF Typed, WritingOK, GuardsTypeOK, TargetMatchesToken, guardVars
  <2> QED BY <2>1, <2>2, <2>3, <2>4
<1> QED BY <1>2, <1>3, <1>4 DEF Typed, WritingOK

LEMMA UnguardedTyped ==
  ASSUME Typed, NEW w \in Writers, NEW r \in PlainRequests, WriteUnguarded(w, r)
  PROVE  Typed'
<1>1. r \in Requests
  BY RequestsAssumption
<1>2. FirstStep(r) \in AllSteps \ {"copy"}
  BY FirstStepType
<1>3. WritersTypeOK' /\ SourceOpen'
  BY <1>1, <1>2, StartType DEF Typed, WritingOK, WriteUnguarded
<1>4. FilesTypeOK'
  BY FilesStay DEF Typed, WritingOK, WriteUnguarded
<1>5. GuardsTypeOK'
  BY <1>1, HistoryType DEF Typed, WritingOK, GuardsTypeOK, WriteUnguarded, guardVars
<1> QED BY <1>3, <1>4, <1>5 DEF Typed, WritingOK

LEMMA EnsureTyped ==
  ASSUME Typed, NEW w \in Writers, EnsureDefault(w)
  PROVE  Typed'
<1>1. "create" \in AllSteps \ {"copy"}
  BY DEF AllSteps
<1>2. WritersTypeOK' /\ SourceOpen' /\ FilesTypeOK'
  BY <1>1, StartType, NoWriteType, FilesStay DEF Typed, WritingOK, EnsureDefault
<1>3. GuardsTypeOK'
  BY NoWriteType, HistoryType DEF Typed, WritingOK, GuardsTypeOK, EnsureDefault, guardVars
<1> QED BY <1>2, <1>3 DEF Typed, WritingOK

LEMMA DefaultTyped ==
  ASSUME Typed, NEW w \in Writers, CreateDefault(w) \/ FillDefault(w) \/ FailDefault(w)
  PROVE  Typed'
<1>1. "fill" \in AllSteps \ {"copy"} /\ Model \in Images
  BY ModelAssumption DEF AllSteps, Images
<1>2. CASE CreateDefault(w)
  <2>1. WritingOK'
    BY <1>1, <1>2, TruncateMoves, ReturnType, FilesStay DEF Typed, WritingOK, CreateDefault
  <2> QED BY <1>2, <2>1 DEF Typed, GuardsTypeOK, CreateDefault, guardVars, history
<1>3. CASE FillDefault(w)
  <2>1. FilesTypeOK'
    BY <1>1, <1>3, FillType DEF Typed, WritingOK, WritersTypeOK, FillDefault
  <2>2. WritersTypeOK' /\ SourceOpen'
    BY <1>3, ReturnType DEF Typed, WritingOK, FillDefault
  <2> QED BY <1>1, <1>3, <2>1, <2>2 DEF Typed, WritingOK, GuardsTypeOK, FillDefault, guardVars
<1>4. CASE FailDefault(w)
  <2>1. WritingOK' /\ InDoubt(w) \subseteq Images
    BY <1>4, FailsType, HistoryType, NoWriteType DEF Typed, WritingOK, FailDefault
  <2> QED BY <1>4, <2>1 DEF Typed, GuardsTypeOK, FailDefault, guardVars
<1> QED BY <1>2, <1>3, <1>4

LEMMA WriteTyped ==
  ASSUME Typed, NEW w \in Writers, Write(w)
  PROVE  Typed'
<1>1. WritingOK'
  BY WriteStepType DEF Typed, Write
<1>2. InDoubt(w) \subseteq Images /\ {op[w].content} \subseteq Images /\ older[Main] \subseteq Images
      /\ Torn \in Images
  BY HistoryType, NoWriteType, NamesAssumption
     DEF Typed, WritingOK, FilesTypeOK, WritersTypeOK, Ops, Images
<1>3. live' \subseteq Images /\ safe' \subseteq Images
  BY <1>2 DEF Typed, GuardsTypeOK, Write, Acknowledged, history
<1> QED BY <1>1, <1>3 DEF Typed, GuardsTypeOK, Write, guardVars

LEMMA FinishTyped ==
  ASSUME Typed, NEW w \in Writers, Finish(w)
  PROVE  Typed'
<1>1. "idle" \in AllSteps \ {"copy"}
  BY DEF AllSteps
<1>2. WritersTypeOK' /\ SourceOpen' /\ FilesTypeOK'
  BY <1>1, StartType, NoWriteType, FilesStay DEF Typed, WritingOK, Finish
<1>3. GuardsTypeOK'
  BY DEF Typed, GuardsTypeOK, Finish, history
<1> QED BY <1>2, <1>3 DEF Typed, WritingOK

LEMMA DiesTyped ==
  ASSUME Typed, NEW W \in SUBSET Writers, Dies(W)
  PROVE  /\ WritersTypeOK' /\ SourceOpen' /\ link' \subseteq Names \ {Main}
         /\ token' \in [Writers -> Token \union {NoToken}]
         /\ domain' \in [Writers -> Names \union {Nobody}]
         /\ mutex' \in [Processes \X Names -> Writers \union {Nobody}]
         /\ flock' \in [Names -> Writers \union {Nobody}]
<1>1. NewOp(NoWrite) \in Ops /\ "idle" \in AllSteps
  BY NewOpType, NoWriteType DEF AllSteps
<1>2. WritersTypeOK' /\ SourceOpen'
  BY <1>1 DEF Typed, WritingOK, WritersTypeOK, SourceOpen, Dies
<1> QED BY <1>2 DEF Typed, WritingOK, FilesTypeOK, GuardsTypeOK, Dies

LEMMA CrashTyped ==
  ASSUME Typed, PowerLoss \/ \E p \in Processes : Kill(p)
  PROVE  Typed'
<1>1. ASSUME NEW p \in Processes, Kill(p) PROVE Typed'
  <2> DEFINE W == {w \in Writers : ProcessOf[w] = p}
  <2>1. Dies(W) /\ W \subseteq Writers
    BY <1>1 DEF Kill
  <2>2. UNION {InDoubt(w) : w \in {v \in W : Busy(v)}} \subseteq Images
    BY HistoryType, NoWriteType DEF Typed, WritingOK
  <2>3. live' \subseteq Images /\ safe' \subseteq Images
    BY <1>1, <2>2 DEF Kill, Typed, GuardsTypeOK
  <2> QED BY <1>1, <2>1, <2>3, DiesTyped DEF Kill, Typed, WritingOK, FilesTypeOK, GuardsTypeOK
<1>2. CASE PowerLoss
  <2>1. /\ now' \in [Names -> Images] /\ backup' \in [Names -> Images]
        /\ disk' = [n \in Names |-> {now'[n]}] /\ older' = [n \in Names |-> {}]
        /\ bakDisk' = [n \in Names |-> {backup'[n]}]
        /\ live' = {now'[Main]} /\ safe' = {now'[Main]}
    BY <1>2 DEF PowerLoss
  <2>2. live' \subseteq Images /\ safe' \subseteq Images
    BY <2>1, NamesAssumption
  <2> QED BY <1>2, <2>1, <2>2, DiesTyped DEF PowerLoss, Typed, WritingOK, FilesTypeOK, GuardsTypeOK
<1> QED BY <1>1, <1>2

LEMMA NextTyped == Typed /\ [Next]_vars => Typed'
<1> SUFFICES ASSUME Typed, [Next]_vars PROVE Typed'
  OBVIOUS
<1>1. CASE UNCHANGED vars
  BY <1>1 DEF vars, writeVars, guardVars, history, files, Typed, WritingOK, FilesTypeOK,
              WritersTypeOK, SourceOpen, GuardsTypeOK
<1> QED BY <1>1, TokenTyped, WriteVersionedTyped, GuardTyped, UnguardedTyped, EnsureTyped, DefaultTyped,
           WriteTyped, FinishTyped, CrashTyped DEF Next, Thread

\* Every variable of VersionedSettings keeps its type.
THEOREM TypeCorrect == Spec => []TypeOK
<1>1. Init => Typed
  BY InitTyped
<1>2. Typed /\ [Next]_vars => Typed'
  BY NextTyped
<1>3. Typed => TypeOK
  BY TypedIsTypeOK
<1> QED BY <1>1, <1>2, <1>3, PTL DEF Spec
-----------------------------------------------------------------------------
(* What the guard protects.  When every request names the file itself and   *)
(* nobody writes without the guard beside another writer, whoever compares   *)
(* or writes under the guard holds the one lock of the file, and nobody      *)
(* else touches the file meanwhile.                                          *)

OneFile == Disciplined /\ \A r \in VersionedRequests \union PlainRequests : r.path = Main

Writing == Steps \ {"returned"}
OpPaths == \A w \in Writers : op[w].path = Main /\ domain[w] \in {Main, Nobody}
HoldsLock == \A w \in Writers : Guarded(w) /\ pc[w] \in Writing \union {"compare"} => flock[Main] = w
AloneUnguarded ==
  \A v, w \in Writers : v # w /\ ~Guarded(v) /\ pc[v] \notin {"idle", "returned"} => Idle(w)
FileAsRead == \A w \in Writers : Guarded(w) /\ pc[w] \in BeforeReplacing => now[Main] = token[w].content
GuardInv == Typed /\ OpPaths /\ HoldsLock /\ AloneUnguarded /\ FileAsRead

\* The file itself is no link.
LEMMA MainIsItself ==
  ASSUME Typed
  PROVE  Where(Main) = Main /\ LockDomain(Main) = Main /\ Seen(Main) = now[Main]
BY DEF Typed, WritingOK, FilesTypeOK, Where, LockDomain, Seen

LEMMA FileAsReadIsToken == GuardInv => TokenStaysCurrent
BY MainIsItself DEF GuardInv, FileAsRead, TokenStaysCurrent, OpPaths

\* A step of a write moves its own writer, keeps every path, and leaves the file alone
\* while the writer is still before its replacement.
WriterMoves(w) ==
  /\ pc[w] \in Writing
  /\ \E s \in Writing \union {"returned"} :
       /\ pc' = [pc EXCEPT ![w] = s]
       /\ s \in BeforeReplacing => pc[w] \in BeforeReplacing /\ now' = now
  /\ \A v \in Writers : op'[v].path = op[v].path

LEMMA FailsMoves ==
  ASSUME NEW w \in Writers, pc[w] \in Writing, Fails(w), UNCHANGED files
  PROVE  WriterMoves(w)
<1>1. pc' = [pc EXCEPT ![w] = "returned"] /\ op' = op
  BY DEF Fails, Return, Goto
<1>2. "returned" \notin BeforeReplacing
  BY DEF BeforeReplacing
<1> QED BY <1>1, <1>2 DEF WriterMoves

LEMMA BackupMoves ==
  ASSUME Typed, NEW w \in Writers,
         PrepareTemp(w) \/ SkipBackup(w) \/ OpenBackup(w) \/ CopyBackup(w)
  PROVE  WriterMoves(w)
<1>1. CASE PrepareTemp(w) \/ SkipBackup(w)
  BY <1>1 DEF PrepareTemp, SkipBackup, AfterBackup, Return, Goto, WriterMoves, Writing, Steps,
              BeforeReplacing, files
<1>2. CASE OpenBackup(w) \/ CopyBackup(w)
  <2>1. \A v \in Writers : op'[v].path = op[v].path
    BY <1>2 DEF OpenBackup, CopyBackup, Typed, WritingOK, WritersTypeOK, Ops
  <2> QED BY <1>2, <2>1 DEF OpenBackup, CopyBackup, AfterBackup, Goto, WriterMoves, Writing, Steps,
                            BeforeReplacing
<1> QED BY <1>1, <1>2

LEMMA TargetMoves ==
  ASSUME Typed, NEW w \in Writers,
         \/ OpenTarget(w) \/ WriteTarget(w) \/ LoseWrite(w) \/ SyncTarget(w) \/ Validate(w)
         \/ FlushParent(w) \/ Readback(w) \/ FailReadback(w) \/ OpenRestore(w) \/ CopyRestore(w)
  PROVE  WriterMoves(w)
<1>1. CASE OpenTarget(w) \/ OpenRestore(w)
  <2>1. \A v \in Writers : op'[v].path = op[v].path
    BY <1>1, TruncateType DEF OpenTarget, OpenRestore, Typed, WritingOK, WritersTypeOK
  <2>2. \E s \in {"write", "restoring"} : pc' = [pc EXCEPT ![w] = s]
    BY <1>1 DEF OpenTarget, OpenRestore, Goto
  <2>3. {"write", "restoring"} \subseteq Writing \ BeforeReplacing
    BY DEF Writing, Steps, BeforeReplacing
  <2>4. pc[w] \in Writing
    BY <1>1 DEF OpenTarget, OpenRestore, Writing, Steps
  <2> QED BY <2>1, <2>2, <2>3, <2>4 DEF WriterMoves
<1>2. CASE \/ WriteTarget(w) \/ LoseWrite(w) \/ SyncTarget(w) \/ Validate(w) \/ FlushParent(w)
           \/ Readback(w) \/ FailReadback(w) \/ CopyRestore(w)
  <2> DEFINE Later == {"sync", "validate", "readback", "restore", "returned"}
  <2>1. Later \subseteq (Writing \union {"returned"}) \ BeforeReplacing
    BY DEF Writing, Steps, BeforeReplacing
  <2>2. pc[w] \in {"write", "sync", "validate", "flush", "readback", "restoring"} /\ op' = op
    BY <1>2 DEF WriteTarget, LoseWrite, SyncTarget, Validate, FlushParent, Readback, FailReadback,
                CopyRestore
  <2>3. {"write", "sync", "validate", "flush", "readback", "restoring"} \subseteq Writing
    BY DEF Writing, Steps
  <2>4. \E s \in Later : pc' = [pc EXCEPT ![w] = s]
    <3>1. CASE WriteTarget(w) \/ LoseWrite(w) \/ SyncTarget(w) \/ FlushParent(w)
      BY <3>1 DEF WriteTarget, LoseWrite, SyncTarget, FlushParent, Goto
    <3>2. CASE Validate(w) \/ Readback(w) \/ FailReadback(w) \/ CopyRestore(w)
      BY <3>2 DEF Validate, Readback, FailReadback, CopyRestore, GiveBack, Return, Goto
    <3> QED BY <1>2, <3>1, <3>2
  <2> HIDE DEF Later
  <2>5. PICK s \in Later : pc' = [pc EXCEPT ![w] = s]
    BY <2>4
  <2>6. s \in Writing \union {"returned"} /\ s \notin BeforeReplacing
    BY <2>1
  <2> QED BY <2>2, <2>3, <2>5, <2>6 DEF WriterMoves
<1> QED BY <1>1, <1>2

LEMMA RenameMoves ==
  ASSUME Typed, NEW w \in Writers, Rename(w)
  PROVE  WriterMoves(w)
<1> DEFINE n == op[w].path
<1>1. n \in Names
  BY DEF Typed, WritingOK, WritersTypeOK, Ops
<1>2. \A v \in Writers : op'[v].path = op[v].path
  BY <1>1, LoseNameType DEF Rename, Typed, WritingOK, WritersTypeOK
<1>3. pc[w] = "rename" /\ \E s \in {"flush", "readback"} : pc' = [pc EXCEPT ![w] = s]
  BY DEF Rename, Goto
<1>4. {"flush", "readback"} \subseteq Writing \ BeforeReplacing /\ "rename" \in Writing
  BY DEF Writing, Steps, BeforeReplacing
<1> QED BY <1>2, <1>3, <1>4 DEF WriterMoves

LEMMA WriteMoves ==
  ASSUME Typed, NEW w \in Writers, WriteStep(w)
  PROVE  WriterMoves(w)
<1>1. CASE FailTemp(w) \/ FailBackup(w) \/ FailTarget(w) \/ FailRename(w) \/ FailFlush(w)
             \/ FailRestore(w)
  BY <1>1, FailsMoves
     DEF FailTemp, FailBackup, FailTarget, FailRename, FailFlush, FailRestore, Writing, Steps
<1> QED BY <1>1, BackupMoves, TargetMoves, RenameMoves DEF WriteStep

\* Only the writer that moves can hold the lock, so the others are not before a replacement.
LEMMA WriteGuarded ==
  ASSUME GuardInv, NEW w \in Writers, Write(w)
  PROVE  GuardInv'
<1>1. Typed' /\ WriterMoves(w) /\ UNCHANGED <<token, domain, mutex, flock>>
  BY WriteTyped, WriteMoves DEF GuardInv, Write, guardVars
<1>2. PICK s \in Writing \union {"returned"} :
        /\ pc' = [pc EXCEPT ![w] = s]
        /\ s \in BeforeReplacing => pc[w] \in BeforeReplacing /\ now' = now
  BY <1>1 DEF WriterMoves
<1>3. /\ pc[w] \in Writing /\ pc \in [Writers -> AllSteps]
      /\ "idle" \notin Writing /\ "returned" \notin Writing /\ "idle" # "returned"
      /\ BeforeReplacing \subseteq Writing
  BY <1>1 DEF GuardInv, Typed, WritingOK, WritersTypeOK, WriterMoves, Writing, Steps, AllSteps,
              BeforeReplacing
<1>4. OpPaths'
  BY <1>1 DEF GuardInv, OpPaths, WriterMoves
<1>5. HoldsLock'
  BY <1>1, <1>2, <1>3 DEF GuardInv, HoldsLock, Guarded
<1>6. AloneUnguarded'
  BY <1>1, <1>2, <1>3 DEF GuardInv, AloneUnguarded, Guarded, Idle
<1>7. FileAsRead'
  <2> SUFFICES ASSUME NEW v \in Writers, Guarded(v)', pc'[v] \in BeforeReplacing
               PROVE  now'[Main] = token'[v].content
    BY DEF FileAsRead
  <2>1. CASE v = w
    BY <1>1, <1>2, <1>3, <2>1 DEF GuardInv, FileAsRead, Guarded
  <2>2. CASE v # w
    <3>1. Guarded(v) /\ pc[v] \in BeforeReplacing
      BY <1>1, <1>2, <1>3, <2>2 DEF Guarded
    <3>2. flock[Main] = v /\ ~Idle(v)
      BY <1>3, <3>1 DEF GuardInv, HoldsLock, Idle
    <3>3. CASE Guarded(w)
      BY <1>3, <2>2, <3>2, <3>3 DEF GuardInv, HoldsLock
    <3>4. CASE ~Guarded(w)
      BY <1>3, <2>2, <3>2, <3>4 DEF GuardInv, AloneUnguarded
    <3> QED BY <3>3, <3>4
  <2> QED BY <2>1, <2>2
<1> QED BY <1>1, <1>4, <1>5, <1>6, <1>7 DEF GuardInv

LEMMA InitGuarded == Init => GuardInv
<1> SUFFICES ASSUME Init PROVE GuardInv
  OBVIOUS
<1>1. NewOp(NoWrite).path = Main
  BY DEF NewOp, NoWrite
<1>2. \A w \in Writers : pc[w] = "idle" /\ domain[w] = Nobody
  BY DEF Init
<1>3. OpPaths
  BY <1>1 DEF Init, OpPaths
<1> QED BY <1>2, <1>3, InitTyped DEF GuardInv, HoldsLock, AloneUnguarded, FileAsRead, Guarded

LEMMA TokenGuarded ==
  ASSUME GuardInv, NEW w \in Writers, NEW n \in Names,
         ReadFileVersion(w, n) \/ MissingFileVersion(w, n)
  PROVE  GuardInv'
<1>1. /\ Typed' /\ Idle(w) /\ UNCHANGED <<now, pc, op, domain, flock>>
      /\ \A v \in Writers : v # w => token'[v] = token[v]
  BY TokenTyped DEF GuardInv, ReadFileVersion, MissingFileVersion, writeVars, files, Typed, GuardsTypeOK
<1>2. "idle" \notin BeforeReplacing
  BY DEF BeforeReplacing
<1>3. OpPaths' /\ HoldsLock' /\ AloneUnguarded'
  BY <1>1 DEF GuardInv, OpPaths, HoldsLock, AloneUnguarded, Guarded, Idle
<1>4. FileAsRead'
  BY <1>1, <1>2 DEF GuardInv, FileAsRead, Guarded, Idle
<1> QED BY <1>1, <1>3, <1>4 DEF GuardInv

LEMMA WriteVersionedGuarded ==
  ASSUME OneFile, GuardInv, NEW w \in Writers, NEW r \in VersionedRequests, WriteVersioned(w, r)
  PROVE  GuardInv'
<1>1. Typed' /\ UNCHANGED <<now, flock, token>>
  BY WriteVersionedTyped DEF GuardInv, WriteVersioned, files
<1>2. pc[w] = "idle" /\ \A v \in Writers : Idle(v) \/ Guarded(v)
  BY DEF WriteVersioned, OneFile, Idle
<1>3. LockDomain(r.path) = Main /\ r.path = Main
  BY MainIsItself DEF GuardInv, OneFile
<1>4. PICK s \in {"mutex", "returned"} :
        /\ pc' = [pc EXCEPT ![w] = s]
        /\ op' \in {op, [op EXCEPT ![w] = NewOp(r)]}
        /\ domain' \in {domain, [domain EXCEPT ![w] = Main]}
        /\ s = "mutex" => domain' = [domain EXCEPT ![w] = Main]
  BY <1>3 DEF WriteVersioned, Refuse, Return, Goto
<1>5. {"mutex", "returned"} \intersect (Writing \union BeforeReplacing \union {"compare"}) = {}
  BY DEF Writing, Steps, BeforeReplacing
<1>6. NewOp(r).path = Main
  BY <1>3 DEF NewOp
<1>7. pc \in [Writers -> AllSteps] /\ op \in [Writers -> Ops] /\ domain \in [Writers -> Names \union {Nobody}]
  BY DEF GuardInv, Typed, WritingOK, WritersTypeOK, GuardsTypeOK
<1>8. OpPaths'
  BY <1>4, <1>6, <1>7 DEF GuardInv, OpPaths
<1>9. HoldsLock' /\ FileAsRead'
  BY <1>1, <1>4, <1>5, <1>7 DEF GuardInv, HoldsLock, FileAsRead, Guarded
<1>10. AloneUnguarded'
  <2> SUFFICES ASSUME NEW v \in Writers, NEW u \in Writers, v # u,
                      ~Guarded(v)', pc'[v] \notin {"idle", "returned"}
               PROVE  Idle(u)'
    BY DEF AloneUnguarded
  <2>1. CASE v # w
    BY <1>2, <1>4, <1>7, <2>1 DEF Guarded, Idle
  <2>2. CASE v = w
    <3>1. Main = Nobody
      BY <1>4, <1>7, <2>2 DEF Guarded
    <3>2. Idle(u)
      BY <1>2, <3>1 DEF GuardInv, OpPaths, Guarded
    <3> QED BY <1>4, <1>7, <2>2, <3>2 DEF Idle
  <2> QED BY <2>1, <2>2
<1> QED BY <1>1, <1>8, <1>9, <1>10 DEF GuardInv

\* A failure, and the process mutex, only move the writer.
LEMMA WaitGuarded ==
  ASSUME GuardInv, NEW w \in Writers, LockMutex(w) \/ FailGuard(w)
  PROVE  GuardInv'
<1>1. Typed' /\ UNCHANGED <<now, op, flock, token, domain>>
  BY GuardTyped DEF GuardInv, LockMutex, FailGuard, Fails, files, guardVars
<1>2. PICK s \in {"flock", "returned"} : pc' = [pc EXCEPT ![w] = s]
  BY DEF LockMutex, FailGuard, Fails, Return, Goto
<1>3. pc[w] \notin {"idle", "returned"}
  BY DEF LockMutex, FailGuard
<1>4. {"flock", "returned"} \intersect (Writing \union BeforeReplacing \union {"compare"}) = {}
  BY DEF Writing, Steps, BeforeReplacing
<1>5. pc \in [Writers -> AllSteps]
  BY DEF GuardInv, Typed, WritingOK, WritersTypeOK
<1>6. OpPaths'
  BY <1>1 DEF GuardInv, OpPaths
<1>7. HoldsLock' /\ FileAsRead'
  BY <1>1, <1>2, <1>4, <1>5 DEF GuardInv, HoldsLock, FileAsRead, Guarded
<1>8. AloneUnguarded'
  BY <1>1, <1>2, <1>3, <1>5 DEF GuardInv, AloneUnguarded, Guarded, Idle
<1> QED BY <1>1, <1>6, <1>7, <1>8 DEF GuardInv

\* Who gets the lock finds nobody else before or in a write.
LEMMA LockFileGuarded ==
  ASSUME GuardInv, NEW w \in Writers, LockFile(w)
  PROVE  GuardInv'
<1>1. /\ Typed' /\ UNCHANGED <<now, op, token, domain>>
      /\ pc[w] = "flock" /\ pc' = [pc EXCEPT ![w] = "compare"]
      /\ flock[domain[w]] = Nobody /\ flock' = [flock EXCEPT ![domain[w]] = w]
  BY GuardTyped DEF GuardInv, LockFile, Goto, files
<1>2. /\ pc \in [Writers -> AllSteps] /\ flock \in [Names -> Writers \union {Nobody}]
      /\ Main \in Names /\ "compare" \notin BeforeReplacing
  BY NamesAssumption DEF GuardInv, Typed, WritingOK, WritersTypeOK, GuardsTypeOK, BeforeReplacing
<1>3. OpPaths'
  BY <1>1 DEF GuardInv, OpPaths
<1>4. HoldsLock'
  <2> SUFFICES ASSUME NEW v \in Writers, Guarded(v)', pc'[v] \in Writing \union {"compare"}
               PROVE  flock'[Main] = v
    BY DEF HoldsLock
  <2>1. domain[v] = Main /\ Main # Nobody
    BY <1>1 DEF GuardInv, OpPaths, Guarded
  <2>2. CASE v = w
    BY <1>1, <1>2, <2>1, <2>2
  <2>3. CASE v # w
    <3>1. flock[Main] = v
      BY <1>1, <1>2, <2>3 DEF GuardInv, HoldsLock, Guarded
    <3>2. domain[w] # Main
      BY <1>1, <3>1, NobodyAssumption
    <3> QED BY <1>1, <1>2, <3>1, <3>2
  <2> QED BY <2>2, <2>3
<1>5. AloneUnguarded'
  BY <1>1, <1>2 DEF GuardInv, AloneUnguarded, Guarded, Idle
<1>6. FileAsRead'
  BY <1>1, <1>2 DEF GuardInv, FileAsRead, Guarded
<1> QED BY <1>1, <1>3, <1>4, <1>5, <1>6 DEF GuardInv

LEMMA CompareGuarded ==
  ASSUME GuardInv, NEW w \in Writers, TargetMatchesToken(w)
  PROVE  GuardInv'
<1>1. Typed' /\ UNCHANGED <<now, op, flock, token, domain>> /\ pc[w] = "compare"
  BY GuardTyped DEF GuardInv, TargetMatchesToken, files, guardVars
<1>2. PICK s \in {"prepare", "backup", "returned"} :
        /\ pc' = [pc EXCEPT ![w] = s]
        /\ s # "returned" => Seen(op[w].path) = token[w].content
  BY DEF TargetMatchesToken, FirstStep, Return, Goto
<1>3. pc \in [Writers -> AllSteps] /\ Seen(op[w].path) = now[Main] /\ "returned" \notin BeforeReplacing
      /\ "returned" \notin Writing \union {"compare"}
  BY MainIsItself DEF GuardInv, OpPaths, Typed, WritingOK, WritersTypeOK, BeforeReplacing, Writing
<1>4. OpPaths'
  BY <1>1 DEF GuardInv, OpPaths
<1>5. HoldsLock'
  BY <1>1, <1>2, <1>3 DEF GuardInv, HoldsLock, Guarded
<1>6. FileAsRead'
  BY <1>1, <1>2, <1>3 DEF GuardInv, FileAsRead, Guarded
<1>7. AloneUnguarded'
  BY <1>1, <1>2, <1>3 DEF GuardInv, AloneUnguarded, Guarded, Idle
<1> QED BY <1>1, <1>4, <1>5, <1>6, <1>7 DEF GuardInv

\* A write without the guard starts when everybody is idle.
LEMMA UnguardedStarts ==
  ASSUME GuardInv, Typed', NEW w \in Writers, NEW r, r.path = Main, NEW s,
         \A v \in Writers : Idle(v),
         pc' = [pc EXCEPT ![w] = s], op' = [op EXCEPT ![w] = NewOp(r)],
         UNCHANGED <<domain, flock, token>>, ~Guarded(w)
  PROVE  GuardInv'
<1>1. NewOp(r).path = Main
  BY DEF NewOp
<1>2. /\ pc \in [Writers -> AllSteps] /\ op \in [Writers -> Ops]
      /\ "idle" \notin Writing \union BeforeReplacing \union {"compare"}
  BY DEF GuardInv, Typed, WritingOK, WritersTypeOK, Writing, Steps, BeforeReplacing
<1>3. OpPaths'
  BY <1>1, <1>2 DEF GuardInv, OpPaths
<1>4. HoldsLock' /\ FileAsRead'
  BY <1>2 DEF HoldsLock, FileAsRead, Guarded, Idle
<1>5. AloneUnguarded'
  BY <1>2 DEF AloneUnguarded, Guarded, Idle
<1> QED BY <1>3, <1>4, <1>5 DEF GuardInv

\* Nobody holds a guard who is idle or writes a default.
IdleUnguarded == \A w \in Writers : pc[w] \in {"idle", "create", "fill"} => ~Guarded(w)

LEMMA UnguardedGuarded ==
  ASSUME OneFile, GuardInv, IdleUnguarded, NEW w \in Writers,
         EnsureDefault(w) \/ \E r \in PlainRequests : WriteUnguarded(w, r)
  PROVE  GuardInv'
<1>1. CASE EnsureDefault(w)
  <2>1. Typed' /\ \A v \in Writers : Idle(v)
    BY <1>1, EnsureTyped DEF GuardInv, EnsureDefault, OneFile
  <2>2. /\ pc' = [pc EXCEPT ![w] = "create"] /\ op' = [op EXCEPT ![w] = NewOp(NoWrite)]
        /\ UNCHANGED <<domain, flock, token>> /\ NoWrite.path = Main
    BY <1>1 DEF EnsureDefault, Goto, guardVars, NoWrite
  <2> QED BY <2>1, <2>2, UnguardedStarts DEF IdleUnguarded, Idle
<1>2. ASSUME NEW r \in PlainRequests, WriteUnguarded(w, r) PROVE GuardInv'
  <2>1. Typed' /\ \A v \in Writers : Idle(v)
    BY <1>2, UnguardedTyped DEF GuardInv, WriteUnguarded, OneFile
  <2>2. /\ pc' = [pc EXCEPT ![w] = FirstStep(r)] /\ op' = [op EXCEPT ![w] = NewOp(r)]
        /\ UNCHANGED <<domain, flock, token>> /\ r.path = Main
    BY <1>2 DEF WriteUnguarded, Goto, guardVars, OneFile
  <2> QED BY <2>1, <2>2, UnguardedStarts DEF IdleUnguarded, Idle
<1> QED BY <1>1, <1>2

\* The steps of a default are those of one who is alone.
LEMMA DefaultGuarded ==
  ASSUME GuardInv, NEW w \in Writers, ~Guarded(w),
         CreateDefault(w) \/ FillDefault(w) \/ FailDefault(w)
  PROVE  GuardInv'
<1>1. Typed' /\ UNCHANGED <<flock, token, domain>> /\ pc[w] \in {"create", "fill"}
  BY DefaultTyped DEF GuardInv, CreateDefault, FillDefault, FailDefault, guardVars
<1>2. PICK s \in {"fill", "returned"} : pc' = [pc EXCEPT ![w] = s]
  BY DEF CreateDefault, FillDefault, FailDefault, Fails, Return, Goto
<1>3. \A v \in Writers : op'[v].path = op[v].path
  BY TruncateType DEF GuardInv, Typed, WritingOK, WritersTypeOK, CreateDefault, FillDefault,
                      FailDefault, Fails
<1>4. pc \in [Writers -> AllSteps] /\ "idle" \notin Writing \union BeforeReplacing \union {"compare"}
  BY DEF GuardInv, Typed, WritingOK, WritersTypeOK, Writing, Steps, BeforeReplacing
<1>5. \A v \in Writers : v # w => pc[v] = "idle" /\ pc'[v] = "idle"
  BY <1>1, <1>2, <1>4 DEF GuardInv, AloneUnguarded, Idle
<1>6. OpPaths'
  BY <1>1, <1>3 DEF GuardInv, OpPaths
<1>7. HoldsLock' /\ FileAsRead' /\ AloneUnguarded'
  BY <1>1, <1>4, <1>5 DEF HoldsLock, FileAsRead, AloneUnguarded, Guarded, Idle
<1> QED BY <1>1, <1>6, <1>7 DEF GuardInv

LEMMA FinishGuarded ==
  ASSUME GuardInv, NEW w \in Writers, Finish(w)
  PROVE  GuardInv'
<1>1. /\ Typed' /\ UNCHANGED <<now, token>>
      /\ pc' = [pc EXCEPT ![w] = "idle"] /\ op' = [op EXCEPT ![w] = NewOp(NoWrite)]
      /\ domain' = [domain EXCEPT ![w] = Nobody]
      /\ flock' = [n \in Names |-> IF flock[n] = w THEN Nobody ELSE flock[n]]
  BY FinishTyped DEF GuardInv, Finish, Goto, files
<1>2. /\ pc \in [Writers -> AllSteps] /\ op \in [Writers -> Ops]
      /\ domain \in [Writers -> Names \union {Nobody}] /\ Main \in Names
  BY NamesAssumption DEF GuardInv, Typed, WritingOK, WritersTypeOK, GuardsTypeOK
<1>3. NewOp(NoWrite).path = Main
  BY DEF NewOp, NoWrite
<1>4. OpPaths'
  BY <1>1, <1>2, <1>3 DEF GuardInv, OpPaths
<1>5. HoldsLock' /\ FileAsRead'
  BY <1>1, <1>2 DEF GuardInv, HoldsLock, FileAsRead, Guarded
<1>6. AloneUnguarded'
  BY <1>1, <1>2 DEF GuardInv, AloneUnguarded, Guarded, Idle
<1> QED BY <1>1, <1>4, <1>5, <1>6 DEF GuardInv

\* The dead hold no guard; a file that a power loss changes has no writer left.
LEMMA CrashGuarded ==
  ASSUME GuardInv, NEW W \in SUBSET Writers, Dies(W), W = Writers \/ now' = now
  PROVE  OpPaths' /\ HoldsLock' /\ AloneUnguarded' /\ FileAsRead'
<1>1. NewOp(NoWrite).path = Main /\ Main \in Names
  BY NamesAssumption DEF NewOp, NoWrite
<1>2. /\ pc' = [w \in Writers |-> IF w \in W THEN "idle" ELSE pc[w]]
      /\ op' = [w \in Writers |-> IF w \in W THEN NewOp(NoWrite) ELSE op[w]]
      /\ domain' = [w \in Writers |-> IF w \in W THEN Nobody ELSE domain[w]]
      /\ token' = [w \in Writers |-> IF w \in W THEN NoToken ELSE token[w]]
      /\ flock' = [n \in Names |-> IF flock[n] \in W THEN Nobody ELSE flock[n]]
  BY DEF Dies
<1>3. OpPaths'
  BY <1>1, <1>2 DEF GuardInv, OpPaths
<1>4. HoldsLock' /\ FileAsRead'
  BY <1>1, <1>2 DEF GuardInv, HoldsLock, FileAsRead, Guarded
<1>5. AloneUnguarded'
  BY <1>2 DEF GuardInv, AloneUnguarded, Guarded, Idle
<1> QED BY <1>3, <1>4, <1>5

\* A writer that moves within its call stays guarded or unguarded.
LEMMA IdleMoves ==
  ASSUME IdleUnguarded, Typed, NEW w \in Writers, NEW s, pc' = [pc EXCEPT ![w] = s],
         UNCHANGED domain, s \in {"idle", "create", "fill"} => pc[w] \in {"idle", "create", "fill"}
  PROVE  IdleUnguarded'
<1>1. pc \in [Writers -> AllSteps]
  BY DEF Typed, WritingOK, WritersTypeOK
<1> QED BY <1>1 DEF IdleUnguarded, Guarded

LEMMA NextIdle ==
  ASSUME GuardInv, IdleUnguarded, [Next]_vars
  PROVE  IdleUnguarded'
<1> DEFINE Out == {"idle", "create", "fill"}
<1>1. Typed /\ pc \in [Writers -> AllSteps] /\ domain \in [Writers -> Names \union {Nobody}]
  BY DEF GuardInv, Typed, WritingOK, WritersTypeOK, GuardsTypeOK
<1>2. ASSUME NEW w \in Writers, Write(w) PROVE IdleUnguarded'
  <2>1. WriterMoves(w) /\ UNCHANGED domain
    BY <1>1, <1>2, WriteMoves DEF Write, guardVars
  <2>2. \E s \in Writing \union {"returned"} : pc' = [pc EXCEPT ![w] = s]
    BY <2>1 DEF WriterMoves
  <2>3. (Writing \union {"returned"}) \intersect Out = {}
    BY DEF Writing, Steps
  <2> QED BY <1>1, <2>1, <2>2, <2>3, IdleMoves
<1>3. ASSUME NEW w \in Writers, NEW r \in VersionedRequests, WriteVersioned(w, r)
      PROVE  IdleUnguarded'
  <2>1. \E s \in {"mutex", "returned"} : pc' = [pc EXCEPT ![w] = s]
    BY <1>3 DEF WriteVersioned, Refuse, Return, Goto
  <2>2. \A v \in Writers : v # w => domain'[v] = domain[v]
    BY <1>1, <1>3 DEF WriteVersioned, Refuse
  <2> QED BY <1>1, <2>1, <2>2 DEF IdleUnguarded, Guarded
<1>4. ASSUME NEW w \in Writers, LockMutex(w) \/ LockFile(w) \/ FailGuard(w) \/ TargetMatchesToken(w)
      PROVE  IdleUnguarded'
  <2>1. /\ \E s \in {"flock", "compare", "prepare", "backup", "returned"} : pc' = [pc EXCEPT ![w] = s]
        /\ UNCHANGED domain
    BY <1>4 DEF LockMutex, LockFile, FailGuard, TargetMatchesToken, Fails, FirstStep, Return, Goto,
                guardVars
  <2> QED BY <1>1, <2>1, IdleMoves
<1>5. ASSUME NEW w \in Writers, NEW r \in PlainRequests, WriteUnguarded(w, r)
      PROVE  IdleUnguarded'
  <2>1. pc[w] = "idle" /\ UNCHANGED domain /\ \E s \in {"prepare", "backup"} : pc' = [pc EXCEPT ![w] = s]
    BY <1>5 DEF WriteUnguarded, FirstStep, Goto, Idle, guardVars
  <2> QED BY <1>1, <2>1, IdleMoves
<1>6. ASSUME NEW w \in Writers, EnsureDefault(w) \/ CreateDefault(w) \/ FillDefault(w) \/ FailDefault(w)
      PROVE  IdleUnguarded'
  <2>1. /\ pc[w] \in Out /\ UNCHANGED domain
        /\ \E s \in {"create", "fill", "returned"} : pc' = [pc EXCEPT ![w] = s]
    BY <1>6 DEF EnsureDefault, CreateDefault, FillDefault, FailDefault, Fails, Return, Goto, Idle,
                guardVars
  <2> QED BY <1>1, <2>1, IdleMoves
<1>7. ASSUME NEW w \in Writers, Finish(w) PROVE IdleUnguarded'
  BY <1>1, <1>7 DEF Finish, Goto, IdleUnguarded, Guarded
<1>8. ASSUME NEW W, Dies(W) PROVE IdleUnguarded'
  BY <1>1, <1>8 DEF Dies, IdleUnguarded, Guarded
<1>9. CASE (\E p \in Processes : Kill(p)) \/ PowerLoss
  BY <1>8, <1>9 DEF Kill, PowerLoss
<1>10. CASE \E w \in Writers, n \in Names : ReadFileVersion(w, n) \/ MissingFileVersion(w, n)
  BY <1>10 DEF ReadFileVersion, MissingFileVersion, writeVars, IdleUnguarded, Guarded
<1>11. CASE UNCHANGED vars
  BY <1>11 DEF vars, writeVars, guardVars, IdleUnguarded, Guarded
<1> QED BY <1>2, <1>3, <1>4, <1>5, <1>6, <1>7, <1>9, <1>10, <1>11 DEF Next, Thread

LEMMA NextGuarded ==
  ASSUME OneFile, GuardInv, IdleUnguarded, [Next]_vars
  PROVE  GuardInv'
<1>1. CASE PowerLoss \/ \E p \in Processes : Kill(p)
  <2>1. Typed'
    BY <1>1, CrashTyped DEF GuardInv
  <2>2. PICK W \in SUBSET Writers : Dies(W) /\ (W = Writers \/ now' = now)
    <3>1. CASE PowerLoss
      BY <3>1 DEF PowerLoss
    <3>2. ASSUME NEW p \in Processes, Kill(p)
          PROVE  \E W \in SUBSET Writers : Dies(W) /\ now' = now
      BY <3>2 DEF Kill
    <3> QED BY <1>1, <3>1, <3>2
  <2> QED BY <2>1, <2>2, CrashGuarded DEF GuardInv
<1>2. ASSUME NEW w \in Writers, CreateDefault(w) \/ FillDefault(w) \/ FailDefault(w)
      PROVE  GuardInv'
  <2>1. ~Guarded(w)
    BY <1>2 DEF IdleUnguarded, CreateDefault, FillDefault, FailDefault
  <2> QED BY <1>2, <2>1, DefaultGuarded
<1>3. CASE UNCHANGED vars
  <2>1. Typed'
    BY <1>3, NextTyped DEF GuardInv
  <2> QED BY <1>3, <2>1 DEF vars, writeVars, guardVars, files, GuardInv, OpPaths, HoldsLock,
                            AloneUnguarded, FileAsRead, Guarded, Idle
<1> QED BY <1>1, <1>2, <1>3, TokenGuarded, WriteVersionedGuarded, WaitGuarded, LockFileGuarded,
           CompareGuarded, UnguardedGuarded, WriteGuarded, FinishGuarded DEF Next, Thread

\* From the comparison with its token to the replacement, a commit works on the image its
\* caller read (write_versioned, settings.cpp), for any number of writers, processes and
\* crashes, provided that every request names the file itself and that unguarded writes do
\* not overlap with others.
THEOREM CommitsReplaceWhatTheyCompared ==
  ASSUME OneFile
  PROVE  Spec => []TokenStaysCurrent
<1>1. Init => GuardInv /\ IdleUnguarded
  <2>1. Init => IdleUnguarded
    BY DEF Init, IdleUnguarded, Guarded
  <2> QED BY <2>1, InitGuarded
<1>2. (GuardInv /\ IdleUnguarded) /\ [Next]_vars => (GuardInv /\ IdleUnguarded)'
  BY NextGuarded, NextIdle
<1>3. GuardInv /\ IdleUnguarded => TokenStaysCurrent
  BY FileAsReadIsToken
<1> QED BY <1>1, <1>2, <1>3, PTL DEF Spec
-----------------------------------------------------------------------------
(* The writers implement CommitRegister.  CommitInv says of each writer      *)
(* under the guard what its step has made of the file and of the backup.     *)

BeforeBackup == {"mutex", "flock", "compare", "prepare", "backup", "copy"}
Mine(w) ==
  /\ token[w] # NoToken
  /\ pc[w] \in {"open", "write", "sync", "validate"} => ~op[w].atomic_replace
  /\ pc[w] \in BeforeBackup => ~op[w].backup_path
  /\ pc[w] = "copy" => backup[Main] = Torn /\ op[w].from = Main
  /\ pc[w] \in {"write", "restoring"} => now[Main] = Torn /\ op[w].out = Main
  /\ pc[w] \in {"restore", "restoring"} => op[w].backup_path
  /\ pc[w] \in Writing /\ op[w].backup_path => backup[Main] = token[w].content
  /\ pc[w] \in {"flush", "readback", "restore"} /\ op[w].atomic_replace => now[Main] = op[w].content
CommitInv == \A w \in Writers : Guarded(w) => Mine(w)
Outcomes == {"ok", "failed", "stale", "token-invalid", "target-mismatch"}
Reported == result \in [Writers -> Outcomes \union {"none"}]
RegisterInv == GuardInv /\ IdleUnguarded /\ Reported /\ CommitInv

\* What the register shows while nobody but w can be replacing the file.
Shown(w) == IF now[Main] = Torn /\ Replacing(w) THEN token[w].content ELSE now[Main]

LEMMA ValueIs ==
  ASSUME NEW w \in Writers, \A v \in Writers : Replacing(v) => v = w
  PROVE  Value = Shown(w)
<1>1. CASE now[Main] = Torn /\ Replacing(w)
  <2>1. (CHOOSE v \in Writers : Replacing(v)) = w
    BY <1>1
  <2> QED BY <1>1, <2>1 DEF Value, Shown
<1>2. CASE ~(now[Main] = Torn /\ Replacing(w))
  BY <1>2 DEF Value, Shown
<1> QED BY <1>1, <1>2

LEMMA ValueWillBe ==
  ASSUME NEW w \in Writers, \A v \in Writers : Replacing(v)' => v = w
  PROVE  Value' = Shown(w)'
<1>1. CASE now'[Main] = Torn /\ Replacing(w)'
  <2>1. (CHOOSE v \in Writers : Replacing(v)') = w
    BY <1>1
  <2> QED BY <1>1, <2>1 DEF Value, Shown
<1>2. CASE ~(now'[Main] = Torn /\ Replacing(w)')
  BY <1>2 DEF Value, Shown
<1> QED BY <1>1, <1>2

\* A request is told from no request, and its parts are what the register expects.
LEMMA RequestType ==
  ASSUME RegisterInv, NEW w \in Writers, Guarded(w), pc[w] # "returned"
  PROVE  /\ Request(w) \in Register!Request /\ Request(w) # NoRequest
         /\ token[w].content \in Images /\ op[w].content \in Contents
<1>1. token[w] \in Token /\ op[w] \in Ops
  BY DEF RegisterInv, GuardInv, CommitInv, Mine, Typed, WritingOK, WritersTypeOK, GuardsTypeOK
<1>2. token[w].content \in Images /\ op[w].content \in Contents /\ op[w].atomic_replace \in BOOLEAN
  BY <1>1 DEF Token, Ops
<1>3. Request(w) \in [expected: Images, new: Contents, in_place: BOOLEAN, applied: BOOLEAN]
  BY <1>2 DEF Request, Replacing
<1> QED BY <1>2, <1>3, NoRequestAssumption DEF Register!Request, Register!Images, Images

\* The steps of the register, in terms of the mapping.
OthersStay(w) ==
  \A v \in Writers \ {w} : Request(v)' = Request(v) /\ Answer(v)' = Answer(v)

LEMMA RegisterStays ==
  ASSUME Value' = Value, \A v \in Writers : Request(v)' = Request(v) /\ Answer(v)' = Answer(v)
  PROVE  UNCHANGED Register!vars
BY DEF Register!vars

LEMMA RegisterAsks ==
  ASSUME NEW w \in Writers, OthersStay(w), Value' = Value,
         Request(w) = NoRequest, Request(w)' \in Register!Request, ~Request(w)'.applied,
         Answer(w) = "none", Answer(w)' = "none"
  PROVE  Register!Next
<1>1. Register!Ask(w)
  BY DEF Register!Ask, Register!Asked, OthersStay
<1> QED BY <1>1 DEF Register!Next

Asking(e, n, p, a) == [expected |-> e, new |-> n, in_place |-> p, applied |-> a]

LEMMA RegisterApplies ==
  ASSUME NEW w \in Writers, OthersStay(w), Request(w) # NoRequest, NEW e, NEW n, NEW p,
         Request(w) = Asking(e, n, p, FALSE), Request(w)' = Asking(e, n, p, TRUE),
         Value = e, Value' = n, Answer(w)' = Answer(w)
  PROVE  Register!Next
<1>1. /\ ~Request(w).applied /\ Request(w).expected = e /\ Request(w).new = n
      /\ Request(w)' = [expected |-> Request(w).expected, new |-> Request(w).new,
                        in_place |-> Request(w).in_place, applied |-> TRUE]
  BY DEF Asking
<1>2. Register!Apply(w)
  BY <1>1 DEF Register!Apply, Register!Becomes, Register!Asked, OthersStay
<1> QED BY <1>2 DEF Register!Next

LEMMA RegisterTakesBack ==
  ASSUME NEW w \in Writers, OthersStay(w), Request(w) # NoRequest, NEW e, NEW n, NEW p,
         Request(w) = Asking(e, n, p, TRUE), Request(w)' = Asking(e, n, TRUE, FALSE),
         Value' = e, Answer(w)' = Answer(w)
  PROVE  Register!Next
<1>1. /\ Request(w).applied /\ Request(w).expected = e
      /\ Request(w)' = [expected |-> Request(w).expected, new |-> Request(w).new,
                        in_place |-> TRUE, applied |-> FALSE]
  BY DEF Asking
<1>2. Register!TakeBack(w)
  BY <1>1 DEF Register!TakeBack, Register!Becomes, Register!Asked, OthersStay
<1> QED BY <1>2 DEF Register!Next

LEMMA RegisterAnswers ==
  ASSUME NEW w \in Writers, OthersStay(w), Request(w) # NoRequest, Request(w)' = NoRequest,
         \/ Answer(w)' = "ok" /\ Request(w).applied /\ Value = Request(w).new /\ Value' = Value
         \/ Answer(w)' = "stale" /\ ~Request(w).applied /\ Value' = Value
         \/ Answer(w)' = "failed" /\ (Value' = Value \/ (Request(w).in_place /\ Value' = Torn))
  PROVE  Register!Next
<1> DEFINE request == [v \in Writers |-> Request(v)]
           answer == [v \in Writers |-> Answer(v)]
<1>1. /\ [v \in Writers |-> Request(v)]' = [request EXCEPT ![w] = NoRequest]
      /\ [v \in Writers |-> Answer(v)]' = [answer EXCEPT ![w] = Answer(w)']
  BY DEF OthersStay
<1>2. Register!Answer(w, Answer(w)')
  BY <1>1 DEF Register!Answer, Register!Asked
<1>3. Register!Acknowledge(w) \/ Register!Reject(w) \/ Register!Fail(w)
  BY <1>2 DEF Register!Acknowledge, Register!Reject, Register!Fail
<1> QED BY <1>3 DEF Register!Next

\* Every report is one of the outcomes, and a step reports for its own writer.
Says(w) == result' = result \/ \E r \in Outcomes : result' = [result EXCEPT ![w] = r]

LEMMA WriteSays ==
  ASSUME NEW w \in Writers, WriteStep(w)
  PROVE  Says(w)
<1>1. CASE \/ PrepareTemp(w) \/ FailTemp(w) \/ SkipBackup(w) \/ OpenBackup(w) \/ CopyBackup(w)
           \/ FailBackup(w) \/ OpenTarget(w) \/ WriteTarget(w) \/ LoseWrite(w) \/ SyncTarget(w)
           \/ FailTarget(w)
  BY <1>1 DEF PrepareTemp, FailTemp, SkipBackup, OpenBackup, CopyBackup, FailBackup, OpenTarget,
              WriteTarget, LoseWrite, SyncTarget, FailTarget, Fails, Return, Says, Outcomes
<1>2. CASE \/ Validate(w) \/ Rename(w) \/ FailRename(w) \/ FlushParent(w) \/ FailFlush(w)
           \/ Readback(w) \/ FailReadback(w) \/ OpenRestore(w) \/ CopyRestore(w) \/ FailRestore(w)
  BY <1>2 DEF Validate, Rename, FailRename, FlushParent, FailFlush, Readback, FailReadback,
              OpenRestore, CopyRestore, FailRestore, GiveBack, Fails, Return, Says, Outcomes
<1> QED BY <1>1, <1>2 DEF WriteStep

LEMMA CallSays ==
  ASSUME NEW w \in Writers,
         \/ LockMutex(w) \/ LockFile(w) \/ FailGuard(w) \/ TargetMatchesToken(w)
         \/ CreateDefault(w) \/ FillDefault(w) \/ FailDefault(w) \/ EnsureDefault(w)
         \/ \E n \in Names : ReadFileVersion(w, n) \/ MissingFileVersion(w, n)
         \/ \E r \in VersionedRequests : WriteVersioned(w, r)
         \/ \E r \in PlainRequests : WriteUnguarded(w, r)
  PROVE  Says(w)
<1>1. CASE \/ LockMutex(w) \/ LockFile(w) \/ FailGuard(w) \/ TargetMatchesToken(w)
           \/ CreateDefault(w) \/ FillDefault(w) \/ FailDefault(w) \/ EnsureDefault(w)
  BY <1>1 DEF LockMutex, LockFile, FailGuard, TargetMatchesToken, CreateDefault, FillDefault,
              FailDefault, EnsureDefault, Fails, Return, Says, Outcomes
<1>2. CASE \/ \E n \in Names : ReadFileVersion(w, n) \/ MissingFileVersion(w, n)
           \/ \E r \in VersionedRequests : WriteVersioned(w, r)
           \/ \E r \in PlainRequests : WriteUnguarded(w, r)
  BY <1>2 DEF ReadFileVersion, MissingFileVersion, WriteVersioned, WriteUnguarded, Refuse, Return,
              writeVars, Says, Outcomes
<1> QED BY <1>1, <1>2

LEMMA ReportedInit == Init => Reported
BY DEF Init, Reported

LEMMA ReportedNext ==
  ASSUME Reported, [Next]_vars
  PROVE  Reported'
<1>1. \A w \in Writers : Says(w) => Reported'
  BY DEF Reported, Says
<1>2. ASSUME NEW w \in Writers, Finish(w) PROVE Reported'
  BY <1>2 DEF Finish, Reported
<1>3. CASE PowerLoss \/ \E p \in Processes : Kill(p)
  BY <1>3 DEF PowerLoss, Kill, Dies, Reported
<1>4. CASE UNCHANGED vars
  BY <1>4 DEF vars, writeVars, Reported
<1> QED BY <1>1, <1>2, <1>3, <1>4, WriteSays, CallSays DEF Next, Thread, Write

\* What a step of a write leaves of the options of every call.
LEMMA OptionsStay ==
  ASSUME Typed, NEW w \in Writers, WriteStep(w)
  PROVE  \A v \in Writers :
           /\ op'[v].content = op[v].content /\ op'[v].atomic_replace = op[v].atomic_replace
           /\ op'[v].durable_write = op[v].durable_write
           /\ v # w => op'[v].backup_path = op[v].backup_path
<1>1. op \in [Writers -> Ops]
  BY DEF Typed, WritingOK, WritersTypeOK
<1>2. CASE op' = op
  BY <1>2
<1>3. CASE OpenBackup(w) \/ CopyBackup(w)
  BY <1>1, <1>3 DEF OpenBackup, CopyBackup, Ops
<1>4. CASE OpenTarget(w) \/ OpenRestore(w)
  BY <1>1, <1>4 DEF OpenTarget, OpenRestore, Truncate, Ops
<1>5. CASE Rename(w)
  BY <1>1, <1>5 DEF Rename, LoseName, Ops
<1>6. op' = op \/ OpenBackup(w) \/ CopyBackup(w) \/ OpenTarget(w) \/ OpenRestore(w) \/ Rename(w)
  BY DEF WriteStep, PrepareTemp, FailTemp, SkipBackup, FailBackup, WriteTarget, LoseWrite, SyncTarget,
         FailTarget, Validate, FailRename, FlushParent, FailFlush, Readback, FailReadback,
         CopyRestore, FailRestore, Fails
<1> QED BY <1>2, <1>3, <1>4, <1>5, <1>6

\* Only the holder of the lock can be replacing the file, or about to.
LEMMA HolderAlone ==
  ASSUME RegisterInv, NEW w \in Writers, Guarded(w), pc[w] \in Writing \union {"compare"}
  PROVE  \A v \in Writers \ {w} : Guarded(v) => pc[v] \notin Writing \union {"compare"}
BY DEF RegisterInv, GuardInv, HoldsLock

\* What the steps of a write under the guard share.
Turn(w) ==
  /\ Guarded(w) /\ Guarded(w)' /\ Mine(w) /\ pc[w] \in Writing /\ token' = token
  /\ pc \in [Writers -> AllSteps] /\ op \in [Writers -> Ops] /\ Reported
  /\ now \in [Names -> Images] /\ backup \in [Names -> Images] /\ Main \in Names
  /\ op[w].path = Main /\ Where(Main) = Main
  /\ op'[w].content = op[w].content /\ op'[w].atomic_replace = op[w].atomic_replace
  /\ token[w].content \in Images /\ op[w].content \in Contents /\ Request(w) # NoRequest
  /\ pc[w] \in BeforeReplacing => now[Main] = token[w].content
  /\ Value = Shown(w) /\ Value' = Shown(w)' /\ OthersStay(w)

LEMMA WriteTurn ==
  ASSUME RegisterInv, NEW w \in Writers, Guarded(w), Write(w)
  PROVE  /\ Turn(w)
         /\ \A v \in Writers \ {w} : Guarded(v)' /\ Mine(v) => Mine(v)'
<1>1. WriterMoves(w) /\ UNCHANGED <<token, domain>> /\ Says(w) /\ Typed
  BY WriteMoves, WriteSays DEF RegisterInv, GuardInv, Write, guardVars
<1>2. /\ pc \in [Writers -> AllSteps] /\ op \in [Writers -> Ops] /\ now \in [Names -> Images]
      /\ backup \in [Names -> Images] /\ Main \in Names /\ op[w].path = Main /\ Reported
  BY <1>1, NamesAssumption
     DEF Typed, WritingOK, WritersTypeOK, FilesTypeOK, RegisterInv, GuardInv, OpPaths
<1>3. /\ pc[w] \in Writing /\ pc[w] # "returned" /\ Mine(w)
      /\ pc[w] \in BeforeReplacing => now[Main] = token[w].content
  BY <1>1 DEF WriterMoves, Writing, RegisterInv, CommitInv, GuardInv, FileAsRead
<1>4. \A v \in Writers :
        /\ op'[v].content = op[v].content /\ op'[v].atomic_replace = op[v].atomic_replace
        /\ v # w => op'[v].backup_path = op[v].backup_path
  BY <1>1, OptionsStay DEF Write
<1>5. \A v \in Writers \ {w} :
        /\ pc'[v] = pc[v] /\ result'[v] = result[v] /\ Guarded(v)' = Guarded(v)
        /\ Guarded(v) => pc[v] \notin Writing \union {"compare"}
  BY <1>1, <1>2, <1>3, HolderAlone DEF WriterMoves, Says, Reported, Guarded
<1>6. {"write", "sync", "validate", "flush", "readback", "restore", "restoring"} \subseteq Writing
  BY DEF Writing, Steps
<1>7. \A v \in Writers \ {w} : ~Replacing(v) /\ ~Replacing(v)'
  BY <1>5, <1>6 DEF Replacing
<1>8. Value = Shown(w) /\ Value' = Shown(w)'
  BY <1>7, ValueIs, ValueWillBe
<1>9. OthersStay(w)
  <2> SUFFICES ASSUME NEW v \in Writers \ {w}
               PROVE  Request(v)' = Request(v) /\ Answer(v)' = Answer(v)
    BY DEF OthersStay
  <2>1. CASE ~Guarded(v)
    BY <1>5, <2>1 DEF Request, Answer
  <2>2. CASE Guarded(v)
    <3>1. pc[v] # "restoring"
      BY <1>5, <1>6, <2>2
    <3> QED BY <1>1, <1>4, <1>5, <1>7, <2>2, <3>1 DEF Request, Answer
  <2> QED BY <2>1, <2>2
<1>10. ASSUME NEW v \in Writers \ {w}, Guarded(v)', Mine(v) PROVE Mine(v)'
  <2>1. pc[v] \notin Writing /\ pc'[v] = pc[v] /\ op'[v].backup_path = op[v].backup_path
    BY <1>4, <1>5, <1>10
  <2>2. {"open", "copy"} \subseteq Writing
    BY DEF Writing, Steps
  <2> QED BY <1>1, <1>6, <1>10, <2>1, <2>2 DEF Mine
<1>11. token[w].content \in Images /\ op[w].content \in Contents /\ Request(w) # NoRequest
  BY <1>3, RequestType
<1>12. Guarded(w)' /\ Where(Main) = Main
  BY <1>1, MainIsItself DEF Guarded
<1> QED BY <1>1, <1>2, <1>3, <1>4, <1>8, <1>9, <1>10, <1>11, <1>12 DEF Turn

\* A failure that is reported leaves the file as it is.
LEMMA FailedTurn ==
  ASSUME NEW w \in Writers, Turn(w), UNCHANGED now,
         pc' = [pc EXCEPT ![w] = "returned"], result' = [result EXCEPT ![w] = "failed"]
  PROVE  Register!Next /\ Mine(w)'
<1>1. pc'[w] = "returned" /\ result'[w] = "failed" /\ pc[w] # "returned"
  BY DEF Turn, Reported, Writing
<1>2. Mine(w)'
  BY <1>1 DEF Turn, Mine, BeforeBackup, Writing
<1>3. Request(w)' = NoRequest /\ Answer(w)' = "failed"
  BY <1>1 DEF Turn, Request, Answer
<1>4. Value' = now[Main]
  BY <1>1 DEF Turn, Shown, Replacing
<1>5. Value' = Value \/ (Request(w).in_place /\ Value' = Torn)
  <2>1. CASE ~(now[Main] = Torn /\ Replacing(w))
    BY <1>4, <2>1 DEF Turn, Shown
  <2>2. CASE now[Main] = Torn /\ Replacing(w)
    <3>1. op[w].content # Torn
      BY ImagesAssumption DEF Turn
    <3>2. ~op[w].atomic_replace \/ pc[w] = "restoring"
      BY <2>2, <3>1 DEF Turn, Mine, Replacing
    <3> QED BY <1>1, <1>4, <2>2, <3>2 DEF Turn, Request
  <2> QED BY <2>1, <2>2
<1> QED BY <1>2, <1>3, <1>5, RegisterAnswers DEF Turn

\* A step that touches no file goes unnoticed.
Quiet == {<<"prepare", "backup">>, <<"backup", "rename">>, <<"backup", "open">>,
          <<"write", "validate">>, <<"sync", "validate">>, <<"validate", "readback">>,
          <<"validate", "restore">>, <<"flush", "readback">>, <<"readback", "restore">>}

LEMMA QuietTurn ==
  ASSUME NEW w \in Writers, Turn(w), NEW s, <<pc[w], s>> \in Quiet,
         UNCHANGED <<now, backup, op>>, pc' = [pc EXCEPT ![w] = s],
         s = "open" => ~op[w].atomic_replace, s = "restore" => op[w].backup_path
  PROVE  UNCHANGED Register!vars /\ Mine(w)'
<1>1. pc'[w] = s /\ s # "returned" /\ pc[w] # "returned"
  BY DEF Turn, Quiet
<1>2. Replacing(w)' = Replacing(w) /\ s # "restoring" /\ pc[w] # "restoring"
  BY <1>1 DEF Turn, Replacing, Quiet
<1>3. Value' = Value
  BY <1>2 DEF Turn, Shown
<1>4. Request(w)' = Request(w) /\ Answer(w)' = Answer(w)
  BY <1>1, <1>2 DEF Turn, Request, Answer
<1>5. Mine(w)'
  <2>1. token'[w] # NoToken
    BY DEF Turn, Mine
  <2>2. s \in {"open", "validate"} => ~op'[w].atomic_replace
    BY DEF Turn, Mine, Quiet
  <2>3. s = "backup" => ~op'[w].backup_path
    BY DEF Turn, Mine, Quiet, BeforeBackup
  <2>4. op'[w].backup_path => backup'[Main] = token'[w].content
    BY DEF Turn, Mine
  <2>5. s \in {"readback", "restore"} /\ op'[w].atomic_replace => now'[Main] = op'[w].content
    BY DEF Turn, Mine, Quiet
  <2> QED BY <1>1, <2>1, <2>2, <2>3, <2>4, <2>5 DEF Mine, Quiet, BeforeBackup
<1> QED BY <1>3, <1>4, <1>5, RegisterStays DEF Turn, OthersStay

\* The backup of a commit is the image that its token stands for.
LEMMA BackupTurn ==
  ASSUME NEW w \in Writers, Turn(w), OpenBackup(w) \/ CopyBackup(w)
  PROVE  UNCHANGED Register!vars /\ Mine(w)'
<1>1. /\ pc[w] \in {"backup", "copy"} /\ pc'[w] \in {"copy", "rename", "open"} /\ now' = now
      /\ pc'[w] = "open" => ~op[w].atomic_replace
  BY DEF OpenBackup, CopyBackup, AfterBackup, Goto, Turn
<1>2. ~Replacing(w) /\ ~Replacing(w)'
  BY <1>1 DEF Replacing
<1>3. Value' = Value
  BY <1>1, <1>2 DEF Turn, Shown
<1>4. Request(w)' = Request(w) /\ Answer(w)' = Answer(w)
  BY <1>1, <1>2 DEF Turn, Request, Answer
<1>5. now[Main] = token[w].content
  BY <1>1 DEF Turn, BeforeReplacing
<1>6. Mine(w)'
  <2>1. CASE OpenBackup(w)
    <3>1. /\ pc'[w] = "copy" /\ backup'[Main] = Torn /\ op'[w].from = Main
          /\ op'[w].backup_path = op[w].backup_path /\ ~op[w].backup_path
      BY <2>1 DEF OpenBackup, Goto, Turn, Mine, BeforeBackup, Ops
    <3> QED BY <3>1 DEF Mine, Turn
  <2>2. CASE CopyBackup(w)
    <3>1. /\ pc[w] = "copy" /\ pc'[w] \in {"rename", "open"}
          /\ backup[Main] = Torn /\ op[w].from = Main
      BY <2>2 DEF CopyBackup, AfterBackup, Goto, Turn, Mine
    <3>2. Main # Gone
      BY HandlesAssumption DEF Turn
    <3>3. backup'[Main] = now[Main]
      BY <2>2, <3>1, <3>2 DEF CopyBackup, Turn, Written
    <3> QED BY <1>1, <1>5, <3>1, <3>3 DEF Mine, Turn, BeforeBackup
  <2> QED BY <2>1, <2>2
<1> QED BY <1>3, <1>4, <1>6, RegisterStays DEF Turn, OthersStay

\* A file truncated by a commit in place still shows what it will replace.
LEMMA OpenTurn ==
  ASSUME NEW w \in Writers, Turn(w), OpenTarget(w)
  PROVE  UNCHANGED Register!vars /\ Mine(w)'
<1>1. /\ pc[w] = "open" /\ pc'[w] = "write" /\ now'[Main] = Torn /\ op'[w].out = Main
      /\ op'[w].backup_path = op[w].backup_path /\ backup' = backup /\ ~op[w].atomic_replace
  BY DEF OpenTarget, Truncate, Goto, Turn, Mine, Ops
<1>2. now[Main] = token[w].content
  BY <1>1 DEF Turn, BeforeReplacing
<1>3. ~Replacing(w) /\ Replacing(w)'
  BY <1>1 DEF Replacing, Turn
<1>4. Value' = Value
  BY <1>1, <1>2, <1>3 DEF Turn, Shown
<1>5. Request(w)' = Request(w) /\ Answer(w)' = Answer(w)
  BY <1>1, <1>3 DEF Turn, Request, Answer
<1>6. Mine(w)'
  BY <1>1 DEF Mine, Turn, BeforeBackup
<1> QED BY <1>4, <1>5, <1>6, RegisterStays DEF Turn, OthersStay

\* The commit takes effect when its content is written or renamed into place.
LEMMA WriteInPlaceTurn ==
  ASSUME NEW w \in Writers, Turn(w), WriteTarget(w)
  PROVE  Register!Next /\ Mine(w)'
<1>1. /\ pc[w] = "write" /\ pc'[w] \in {"sync", "validate"} /\ now[Main] = Torn /\ op[w].out = Main
      /\ op' = op /\ ~op[w].atomic_replace
  BY DEF WriteTarget, Goto, Turn, Mine
<1>2. Main # Gone
  BY HandlesAssumption DEF Turn
<1>3. now'[Main] = op[w].content /\ backup' = backup
  BY <1>1, <1>2 DEF WriteTarget, Fill, Written, Turn
<1>4. op[w].content # Torn
  BY ImagesAssumption DEF Turn
<1>5. Replacing(w) /\ Replacing(w)'
  BY <1>1 DEF Replacing, Turn
<1>6. Value = token[w].content /\ Value' = op[w].content
  BY <1>1, <1>3, <1>4, <1>5 DEF Turn, Shown
<1>7. /\ Request(w) = Asking(token[w].content, op[w].content, TRUE, FALSE)
      /\ Request(w)' = Asking(token[w].content, op[w].content, TRUE, TRUE)
      /\ Answer(w)' = Answer(w)
  BY <1>1, <1>3, <1>4, <1>5 DEF Turn, Request, Answer, Asking
<1>8. Mine(w)'
  <2>1. token'[w] # NoToken /\ ~op'[w].atomic_replace
    BY <1>1 DEF Turn, Mine
  <2>2. op'[w].backup_path => backup'[Main] = token'[w].content
    BY <1>1, <1>3 DEF Turn, Mine
  <2> QED BY <1>1, <2>1, <2>2 DEF Mine, BeforeBackup
<1> QED BY <1>6, <1>7, <1>8, RegisterApplies DEF Turn

LEMMA RenameTurn ==
  ASSUME NEW w \in Writers, Turn(w), Rename(w)
  PROVE  Register!Next /\ Mine(w)'
<1>1. /\ pc[w] = "rename" /\ pc'[w] \in {"flush", "readback"} /\ now'[Main] = op[w].content
      /\ backup' = backup /\ op'[w].backup_path = op[w].backup_path
  BY DEF Rename, LoseName, Goto, Turn, Ops
<1>2. now[Main] = token[w].content
  BY <1>1 DEF Turn, BeforeReplacing
<1>3. op[w].content # Torn
  BY ImagesAssumption DEF Turn
<1>4. ~Replacing(w) /\ Replacing(w)'
  BY <1>1 DEF Replacing, Turn
<1>5. Value = token[w].content /\ Value' = op[w].content
  BY <1>1, <1>2, <1>3, <1>4 DEF Turn, Shown
<1>6. /\ Request(w) = Asking(token[w].content, op[w].content, ~op[w].atomic_replace, FALSE)
      /\ Request(w)' = Asking(token[w].content, op[w].content, ~op[w].atomic_replace, TRUE)
      /\ Answer(w)' = Answer(w)
  BY <1>1, <1>3, <1>4 DEF Turn, Request, Answer, Asking
<1>7. Mine(w)'
  <2>1. token'[w] # NoToken /\ op'[w].content = op[w].content
    BY DEF Turn, Mine
  <2>2. op'[w].backup_path => backup'[Main] = token'[w].content
    BY <1>1 DEF Turn, Mine
  <2> QED BY <1>1, <2>1, <2>2 DEF Mine, BeforeBackup
<1> QED BY <1>5, <1>6, <1>7, RegisterApplies DEF Turn

\* Success is reported when the file still shows the new content.
LEMMA AcknowledgedTurn ==
  ASSUME NEW w \in Writers, Turn(w), UNCHANGED now, pc[w] = "readback", now[Main] = op[w].content,
         pc' = [pc EXCEPT ![w] = "returned"], result' = [result EXCEPT ![w] = "ok"]
  PROVE  Register!Next /\ Mine(w)'
<1>1. pc'[w] = "returned" /\ result'[w] = "ok" /\ op[w].content # Torn /\ Replacing(w)
  BY ImagesAssumption DEF Turn, Reported, Replacing
<1>2. Mine(w)'
  BY <1>1 DEF Turn, Mine, BeforeBackup, Writing
<1>3. Request(w)' = NoRequest /\ Answer(w)' = "ok"
  BY <1>1 DEF Turn, Request, Answer
<1>4. Value = op[w].content /\ Value' = Value
  BY <1>1 DEF Turn, Shown
<1>5. Request(w).applied /\ Request(w).new = op[w].content
  BY <1>1 DEF Turn, Request
<1> QED BY <1>2, <1>3, <1>4, <1>5, RegisterAnswers DEF Turn

\* The backup is put back: the file is torn, and then shows what the caller read.
LEMMA OpenRestoreTurn ==
  ASSUME NEW w \in Writers, Turn(w), OpenRestore(w)
  PROVE  (Register!Next \/ UNCHANGED Register!vars) /\ Mine(w)'
<1>1. /\ pc[w] = "restore" /\ pc'[w] = "restoring" /\ now'[Main] = Torn /\ op'[w].out = Main
      /\ op'[w].backup_path = op[w].backup_path /\ backup' = backup /\ op[w].backup_path
  BY DEF OpenRestore, Truncate, Goto, Turn, Mine, Ops
<1>2. Replacing(w) /\ Replacing(w)'
  BY <1>1 DEF Replacing, Turn
<1>3. Value' = token[w].content /\ Answer(w)' = Answer(w)
  BY <1>1, <1>2 DEF Turn, Shown, Answer
<1>4. Mine(w)'
  <2>1. token'[w] # NoToken /\ op'[w].backup_path
    BY <1>1 DEF Turn, Mine
  <2>2. backup'[Main] = token'[w].content
    BY <1>1 DEF Turn, Mine
  <2> QED BY <1>1, <2>1, <2>2 DEF Mine, BeforeBackup
<1>5. /\ Request(w) = Asking(token[w].content, op[w].content, ~op[w].atomic_replace, now[Main] # Torn)
      /\ Request(w)' = Asking(token[w].content, op[w].content, TRUE, FALSE)
  BY <1>1, <1>2 DEF Turn, Request, Asking
<1>6. CASE now[Main] # Torn
  <2>1. Request(w) = Asking(token[w].content, op[w].content, ~op[w].atomic_replace, TRUE)
    BY <1>5, <1>6
  <2> QED BY <1>3, <1>4, <1>5, <2>1, RegisterTakesBack DEF Turn
<1>7. CASE now[Main] = Torn
  <2>1. ~op[w].atomic_replace
    BY <1>1, <1>7, ImagesAssumption DEF Turn, Mine
  <2>2. Request(w)' = Request(w)
    BY <1>5, <1>7, <2>1
  <2>3. Value' = Value
    BY <1>2, <1>3, <1>7 DEF Turn, Shown
  <2> QED BY <1>3, <1>4, <2>2, <2>3, RegisterStays DEF Turn, OthersStay
<1> QED BY <1>6, <1>7

LEMMA CopyRestoreTurn ==
  ASSUME NEW w \in Writers, Turn(w), CopyRestore(w)
  PROVE  Register!Next /\ Mine(w)'
<1>1. /\ pc[w] = "restoring" /\ pc'[w] = "returned" /\ result'[w] = "failed"
      /\ now[Main] = Torn /\ op[w].out = Main /\ backup[Main] = token[w].content
  BY DEF CopyRestore, Return, Goto, Turn, Mine, Reported, Writing, Steps
<1>2. Main # Gone
  BY HandlesAssumption DEF Turn
<1>3. now'[Main] = token[w].content
  BY <1>1, <1>2 DEF CopyRestore, Fill, Written, Turn
<1>4. Value = token[w].content /\ Value' = Value
  BY <1>1, <1>3 DEF Turn, Shown, Replacing
<1>5. Request(w)' = NoRequest /\ Answer(w)' = "failed"
  BY <1>1 DEF Turn, Request, Answer
<1>6. Mine(w)'
  BY <1>1 DEF Turn, Mine, BeforeBackup, Writing
<1> QED BY <1>4, <1>5, <1>6, RegisterAnswers DEF Turn

\* A file that is rejected is given back if there is a backup.
LEMMA GiveBackTurn ==
  ASSUME NEW w \in Writers, Turn(w), pc[w] \in {"validate", "readback"}, GiveBack(w),
         UNCHANGED <<files, op>>
  PROVE  (Register!Next \/ UNCHANGED Register!vars) /\ Mine(w)'
<1>1. CASE op[w].backup_path
  <2>1. pc' = [pc EXCEPT ![w] = "restore"] /\ UNCHANGED <<now, backup, op>>
    BY <1>1 DEF GiveBack, Goto, files
  <2>2. <<pc[w], "restore">> \in Quiet
    BY DEF Quiet
  <2> QED BY <1>1, <2>1, <2>2, QuietTurn
<1>2. CASE ~op[w].backup_path
  BY <1>2, FailedTurn DEF GiveBack, Return, Goto, files
<1> QED BY <1>1, <1>2

LEMMA TurnTaken ==
  ASSUME NEW w \in Writers, Turn(w), WriteStep(w)
  PROVE  (Register!Next \/ UNCHANGED Register!vars) /\ Mine(w)'
<1>1. CASE \/ FailTemp(w) \/ FailBackup(w) \/ FailTarget(w) \/ FailRename(w) \/ FailFlush(w)
           \/ FailRestore(w) \/ (PrepareTemp(w) /\ ~op[w].valid)
  BY <1>1, FailedTurn DEF FailTemp, FailBackup, FailTarget, FailRename, FailFlush, FailRestore,
                          PrepareTemp, Fails, Return, Goto, files
<1>2. CASE \/ (PrepareTemp(w) /\ op[w].valid) \/ SkipBackup(w) \/ LoseWrite(w) \/ FlushParent(w)
           \/ SyncTarget(w) \/ (Validate(w) /\ op[w].valid)
  <2>1. PICK s : /\ <<pc[w], s>> \in Quiet /\ pc' = [pc EXCEPT ![w] = s]
                 /\ s = "open" => ~op[w].atomic_replace
                 /\ s # "restore"
    <3>1. CASE PrepareTemp(w) /\ op[w].valid
      BY <3>1 DEF PrepareTemp, Goto, Quiet
    <3>2. CASE SkipBackup(w)
      BY <3>2 DEF SkipBackup, AfterBackup, Goto, Quiet
    <3>3. CASE LoseWrite(w) \/ FlushParent(w) \/ SyncTarget(w)
      BY <3>3 DEF LoseWrite, FlushParent, SyncTarget, Goto, Quiet
    <3>4. CASE Validate(w) /\ op[w].valid
      BY <3>4 DEF Validate, Goto, Quiet
    <3> QED BY <1>2, <3>1, <3>2, <3>3, <3>4
  <2>2. UNCHANGED <<now, backup, op>>
    BY <1>2 DEF PrepareTemp, SkipBackup, LoseWrite, FlushParent, SyncTarget, Validate, files
  <2> QED BY <2>1, <2>2, QuietTurn
<1>3. CASE (Validate(w) /\ ~op[w].valid) \/ FailReadback(w)
           \/ (Readback(w) /\ Seen(op[w].path) # op[w].content)
  <2>1. pc[w] \in {"validate", "readback"} /\ GiveBack(w) /\ UNCHANGED <<files, op>>
    BY <1>3 DEF Validate, FailReadback, Readback
  <2> QED BY <2>1, GiveBackTurn
<1>4. CASE Readback(w) /\ Seen(op[w].path) = op[w].content
  <2>1. now[Main] = op[w].content
    BY <1>4 DEF Turn, Seen
  <2> QED BY <1>4, <2>1, AcknowledgedTurn DEF Readback, Return, Goto, files
<1> QED BY <1>1, <1>2, <1>3, <1>4, BackupTurn, OpenTurn, WriteInPlaceTurn, RenameTurn, OpenRestoreTurn,
           CopyRestoreTurn DEF WriteStep

LEMMA GuardedWrite ==
  ASSUME RegisterInv, NEW w \in Writers, Guarded(w), Write(w)
  PROVE  (Register!Next \/ UNCHANGED Register!vars) /\ CommitInv'
<1>1. Turn(w) /\ \A v \in Writers \ {w} : Guarded(v)' /\ Mine(v) => Mine(v)'
  BY WriteTurn
<1>2. (Register!Next \/ UNCHANGED Register!vars) /\ Mine(w)'
  BY <1>1, TurnTaken DEF Write
<1>3. \A v \in Writers : Guarded(v)' <=> Guarded(v)
  BY DEF Write, guardVars, Guarded
<1> QED BY <1>1, <1>2, <1>3 DEF CommitInv, RegisterInv

\* The register shows what it showed when nobody begins or ends a replacement.
LEMMA ValueStays ==
  ASSUME RegisterInv, UNCHANGED now,
         \A v \in Writers : /\ Replacing(v)' = Replacing(v)
                            /\ Replacing(v) => token'[v] = token[v]
  PROVE  Value' = Value
<1>1. ASSUME NEW w \in Writers, Replacing(w) PROVE Value' = Value
  <2>1. Guarded(w) /\ pc[w] \in Writing
    BY <1>1 DEF Replacing, Writing, Steps
  <2>2. \A v \in Writers : Replacing(v) => Guarded(v) /\ pc[v] \in Writing
    BY DEF Replacing, Writing, Steps
  <2>3. \A v \in Writers : Replacing(v) => v = w
    BY <2>1, <2>2, HolderAlone
  <2>4. Value = Shown(w) /\ Value' = Shown(w)'
    BY <2>3, ValueIs, ValueWillBe
  <2> QED BY <1>1, <2>4 DEF Shown
<1>2. CASE \A v \in Writers : ~Replacing(v)
  BY <1>2 DEF Value
<1> QED BY <1>1, <1>2

\* A step by which the others keep what they have.
LEMMA OthersKeep ==
  ASSUME RegisterInv, NEW w \in Writers, UNCHANGED now,
         \A v \in Writers \ {w} :
           /\ Guarded(v)' = Guarded(v) /\ pc'[v] = pc[v] /\ result'[v] = result[v]
           /\ op'[v] = op[v] /\ token'[v] = token[v],
         ~Replacing(w), ~Replacing(w)'
  PROVE  Value' = Value /\ OthersStay(w)
<1>1. Value' = Value
  BY ValueStays DEF Replacing
<1>2. OthersStay(w)
  BY DEF OthersStay, Request, Answer, Replacing
<1> QED BY <1>1, <1>2

LEMMA OthersMine ==
  ASSUME CommitInv, UNCHANGED <<now, backup>>, NEW w \in Writers,
         \A v \in Writers \ {w} :
           Guarded(v)' = Guarded(v) /\ pc'[v] = pc[v] /\ op'[v] = op[v] /\ token'[v] = token[v],
         Guarded(w)' => Mine(w)'
  PROVE  CommitInv'
BY DEF CommitInv, Mine

\* Callers: a token is read, a commit is asked for or refused.
LEMMA TokenStep ==
  ASSUME RegisterInv, NEW w \in Writers, NEW n \in Names,
         ReadFileVersion(w, n) \/ MissingFileVersion(w, n)
  PROVE  UNCHANGED Register!vars /\ CommitInv'
<1>1. /\ pc[w] = "idle" /\ ~Guarded(w) /\ UNCHANGED <<now, backup, pc, op, result, domain>>
      /\ \A v \in Writers \ {w} : token'[v] = token[v]
  BY DEF ReadFileVersion, MissingFileVersion, Idle, writeVars, files, RegisterInv, IdleUnguarded,
         GuardInv, Typed, GuardsTypeOK
<1>2. ~Guarded(w)' /\ ~Replacing(w) /\ ~Replacing(w)' /\ \A v \in Writers : Guarded(v)' = Guarded(v)
  BY <1>1 DEF Guarded, Replacing
<1>3. Value' = Value /\ OthersStay(w)
  BY <1>1, <1>2, OthersKeep
<1>4. Request(w)' = Request(w) /\ Answer(w)' = Answer(w)
  BY <1>1, <1>2 DEF Request, Answer
<1>5. CommitInv'
  BY <1>1, <1>2, OthersMine DEF RegisterInv
<1> QED BY <1>3, <1>4, <1>5, RegisterStays DEF OthersStay

LEMMA CommitStep ==
  ASSUME OneFile, RegisterInv, NEW w \in Writers, NEW r \in VersionedRequests, WriteVersioned(w, r)
  PROVE  (Register!Next \/ UNCHANGED Register!vars) /\ CommitInv'
<1>1. /\ pc \in [Writers -> AllSteps] /\ op \in [Writers -> Ops] /\ Reported
      /\ domain \in [Writers -> Names \union {Nobody}] /\ token \in [Writers -> Token \union {NoToken}]
  BY DEF RegisterInv, GuardInv, Typed, WritingOK, WritersTypeOK, GuardsTypeOK
<1>2. pc[w] = "idle" /\ ~Guarded(w) /\ UNCHANGED <<now, backup, token>>
  BY DEF WriteVersioned, Idle, files, RegisterInv, IdleUnguarded
<1>3. CASE \/ token[w] = NoToken /\ Refuse(w, "token-invalid")
           \/ token[w] # NoToken /\ token[w].domain # LockDomain(r.path) /\ Refuse(w, "target-mismatch")
  <2>1. /\ UNCHANGED <<op, domain>> /\ pc' = [pc EXCEPT ![w] = "returned"]
        /\ \A v \in Writers \ {w} : result'[v] = result[v]
    BY <1>1, <1>3 DEF Refuse, Return, Goto, Reported
  <2>2. ~Guarded(w)' /\ ~Replacing(w) /\ ~Replacing(w)' /\ \A v \in Writers : Guarded(v)' = Guarded(v)
    BY <1>2, <2>1 DEF Guarded, Replacing
  <2>3. Value' = Value /\ OthersStay(w)
    BY <1>1, <1>2, <2>1, <2>2, OthersKeep
  <2>4. Request(w)' = Request(w) /\ Answer(w)' = Answer(w)
    BY <1>2, <2>2 DEF Request, Answer
  <2>5. CommitInv'
    BY <1>1, <1>2, <2>1, <2>2, OthersMine DEF RegisterInv
  <2> QED BY <2>3, <2>4, <2>5, RegisterStays DEF OthersStay
<1>4. CASE /\ token[w] # NoToken /\ op' = [op EXCEPT ![w] = NewOp(r)]
           /\ domain' = [domain EXCEPT ![w] = LockDomain(r.path)]
           /\ Goto(w, "mutex") /\ UNCHANGED result
  <2>1. /\ op'[w] = NewOp(r) /\ pc'[w] = "mutex"
        /\ \A v \in Writers \ {w} :
             op'[v] = op[v] /\ pc'[v] = pc[v] /\ domain'[v] = domain[v] /\ result'[v] = result[v]
    BY <1>1, <1>4 DEF Goto
  <2>2. ~Replacing(w) /\ ~Replacing(w)' /\ \A v \in Writers \ {w} : Guarded(v)' = Guarded(v)
    BY <1>2, <2>1 DEF Guarded, Replacing
  <2>3. Value' = Value /\ OthersStay(w)
    BY <1>2, <2>1, <2>2, OthersKeep
  <2>4. Mine(w)'
    <3>1. "mutex" \notin Writing
      BY DEF Writing, Steps
    <3>2. token'[w] # NoToken /\ ~op'[w].backup_path
      BY <1>2, <1>4, <2>1 DEF NewOp
    <3> QED BY <2>1, <3>1, <3>2 DEF Mine
  <2>5. CommitInv'
    BY <1>2, <2>1, <2>2, <2>4, OthersMine DEF RegisterInv
  <2>6. Request(w) = NoRequest /\ Answer(w) = "none" /\ Answer(w)' = "none"
    BY <1>2, <2>1 DEF Request, Answer
  <2>7. CASE Guarded(w)'
    <3>1. token[w] \in Token /\ NewOp(r) \in Ops
      BY <1>1, <1>4, NewOpType, RequestsAssumption
    <3>2. Request(w)' = Asking(token[w].content, NewOp(r).content, ~NewOp(r).atomic_replace, FALSE)
      BY <1>2, <2>1, <2>2, <2>7 DEF Request, Asking
    <3>3. Request(w)' \in Register!Request /\ ~Request(w)'.applied
      BY <3>1, <3>2 DEF Asking, Token, Ops, Images, Register!Request, Register!Images
    <3> QED BY <2>3, <2>5, <2>6, <3>3, RegisterAsks
  <2>8. CASE ~Guarded(w)'
    <3>1. Request(w)' = NoRequest
      BY <2>8 DEF Request
    <3> QED BY <2>3, <2>5, <2>6, <3>1, RegisterStays DEF OthersStay
  <2> QED BY <2>7, <2>8
<1> QED BY <1>3, <1>4 DEF WriteVersioned

\* The guard: a writer waits, compares and goes on, or is turned away.
LEMMA GuardStep ==
  ASSUME RegisterInv, NEW w \in Writers,
         LockMutex(w) \/ LockFile(w) \/ FailGuard(w) \/ TargetMatchesToken(w)
  PROVE  (Register!Next \/ UNCHANGED Register!vars) /\ CommitInv'
<1>1. /\ pc \in [Writers -> AllSteps] /\ op \in [Writers -> Ops] /\ Reported
  BY DEF RegisterInv, GuardInv, Typed, WritingOK, WritersTypeOK
<1>2. pc[w] \in {"mutex", "flock", "compare"} /\ UNCHANGED <<now, backup, op, token, domain>>
  BY DEF LockMutex, LockFile, FailGuard, TargetMatchesToken, Fails, files, guardVars
<1>3. PICK s \in {"flock", "compare", "prepare", "backup", "returned"} :
        /\ pc' = [pc EXCEPT ![w] = s]
        /\ IF s = "returned" THEN \E a \in {"failed", "stale"} : result' = [result EXCEPT ![w] = a]
                             ELSE result' = result
  BY DEF LockMutex, LockFile, FailGuard, TargetMatchesToken, Fails, FirstStep, Return, Goto
<1>4. /\ pc'[w] = s /\ \A v \in Writers \ {w} : pc'[v] = pc[v] /\ result'[v] = result[v]
      /\ s = "returned" => result'[w] \in {"failed", "stale"}
  BY <1>1, <1>3 DEF Reported
<1>5. ~Replacing(w) /\ ~Replacing(w)' /\ \A v \in Writers : Guarded(v)' = Guarded(v)
  BY <1>2, <1>4 DEF Guarded, Replacing
<1>6. Value' = Value /\ OthersStay(w)
  BY <1>2, <1>4, <1>5, OthersKeep
<1>7. CommitInv'
  <2>1. ASSUME Guarded(w)' PROVE Mine(w)'
    <3>1. token'[w] # NoToken /\ ~op'[w].backup_path
      BY <1>2, <1>5, <2>1 DEF RegisterInv, CommitInv, Mine, BeforeBackup
    <3> QED BY <1>4, <3>1 DEF Mine
  <2> QED BY <1>2, <1>4, <1>5, <2>1, OthersMine DEF RegisterInv
<1>8. CASE ~Guarded(w)
  <2>1. Request(w)' = Request(w) /\ Answer(w)' = Answer(w)
    BY <1>5, <1>8 DEF Request, Answer
  <2> QED BY <1>6, <1>7, <2>1, RegisterStays DEF OthersStay
<1>9. CASE Guarded(w) /\ s # "returned"
  <2>1. Request(w)' = Request(w) /\ Answer(w)' = Answer(w)
    BY <1>2, <1>4, <1>5, <1>9 DEF Request, Answer
  <2> QED BY <1>6, <1>7, <2>1, RegisterStays DEF OthersStay
<1>10. CASE Guarded(w) /\ s = "returned"
  <2>1. Request(w) # NoRequest /\ ~Request(w).applied
    BY <1>2, <1>5, <1>10, RequestType DEF Request
  <2>2. Request(w)' = NoRequest /\ Answer(w)' \in {"failed", "stale"}
    BY <1>4, <1>5, <1>10 DEF Request, Answer
  <2> QED BY <1>6, <1>7, <2>1, <2>2, RegisterAnswers
<1> QED BY <1>8, <1>9, <1>10

\* Writers without the guard are alone: whatever they do, no commit is under way.
LEMMA OutsideStep ==
  ASSUME RegisterInv, Typed', UNCHANGED domain, \A v \in Writers : ~Guarded(v)
  PROVE  Register!Next /\ CommitInv'
<1>1. \A v \in Writers : ~Guarded(v)'
  BY DEF Guarded
<1>2. \A v \in Writers : /\ Request(v) = NoRequest /\ Request(v)' = NoRequest
                         /\ Answer(v) = "none" /\ Answer(v)' = "none" /\ ~Replacing(v)'
  BY <1>1 DEF Request, Answer, Replacing
<1>3. Value' = now'[Main]
  BY <1>2 DEF Value
<1>4. Value' \in Images
  BY <1>3, NamesAssumption DEF Typed, WritingOK, FilesTypeOK
<1>5. Register!Overwrite
  BY <1>2, <1>4 DEF Register!Overwrite, Register!Asked, Register!Images, Images
<1> QED BY <1>1, <1>5 DEF Register!Next, CommitInv

LEMMA UnguardedStep ==
  ASSUME OneFile, RegisterInv, NEW w \in Writers, ~Guarded(w),
         \/ EnsureDefault(w) \/ \E r \in PlainRequests : WriteUnguarded(w, r)
         \/ CreateDefault(w) \/ FillDefault(w) \/ FailDefault(w) \/ Write(w)
  PROVE  Register!Next /\ CommitInv'
<1>1. Typed' /\ UNCHANGED domain
  BY UnguardedTyped, EnsureTyped, DefaultTyped, WriteTyped
     DEF RegisterInv, GuardInv, EnsureDefault, WriteUnguarded, CreateDefault, FillDefault, FailDefault,
         Write, guardVars
<1>2. CASE EnsureDefault(w) \/ \E r \in PlainRequests : WriteUnguarded(w, r)
  <2>1. \A v \in Writers : pc[v] = "idle"
    BY <1>2 DEF EnsureDefault, WriteUnguarded, Idle, OneFile
  <2> QED BY <1>1, <2>1, OutsideStep DEF RegisterInv, IdleUnguarded
<1>3. CASE CreateDefault(w) \/ FillDefault(w) \/ FailDefault(w) \/ Write(w)
  <2>1. pc[w] \notin {"idle", "returned"}
    <3>1. CASE Write(w)
      BY <3>1, WriteMoves DEF Write, WriterMoves, Writing, Steps, RegisterInv, GuardInv
    <3> QED BY <1>3, <3>1 DEF CreateDefault, FillDefault, FailDefault
  <2>2. \A v \in Writers \ {w} : pc[v] = "idle"
    BY <2>1 DEF RegisterInv, GuardInv, AloneUnguarded, Idle
  <2> QED BY <1>1, <2>2, OutsideStep DEF RegisterInv, IdleUnguarded
<1> QED BY <1>2, <1>3

\* The caller gets its report.
LEMMA FinishStep ==
  ASSUME RegisterInv, NEW w \in Writers, Finish(w)
  PROVE  (Register!Next \/ UNCHANGED Register!vars) /\ CommitInv'
<1>1. /\ pc[w] = "returned" /\ UNCHANGED <<now, backup, token>>
      /\ domain'[w] = Nobody
      /\ \A v \in Writers \ {w} :
           pc'[v] = pc[v] /\ op'[v] = op[v] /\ result'[v] = result[v] /\ domain'[v] = domain[v]
  BY DEF Finish, Goto, files, RegisterInv, Reported, GuardInv, Typed, WritingOK, WritersTypeOK,
         GuardsTypeOK
<1>2. /\ ~Guarded(w)' /\ ~Replacing(w) /\ ~Replacing(w)'
      /\ \A v \in Writers \ {w} : Guarded(v)' = Guarded(v)
  BY <1>1 DEF Guarded, Replacing
<1>3. Value' = Value /\ OthersStay(w)
  BY <1>1, <1>2, OthersKeep
<1>4. CommitInv'
  BY <1>1, <1>2, OthersMine DEF RegisterInv
<1>5. Request(w) = NoRequest /\ Request(w)' = NoRequest /\ Answer(w)' = "none"
  BY <1>1, <1>2 DEF Request, Answer
<1>6. CASE Answer(w) = "none"
  BY <1>3, <1>4, <1>5, <1>6, RegisterStays DEF OthersStay
<1>7. CASE Answer(w) # "none"
  <2>1. Register!Receive(w)
    BY <1>3, <1>5, <1>7 DEF Register!Receive, OthersStay
  <2> QED BY <1>4, <2>1 DEF Register!Next
<1> QED BY <1>6, <1>7

\* Who dies is no longer under way; who lives goes on as before.
LEMMA DeathsInRegister ==
  ASSUME NEW W \in SUBSET Writers, Dies(W)
  PROVE  \A v \in Writers :
           /\ v \in W => ~Guarded(v)' /\ Request(v)' = NoRequest /\ Answer(v)' = "none" /\ ~Replacing(v)'
           /\ v \notin W => /\ Guarded(v)' = Guarded(v) /\ pc'[v] = pc[v] /\ op'[v] = op[v]
                            /\ token'[v] = token[v] /\ result'[v] = result[v]
                            /\ Replacing(v)' = Replacing(v) /\ Answer(v)' = Answer(v)
<1>1. \A v \in W : ~Guarded(v)'
  BY DEF Dies, Guarded
<1>2. \A v \in Writers \ W : /\ Guarded(v)' = Guarded(v) /\ pc'[v] = pc[v] /\ op'[v] = op[v]
                             /\ token'[v] = token[v] /\ result'[v] = result[v]
  BY DEF Dies, Guarded
<1> QED BY <1>1, <1>2 DEF Request, Answer, Replacing

LEMMA KillStep ==
  ASSUME RegisterInv, NEW p \in Processes, Kill(p)
  PROVE  Register!Next /\ CommitInv'
<1> DEFINE W == {w \in Writers : ProcessOf[w] = p}
<1>1. W \in SUBSET Writers /\ Dies(W) /\ UNCHANGED <<now, backup>>
  BY DEF Kill
<1> HIDE DEF W
<1>2. \A v \in Writers :
        /\ v \in W => ~Guarded(v)' /\ Request(v)' = NoRequest /\ Answer(v)' = "none" /\ ~Replacing(v)'
        /\ v \notin W => /\ Guarded(v)' = Guarded(v) /\ pc'[v] = pc[v] /\ op'[v] = op[v]
                         /\ token'[v] = token[v] /\ result'[v] = result[v]
                         /\ Replacing(v)' = Replacing(v) /\ Answer(v)' = Answer(v)
  BY <1>1, DeathsInRegister
<1>3. \A v \in Writers \ W : Request(v)' = Request(v)
  BY <1>1, <1>2 DEF Request
<1>4. CommitInv'
  BY <1>1, <1>2 DEF CommitInv, RegisterInv, Mine
<1>5. Value' = Value \/ (Value' = Torn /\ \E w \in W : Request(w) # NoRequest /\ Request(w).in_place)
  <2>1. CASE \A w \in W : ~Replacing(w)
    <3>1. \A v \in Writers : Replacing(v)' = Replacing(v) /\ (Replacing(v) => token'[v] = token[v])
      BY <1>2, <2>1 DEF Replacing
    <3> QED BY <1>1, <3>1, ValueStays
  <2>2. ASSUME NEW w \in W, Replacing(w) PROVE <1>5
    <3>1. \A v \in Writers : Replacing(v) => Guarded(v) /\ pc[v] \in Writing /\ pc[v] # "returned"
      BY DEF Replacing, Writing, Steps
    <3>2. \A v \in Writers : Replacing(v) => v = w
      BY <1>1, <2>2, <3>1, HolderAlone
    <3>3. \A v \in Writers : ~Replacing(v)'
      BY <1>2, <3>2
    <3>4. Value = Shown(w) /\ Value' = now[Main]
      BY <1>1, <3>2, <3>3, ValueIs DEF Value
    <3>5. CASE now[Main] # Torn
      BY <3>4, <3>5 DEF Shown
    <3>6. CASE now[Main] = Torn
      <4>1. w \in Writers /\ Guarded(w) /\ Mine(w) /\ pc[w] # "returned"
        BY <1>1, <2>2, <3>1 DEF RegisterInv, CommitInv
      <4>2. Request(w) # NoRequest /\ op[w].content # Torn
        BY <4>1, RequestType, ImagesAssumption
      <4>3. ~op[w].atomic_replace \/ pc[w] = "restoring"
        BY <2>2, <3>6, <4>1, <4>2 DEF Mine, Replacing
      <4>4. Request(w).in_place
        BY <4>1, <4>3 DEF Request
      <4> QED BY <3>4, <3>6, <4>2, <4>4
    <3> QED BY <3>5, <3>6
  <2> QED BY <2>1, <2>2
<1>6. Register!Kill(W)
  BY <1>1, <1>2, <1>3, <1>5 DEF Register!Kill, Register!Asked
<1> QED BY <1>1, <1>4, <1>6 DEF Register!Next

LEMMA PowerLossStep ==
  ASSUME Typed', PowerLoss
  PROVE  Register!Next /\ CommitInv'
<1>1. Dies(Writers)
  BY DEF PowerLoss
<1>2. \A v \in Writers : ~Guarded(v)' /\ Request(v)' = NoRequest /\ Answer(v)' = "none" /\ ~Replacing(v)'
  BY <1>1, DeathsInRegister
<1>3. Value' \in Images
  BY <1>2, NamesAssumption DEF Value, Typed, WritingOK, FilesTypeOK
<1>4. Register!PowerLoss
  BY <1>2, <1>3 DEF Register!PowerLoss, Register!Images, Images
<1> QED BY <1>2, <1>4 DEF Register!Next, CommitInv

LEMMA RegisterInit == Init => RegisterInv /\ Register!Init
<1> SUFFICES ASSUME Init PROVE RegisterInv /\ Register!Init
  OBVIOUS
<1>1. \A w \in Writers : ~Guarded(w) /\ pc[w] = "idle"
  BY DEF Init, Guarded
<1>2. RegisterInv
  BY <1>1, InitGuarded, ReportedInit DEF RegisterInv, IdleUnguarded, CommitInv
<1>3. \A w \in Writers : Request(w) = NoRequest /\ Answer(w) = "none" /\ ~Replacing(w)
  BY <1>1 DEF Request, Answer, Replacing
<1>4. Value \in Contents \union {Absent}
  BY <1>3, NamesAssumption, ModelAssumption DEF Value, Init
<1>5. Register!Init
  BY <1>3, <1>4 DEF Register!Init
<1> QED BY <1>2, <1>5

LEMMA RegisterNext ==
  ASSUME OneFile, RegisterInv, [Next]_vars
  PROVE  RegisterInv' /\ [Register!Next]_(Register!vars)
<1>1. GuardInv' /\ IdleUnguarded' /\ Reported' /\ Typed'
  BY NextGuarded, NextIdle, ReportedNext DEF RegisterInv, GuardInv
<1>2. (Register!Next \/ UNCHANGED Register!vars) /\ CommitInv'
  <2>1. ASSUME NEW w \in Writers, Write(w) \/ CreateDefault(w) \/ FillDefault(w) \/ FailDefault(w)
        PROVE  (Register!Next \/ UNCHANGED Register!vars) /\ CommitInv'
    <3>1. CASE Write(w)
      BY <3>1, GuardedWrite, UnguardedStep
    <3>2. CASE CreateDefault(w) \/ FillDefault(w) \/ FailDefault(w)
      <4>1. ~Guarded(w)
        BY <3>2 DEF RegisterInv, IdleUnguarded, CreateDefault, FillDefault, FailDefault
      <4> QED BY <3>2, <4>1, UnguardedStep
    <3> QED BY <2>1, <3>1, <3>2
  <2>2. ASSUME NEW w \in Writers, EnsureDefault(w) \/ \E r \in PlainRequests : WriteUnguarded(w, r)
        PROVE  (Register!Next \/ UNCHANGED Register!vars) /\ CommitInv'
    <3>1. ~Guarded(w)
      BY <2>2 DEF RegisterInv, IdleUnguarded, EnsureDefault, WriteUnguarded, Idle
    <3> QED BY <2>2, <3>1, UnguardedStep
  <2>3. CASE UNCHANGED vars
    <3>1. \A v \in Writers : Request(v)' = Request(v) /\ Answer(v)' = Answer(v)
      BY <2>3 DEF vars, writeVars, files, guardVars, Request, Answer, Replacing, Guarded
    <3>2. UNCHANGED now /\ \A v \in Writers : Replacing(v)' = Replacing(v) /\ token'[v] = token[v]
      BY <2>3 DEF vars, writeVars, files, guardVars, Replacing, Guarded
    <3>3. CommitInv'
      BY <2>3 DEF vars, writeVars, files, guardVars, CommitInv, Mine, Guarded, RegisterInv
    <3> QED BY <3>1, <3>2, <3>3, ValueStays, RegisterStays
  <2> QED BY <1>1, <2>1, <2>2, <2>3, TokenStep, CommitStep, GuardStep, FinishStep, KillStep, PowerLossStep
          DEF Next, Thread
<1> QED BY <1>1, <1>2 DEF RegisterInv

\* write_versioned implements the register: a commit replaces exactly the image its caller
\* read, in one step, or changes nothing; "ok" is said of a commit that is in place, "stale"
\* of one that changed nothing, and only a file written in place can be left torn.
THEOREM CommitsImplementRegister ==
  ASSUME OneFile
  PROVE  Spec => CommitsAreAtomic
<1>1. Init => RegisterInv /\ Register!Init
  BY RegisterInit
<1>2. RegisterInv /\ [Next]_vars => RegisterInv' /\ [Register!Next]_(Register!vars)
  BY RegisterNext
<1> QED BY <1>1, <1>2, PTL DEF Spec, CommitsAreAtomic, Register!Spec
-----------------------------------------------------------------------------
(* What readers, and a power loss, may find.  Only one writer at a time is  *)
(* at work on the file; Doing, Shows and Leaves say of that one what its    *)
(* step has made of its locals, of the file and of the disk.                *)

Doing(w) ==
  /\ pc[w] \in {"open", "write", "sync", "validate", "create", "fill"} => ~op[w].atomic_replace
  /\ pc[w] \in {"create", "fill"} => op[w].content = Model /\ ~op[w].durable_write
  /\ pc[w] \in {"rename", "flush"} => op[w].atomic_replace
  /\ pc[w] = "flush" => op[w].durable_write
  /\ pc[w] = "copy" => backup[Main] = Torn /\ op[w].from = Main
  /\ pc[w] \in {"write", "fill", "sync", "restoring"} => op[w].out = Main
  /\ pc[w] \in {"restore", "restoring"} => op[w].backup_path
  /\ pc[w] \in BeforeBackup => ~op[w].backup_path
Shows(w) ==
  /\ pc[w] \in {"prepare", "backup", "copy", "open", "rename", "create"} => now[Main] \in live
  /\ pc[w] \in {"write", "fill", "restoring"} => now[Main] = Torn
  /\ pc[w] \in {"sync", "validate", "flush", "readback", "restore"} =>
       now[Main] = op[w].content \/ (~op[w].atomic_replace /\ now[Main] = Torn)
  /\ op[w].backup_path => backup[Main] \in live
Leaves(w) ==
  /\ MayLeave(op[w]) \subseteq safe
  /\ op[w].backup_path => backup[Main] \in safe
  /\ pc[w] \in {"restore", "restoring"} => Torn \in safe
  /\ op[w].durable_write =>
       /\ pc[w] \in {"validate", "readback"} /\ ~op[w].atomic_replace => disk[Main] = {now[Main]}
       /\ pc[w] \in {"flush", "readback"} /\ op[w].atomic_replace => disk[Main] = {op[w].content}
       /\ pc[w] = "readback" /\ op[w].atomic_replace => older[Main] = {}
Working(w) == Doing(w) /\ Shows(w) /\ Leaves(w)

OnDisk == now[Main] \in disk[Main] /\ disk[Main] \union older[Main] \subseteq safe
AtRest == (\A w \in Writers : ~Busy(w)) => now[Main] \in live
DiskInv ==
  /\ link = Names \ {Main} /\ OnDisk /\ AtRest
  /\ \A w \in Writers : (Busy(w) => Working(w)) /\ (pc[w] \in BeforeBackup => ~op[w].backup_path)
FileInv == GuardInv /\ IdleUnguarded /\ Reported /\ DiskInv

LEMMA OneBusy ==
  ASSUME GuardInv, IdleUnguarded, NEW v \in Writers, NEW w \in Writers, Busy(v), v # w
  PROVE  /\ ~Busy(w)
         /\ pc[w] = "compare" => FALSE
<1>1. pc[v] \in Writing \union {"create", "fill"} /\ pc[v] \notin {"idle", "returned", "compare"}
  BY DEF Busy, Writing, GuardInv, Typed, WritingOK, WritersTypeOK, AllSteps, Steps
<1>2. ASSUME pc[w] \notin {"idle", "returned", "mutex", "flock"} PROVE FALSE
  <2>1. pc[w] \in Writing \union {"create", "fill", "compare"}
    BY <1>2 DEF Writing, GuardInv, Typed, WritingOK, WritersTypeOK, AllSteps, Steps
  <2>2. Guarded(v) /\ Guarded(w)
    BY <1>1, <1>2 DEF GuardInv, AloneUnguarded, Idle
  <2>3. pc[v] \in Writing /\ pc[w] \in Writing \union {"compare"}
    BY <1>1, <2>1, <2>2 DEF IdleUnguarded
  <2> QED BY <2>2, <2>3 DEF GuardInv, HoldsLock
<1> QED BY <1>2 DEF Busy

\* What the steps of a write, or of a default, share.
Acting(w) ==
  /\ Working(w) /\ OnDisk /\ pc[w] \in Writing \union {"create", "fill"}
  /\ pc \in [Writers -> AllSteps] /\ op \in [Writers -> Ops] /\ Reported
  /\ now \in [Names -> Images] /\ backup \in [Names -> Images]
  /\ disk \in [Names -> SUBSET Images] /\ older \in [Names -> SUBSET Images]
  /\ Main \in Names /\ op[w].path = Main /\ Where(Main) = Main /\ op[w].content \in Contents
  /\ op'[w].content = op[w].content /\ op'[w].atomic_replace = op[w].atomic_replace
  /\ op'[w].durable_write = op[w].durable_write /\ MayLeave(op'[w]) = MayLeave(op[w])

\* What they have to establish.
Acted(w) == OnDisk /\ IF pc[w] = "returned" THEN now[Main] \in live ELSE Working(w)

LEMMA FailedActs ==
  ASSUME NEW w \in Writers, Acting(w), UNCHANGED <<now, disk, older, safe>>,
         live' = live \union InDoubt(w), pc'[w] = "returned"
  PROVE  Acted(w)'
<1>1. now[Main] \in live \union InDoubt(w)
  BY DEF Acting, Working, Doing, Shows, InDoubt, InPlace, Writing, Steps
<1> QED BY <1>1 DEF Acted, Acting, OnDisk

QuietStep(w, s) ==
  /\ <<pc[w], s>> \in Quiet \ {<<"sync", "validate">>, <<"flush", "readback">>,
                               <<"validate", "restore">>, <<"readback", "restore">>}
  /\ s = "open" => ~op[w].atomic_replace
  /\ s = "rename" => op[w].atomic_replace
  /\ <<pc[w], s>> = <<"write", "validate">> => ~op[w].durable_write

LEMMA QuietActs ==
  ASSUME NEW w \in Writers, Acting(w), NEW s, QuietStep(w, s), UNCHANGED <<files, op, live, safe>>,
         pc' = [pc EXCEPT ![w] = s]
  PROVE  Acted(w)'
<1>1. pc'[w] = s /\ s # "returned"
  BY DEF Acting, QuietStep, Quiet
<1>2. UNCHANGED <<now, backup, disk, older>>
  BY DEF files
<1>3. Doing(w)'
  BY <1>1, <1>2 DEF Acting, Working, Doing, QuietStep, Quiet, BeforeBackup
<1>4. Shows(w)'
  BY <1>1, <1>2 DEF Acting, Working, Doing, Shows, QuietStep, Quiet
<1>5. Leaves(w)'
  <2>1. MayLeave(op[w])' \subseteq safe'
    BY DEF Acting, Working, Leaves
  <2>2. op'[w].backup_path => backup'[Main] \in safe'
    BY <1>2 DEF Acting, Working, Leaves
  <2>3. op[w].durable_write /\ s = "readback" => ~op[w].atomic_replace /\ disk[Main] = {now[Main]}
    BY DEF Acting, Working, Doing, Leaves, QuietStep, Quiet
  <2>4. s = "validate" => ~op[w].durable_write
    BY DEF QuietStep, Quiet
  <2>5. s \notin {"restore", "restoring", "flush"}
    BY DEF QuietStep, Quiet
  <2> QED BY <1>1, <1>2, <2>1, <2>2, <2>3, <2>4, <2>5 DEF Leaves
<1> QED BY <1>1, <1>2, <1>3, <1>4, <1>5 DEF Acted, Acting, OnDisk, Working

LEMMA SyncActs ==
  ASSUME NEW w \in Writers, Acting(w), SyncTarget(w), UNCHANGED history
  PROVE  Acted(w)'
<1>1. /\ pc'[w] = "validate" /\ UNCHANGED <<now, backup, op, live, safe>>
      /\ ~op[w].atomic_replace /\ op[w].out = Main
  BY DEF SyncTarget, Goto, Acting, Working, Doing, history
<1>2. Main # Gone
  BY HandlesAssumption DEF Acting
<1>3. disk'[Main] = {now[Main]} /\ older'[Main] \subseteq older[Main]
  BY <1>1, <1>2 DEF SyncTarget, Acting
<1>4. OnDisk'
  BY <1>1, <1>3 DEF OnDisk, Acting
<1>5. pc[w] = "sync"
  BY DEF SyncTarget
<1>6. Doing(w)'
  BY <1>1 DEF Doing, BeforeBackup
<1>7. Shows(w)'
  BY <1>1, <1>5 DEF Acting, Working, Shows
<1>8. Leaves(w)'
  BY <1>1, <1>3 DEF Acting, Working, Leaves
<1> QED BY <1>1, <1>4, <1>6, <1>7, <1>8 DEF Acted, Working

LEMMA FlushActs ==
  ASSUME NEW w \in Writers, Acting(w), FlushParent(w), UNCHANGED history
  PROVE  Acted(w)'
<1>1. /\ pc[w] = "flush" /\ pc'[w] = "readback" /\ UNCHANGED <<now, disk, backup, op, live, safe>>
      /\ op[w].atomic_replace /\ op[w].durable_write /\ older'[Main] = {}
  BY DEF FlushParent, Goto, Acting, Working, Doing, history
<1>2. OnDisk'
  BY <1>1 DEF OnDisk, Acting
<1>3. Doing(w)' /\ Shows(w)'
  BY <1>1 DEF Acting, Working, Doing, Shows, BeforeBackup
<1>4. Leaves(w)'
  BY <1>1 DEF Acting, Working, Leaves
<1> QED BY <1>1, <1>2, <1>3, <1>4 DEF Acted, Working

\* The backup is a copy of a file that is whole, or as acknowledged.
LEMMA BackupActs ==
  ASSUME NEW w \in Writers, Acting(w), OpenBackup(w) \/ CopyBackup(w), UNCHANGED history
  PROVE  Acted(w)'
<1>1. /\ pc[w] \in {"backup", "copy"} /\ UNCHANGED <<now, disk, older, live, safe>>
      /\ ~op[w].backup_path /\ now[Main] \in live
  BY DEF OpenBackup, CopyBackup, Acting, Working, Doing, Shows, BeforeBackup, history
<1>2. OnDisk'
  BY <1>1 DEF OnDisk, Acting
<1>3. CASE OpenBackup(w)
  <2>1. /\ pc'[w] = "copy" /\ backup'[Main] = Torn /\ op'[w].from = Main /\ ~op'[w].backup_path
    BY <1>1, <1>3 DEF OpenBackup, Goto, Acting, Ops
  <2>2. Doing(w)' /\ Shows(w)'
    BY <1>1, <2>1 DEF Doing, Shows
  <2>3. Leaves(w)'
    BY <1>1, <2>1 DEF Acting, Working, Leaves
  <2> QED BY <1>2, <2>1, <2>2, <2>3 DEF Acted, Working
<1>4. CASE CopyBackup(w)
  <2>1. pc[w] = "copy" /\ backup[Main] = Torn /\ op[w].from = Main
    BY <1>4 DEF CopyBackup, Acting, Working, Doing
  <2>2. Main # Gone
    BY HandlesAssumption DEF Acting
  <2>3. backup'[Main] = now[Main]
    BY <1>4, <2>1, <2>2 DEF CopyBackup, Acting, Written
  <2>4. /\ pc'[w] \in {"rename", "open"}
        /\ pc'[w] = "open" => ~op'[w].atomic_replace
        /\ pc'[w] = "rename" => op'[w].atomic_replace
    BY <1>4 DEF CopyBackup, AfterBackup, Goto, Acting
  <2>5. Doing(w)'
    BY <2>4 DEF Doing, BeforeBackup
  <2>6. Shows(w)'
    BY <1>1, <2>3, <2>4 DEF Shows
  <2>7. Leaves(w)'
    BY <1>1, <2>3, <2>4 DEF Acting, Working, Leaves, OnDisk
  <2> QED BY <1>2, <2>4, <2>5, <2>6, <2>7 DEF Acted, Working
<1> QED BY <1>3, <1>4

\* A file that is opened for writing is torn, on the disk too.
LEMMA TruncateActs ==
  ASSUME NEW w \in Writers, Acting(w), Truncate(w), Torn \in safe, UNCHANGED safe
  PROVE  /\ now'[Main] = Torn /\ OnDisk' /\ backup' = backup
         /\ op'[w].out = Main /\ op'[w].backup_path = op[w].backup_path
<1>1. /\ now'[Main] = Torn /\ backup' = backup
      /\ op'[w].out = Main /\ op'[w].backup_path = op[w].backup_path
  BY DEF Truncate, Acting, Ops
<1>2. Torn \in disk'[Main] /\ disk'[Main] \subseteq disk[Main] \union {Torn}
  BY DEF Truncate, Acting
<1>3. older'[Main] \subseteq older[Main] \union disk[Main]
  BY DEF Truncate, Acting
<1> QED BY <1>1, <1>2, <1>3 DEF OnDisk, Acting

\* What is written into a torn file replaces it.
LEMMA FillActs ==
  ASSUME NEW w \in Writers, Acting(w), NEW c \in Images, Fill(w, c), op[w].out = Main,
         now[Main] = Torn, c \in safe, UNCHANGED safe
  PROVE  now'[Main] = c /\ OnDisk' /\ UNCHANGED <<backup, older>>
<1>1. Main # Gone
  BY HandlesAssumption DEF Acting
<1>2. UNCHANGED <<backup, older>> /\ \E image \in Written(now[Main], c) :
        /\ now' = [now EXCEPT ![Main] = image]
        /\ disk' = [disk EXCEPT ![Main] = @ \union {image}]
  BY <1>1 DEF Fill
<1>3. now'[Main] = c /\ disk'[Main] = disk[Main] \union {c}
  BY <1>2 DEF Written, Acting
<1> QED BY <1>2, <1>3 DEF OnDisk, Acting

LEMMA OpenActs ==
  ASSUME NEW w \in Writers, Acting(w), Truncate(w), UNCHANGED history, ~op[w].atomic_replace,
         \/ pc[w] = "open" /\ pc'[w] = "write"
         \/ pc[w] = "create" /\ pc'[w] = "fill"
  PROVE  Acted(w)'
<1>1. UNCHANGED <<live, safe>> /\ Torn \in safe
  BY DEF history, Acting, Working, Leaves, MayLeave
<1>2. /\ now'[Main] = Torn /\ OnDisk' /\ backup' = backup
      /\ op'[w].out = Main /\ op'[w].backup_path = op[w].backup_path
  BY <1>1, TruncateActs
<1>3. Doing(w)'
  <2>1. pc'[w] = "fill" => op[w].content = Model /\ ~op[w].durable_write
    BY DEF Acting, Working, Doing
  <2>2. ~op'[w].atomic_replace /\ op'[w].content = op[w].content
        /\ op'[w].durable_write = op[w].durable_write /\ pc'[w] \in {"write", "fill"}
    BY DEF Acting
  <2> QED BY <1>2, <2>1, <2>2 DEF Doing, BeforeBackup
<1>4. Shows(w)'
  BY <1>1, <1>2 DEF Acting, Working, Shows
<1>5. Leaves(w)'
  BY <1>1, <1>2 DEF Acting, Working, Leaves
<1> QED BY <1>2, <1>3, <1>4, <1>5 DEF Acted, Working

LEMMA WriteTargetActs ==
  ASSUME NEW w \in Writers, Acting(w), WriteTarget(w), UNCHANGED history
  PROVE  Acted(w)'
<1>1. /\ pc[w] = "write" /\ UNCHANGED <<op, live, safe>> /\ ~op[w].atomic_replace
      /\ op[w].out = Main /\ now[Main] = Torn
      /\ pc'[w] = IF op[w].durable_write THEN "sync" ELSE "validate"
  BY DEF WriteTarget, Goto, Acting, Working, Doing, Shows, history
<1>2. op[w].content \in safe /\ op[w].content \in Images
  BY DEF Acting, Working, Leaves, MayLeave, Images
<1>3. now'[Main] = op[w].content /\ OnDisk' /\ UNCHANGED <<backup, older>>
  BY <1>1, <1>2, FillActs DEF WriteTarget
<1>4. pc'[w] \in {"sync", "validate"} /\ (pc'[w] = "validate" => ~op[w].durable_write)
  BY <1>1
<1>5. Doing(w)'
  BY <1>1, <1>4 DEF Doing, BeforeBackup
<1>6. Shows(w)'
  BY <1>1, <1>3, <1>4 DEF Acting, Working, Shows
<1>7. Leaves(w)'
  BY <1>1, <1>3, <1>4 DEF Acting, Working, Leaves
<1> QED BY <1>3, <1>4, <1>5, <1>6, <1>7 DEF Acted, Working

LEMMA RenameActs ==
  ASSUME NEW w \in Writers, Acting(w), Rename(w), UNCHANGED history
  PROVE  Acted(w)'
<1>1. /\ pc[w] = "rename" /\ UNCHANGED <<backup, live, safe>> /\ op[w].atomic_replace
      /\ op'[w].backup_path = op[w].backup_path /\ now'[Main] = op[w].content
      /\ pc'[w] = IF op[w].durable_write THEN "flush" ELSE "readback"
  BY DEF Rename, LoseName, Goto, Acting, Working, Doing, history, Ops
<1>2. /\ older'[Main] = older[Main] \union disk[Main]
      /\ disk'[Main] = IF op[w].durable_write THEN {op[w].content} ELSE {op[w].content, Torn}
  BY DEF Rename, Acting
<1>3. OnDisk'
  BY <1>1, <1>2 DEF OnDisk, Acting, Working, Leaves, MayLeave
<1>4. pc'[w] \in {"flush", "readback"} /\ (pc'[w] = "flush" <=> op[w].durable_write)
  BY <1>1
<1>5. Doing(w)'
  BY <1>1, <1>4 DEF Acting, Doing, BeforeBackup
<1>6. Shows(w)'
  BY <1>1, <1>4 DEF Acting, Working, Shows
<1>7. Leaves(w)'
  BY <1>1, <1>2, <1>4 DEF Acting, Working, Leaves
<1> QED BY <1>3, <1>4, <1>5, <1>6, <1>7 DEF Acted, Working

\* A durable write that is acknowledged leaves on the disk what it put there.
LEMMA AcknowledgedActs ==
  ASSUME NEW w \in Writers, Acting(w), pc[w] = "readback", now[Main] = op[w].content,
         UNCHANGED <<files, op>>, pc'[w] = "returned", Acknowledged(w)
  PROVE  Acted(w)'
<1>1. UNCHANGED <<now, disk, older>> /\ now'[Main] \in live'
  BY DEF files, Acknowledged
<1>2. CASE ~op[w].durable_write
  BY <1>1, <1>2 DEF Acknowledged, OnDisk, Acting, Acted
<1>3. CASE op[w].durable_write
  <2>1. disk[Main] = {op[w].content} /\ (op[w].atomic_replace => older[Main] = {})
    BY <1>3 DEF Acting, Working, Leaves
  <2> QED BY <1>1, <1>3, <2>1 DEF Acknowledged, OnDisk, Acted
<1> QED BY <1>2, <1>3

LEMMA GiveBackActs ==
  ASSUME NEW w \in Writers, Acting(w), pc[w] \in {"validate", "readback"}, op[w].backup_path,
         UNCHANGED <<files, op, live>>, pc'[w] = "restore", safe' = safe \union {Torn}
  PROVE  Acted(w)'
<1>1. UNCHANGED <<now, backup, disk, older>>
  BY DEF files
<1>2. OnDisk'
  BY <1>1 DEF OnDisk, Acting
<1>3. Doing(w)'
  BY DEF Doing, BeforeBackup
<1>4. Shows(w)'
  BY <1>1 DEF Acting, Working, Shows
<1>5. Leaves(w)'
  BY <1>1 DEF Acting, Working, Leaves
<1> QED BY <1>2, <1>3, <1>4, <1>5 DEF Acted, Working

LEMMA RestoreActs ==
  ASSUME NEW w \in Writers, Acting(w),
         \/ OpenRestore(w) /\ UNCHANGED history
         \/ CopyRestore(w) /\ live' = live \union InDoubt(w) /\ UNCHANGED safe
  PROVE  Acted(w)'
<1>1. Torn \in safe /\ op[w].backup_path /\ backup[Main] \in live \intersect safe /\ backup[Main] \in Images
  BY DEF OpenRestore, CopyRestore, Acting, Working, Doing, Shows, Leaves
<1>2. CASE OpenRestore(w) /\ UNCHANGED history
  <2>1. pc'[w] = "restoring" /\ UNCHANGED <<live, safe>>
    BY <1>2 DEF OpenRestore, Goto, Acting, history
  <2>2. /\ now'[Main] = Torn /\ OnDisk' /\ backup' = backup
        /\ op'[w].out = Main /\ op'[w].backup_path
    BY <1>1, <1>2, <2>1, TruncateActs DEF OpenRestore
  <2>3. Doing(w)' /\ Shows(w)'
    BY <1>1, <2>1, <2>2 DEF Doing, Shows, BeforeBackup
  <2>4. Leaves(w)'
    BY <1>1, <2>1, <2>2 DEF Acting, Working, Leaves
  <2> QED BY <2>1, <2>2, <2>3, <2>4 DEF Acted, Working
<1>3. CASE CopyRestore(w) /\ live' = live \union InDoubt(w) /\ UNCHANGED safe
  <2>1. op[w].out = Main /\ now[Main] = Torn /\ pc'[w] = "returned"
    BY <1>3 DEF CopyRestore, Return, Goto, Acting, Working, Doing, Shows
  <2>2. Fill(w, backup[Main])
    BY <1>3 DEF CopyRestore, Acting
  <2>3. now'[Main] = backup[Main] /\ OnDisk'
    BY <1>1, <1>3, <2>1, <2>2, FillActs
  <2> QED BY <1>1, <1>3, <2>1, <2>3 DEF Acted
<1> QED BY <1>2, <1>3

LEMMA WriteActs ==
  ASSUME NEW w \in Writers, Acting(w), Write(w)
  PROVE  Acted(w)'
<1> USE DEF Acting
<1>1. /\ WriteStep(w)
      /\ pc'[w] = "returned" /\ result'[w] = "ok" => Acknowledged(w)
      /\ pc'[w] = "returned" /\ result'[w] # "ok" => live' = live \union InDoubt(w) /\ UNCHANGED safe
      /\ pc'[w] = "restore" => safe' = safe \union {Torn} /\ UNCHANGED live
      /\ pc'[w] \notin {"returned", "restore"} => UNCHANGED history
  BY DEF Write
<1>2. \A s : pc' = [pc EXCEPT ![w] = s] => pc'[w] = s
  OBVIOUS
<1>3. ASSUME Return(w, "failed"), UNCHANGED files PROVE Acted(w)'
  <2>1. pc'[w] = "returned" /\ result'[w] # "ok"
    BY <1>3 DEF Return, Goto, Reported
  <2> QED BY <1>1, <1>3, <2>1, FailedActs DEF files
<1>4. CASE \/ FailTemp(w) \/ FailBackup(w) \/ FailTarget(w) \/ FailRename(w) \/ FailFlush(w)
           \/ FailRestore(w) \/ (PrepareTemp(w) /\ ~op[w].valid)
  BY <1>3, <1>4 DEF FailTemp, FailBackup, FailTarget, FailRename, FailFlush, FailRestore, PrepareTemp,
                    Fails
<1>5. CASE \/ (PrepareTemp(w) /\ op[w].valid) \/ SkipBackup(w) \/ LoseWrite(w)
           \/ (Validate(w) /\ op[w].valid)
  <2>1. PICK s \in {"backup", "rename", "open", "validate", "readback"} :
          QuietStep(w, s) /\ pc' = [pc EXCEPT ![w] = s]
    <3>1. CASE PrepareTemp(w) /\ op[w].valid
      BY <3>1 DEF PrepareTemp, Goto, Quiet, QuietStep
    <3>2. CASE SkipBackup(w)
      BY <3>2 DEF SkipBackup, AfterBackup, Goto, Quiet, QuietStep
    <3>3. CASE LoseWrite(w)
      BY <3>3 DEF LoseWrite, Goto, Quiet, QuietStep
    <3>4. CASE Validate(w) /\ op[w].valid
      BY <3>4 DEF Validate, Goto, Quiet, QuietStep
    <3> QED BY <1>5, <3>1, <3>2, <3>3, <3>4
  <2>2. UNCHANGED <<files, op>>
    BY <1>5 DEF PrepareTemp, SkipBackup, LoseWrite, Validate
  <2>3. UNCHANGED <<live, safe>>
    BY <1>1, <1>2, <2>1 DEF history
  <2> QED BY <2>1, <2>2, <2>3, QuietActs
<1>6. ASSUME pc[w] \in {"validate", "readback"}, GiveBack(w), UNCHANGED <<files, op>>
      PROVE  Acted(w)'
  <2>1. CASE op[w].backup_path
    <3>1. pc'[w] = "restore"
      BY <1>6, <2>1 DEF GiveBack, Goto
    <3> QED BY <1>1, <1>6, <2>1, <3>1, GiveBackActs
  <2> QED BY <1>3, <1>6, <2>1 DEF GiveBack
<1>7. CASE (Validate(w) /\ ~op[w].valid) \/ FailReadback(w)
           \/ (Readback(w) /\ Seen(op[w].path) # op[w].content)
  BY <1>6, <1>7 DEF Validate, FailReadback, Readback
<1>8. CASE Readback(w) /\ Seen(op[w].path) = op[w].content
  <2>1. pc[w] = "readback" /\ now[Main] = op[w].content /\ UNCHANGED <<files, op>>
    BY <1>8 DEF Readback, Seen
  <2>2. pc'[w] = "returned" /\ result'[w] = "ok"
    BY <1>8 DEF Readback, Return, Goto, Reported
  <2> QED BY <1>1, <2>1, <2>2, AcknowledgedActs
<1>9. CASE OpenBackup(w) \/ CopyBackup(w)
  <2>1. pc'[w] \notin {"returned", "restore"}
    BY <1>9 DEF OpenBackup, CopyBackup, AfterBackup, Goto
  <2> QED BY <1>1, <1>9, <2>1, BackupActs
<1>10. CASE OpenTarget(w)
  <2>1. pc[w] = "open" /\ pc'[w] = "write" /\ Truncate(w) /\ ~op[w].atomic_replace
    BY <1>10 DEF OpenTarget, Goto, Working, Doing
  <2> QED BY <1>1, <2>1, OpenActs
<1>11. CASE WriteTarget(w) \/ SyncTarget(w) \/ Rename(w) \/ FlushParent(w)
  <2>1. pc'[w] \notin {"returned", "restore"}
    BY <1>11 DEF WriteTarget, SyncTarget, Rename, FlushParent, Goto
  <2> QED BY <1>1, <1>11, <2>1, WriteTargetActs, SyncActs, RenameActs, FlushActs
<1>12. CASE OpenRestore(w)
  <2>1. pc'[w] \notin {"returned", "restore"}
    BY <1>12 DEF OpenRestore, Goto
  <2> QED BY <1>1, <1>12, <2>1, RestoreActs
<1>13. CASE CopyRestore(w)
  <2>1. pc'[w] = "returned" /\ result'[w] # "ok"
    BY <1>13 DEF CopyRestore, Return, Goto, Reported
  <2> QED BY <1>1, <1>13, <2>1, RestoreActs
<1> QED BY <1>1, <1>4, <1>5, <1>7, <1>8, <1>9, <1>10, <1>11, <1>12, <1>13 DEF WriteStep

\* One writer has acted; nobody else is at work.
LEMMA OneActs ==
  ASSUME GuardInv, IdleUnguarded, DiskInv, NEW w \in Writers, Busy(w), Acted(w)', link' = link,
         pc'[w] \in Writing \union {"fill", "returned"},
         \A v \in Writers \ {w} : pc'[v] = pc[v] /\ op'[v].backup_path = op[v].backup_path
  PROVE  DiskInv'
<1>1. \A v \in Writers \ {w} : ~Busy(v) /\ ~Busy(v)'
  BY OneBusy DEF Busy
<1>2. Busy(w)' \/ pc'[w] = "returned"
  BY DEF Busy, Writing, Steps
<1>3. OnDisk' /\ AtRest'
  BY <1>2 DEF Acted, AtRest, Busy
<1>4. Busy(w)' => Working(w)'
  BY DEF Acted, Busy
<1>5. \A v \in Writers : pc'[v] \in BeforeBackup => ~op'[v].backup_path
  <2>1. pc'[w] \in BeforeBackup => Busy(w)'
    BY DEF BeforeBackup, Busy, Writing, Steps
  <2>2. pc'[w] \in BeforeBackup => ~op'[w].backup_path
    BY <1>4, <2>1 DEF Working, Doing
  <2> QED BY <2>2 DEF DiskInv
<1> QED BY <1>1, <1>3, <1>4, <1>5 DEF DiskInv

LEMMA WriteKeepsLinks ==
  ASSUME NEW w \in Writers, link = Names \ {Main}, op[w].path = Main, WriteStep(w)
  PROVE  link' = link
<1>1. CASE Rename(w)
  BY <1>1 DEF Rename
<1>2. CASE OpenTarget(w) \/ OpenRestore(w) \/ WriteTarget(w) \/ CopyRestore(w)
  BY <1>2 DEF OpenTarget, OpenRestore, WriteTarget, CopyRestore, Truncate, Fill, files
<1> QED BY <1>1, <1>2
        DEF WriteStep, PrepareTemp, FailTemp, SkipBackup, OpenBackup, CopyBackup, FailBackup, LoseWrite,
            SyncTarget, FailTarget, Validate, FailRename, FlushParent, FailFlush, Readback, FailReadback,
            FailRestore, files

LEMMA IsActing ==
  ASSUME FileInv, NEW w \in Writers, Busy(w),
         op'[w].content = op[w].content, op'[w].atomic_replace = op[w].atomic_replace,
         op'[w].durable_write = op[w].durable_write
  PROVE  Acting(w)
<1>1. Typed /\ OpPaths /\ Working(w) /\ OnDisk /\ Reported
  BY DEF FileInv, GuardInv, DiskInv
<1>2. /\ pc \in [Writers -> AllSteps] /\ op \in [Writers -> Ops]
      /\ now \in [Names -> Images] /\ backup \in [Names -> Images]
      /\ disk \in [Names -> SUBSET Images] /\ older \in [Names -> SUBSET Images]
      /\ Main \in Names /\ Where(Main) = Main
  BY <1>1, NamesAssumption, MainIsItself DEF Typed, WritingOK, WritersTypeOK, FilesTypeOK
<1>3. op[w].path = Main /\ op[w].content \in Contents
  BY <1>1, <1>2 DEF OpPaths, Ops
<1>4. pc[w] \in Writing \union {"create", "fill"}
  BY <1>2 DEF Busy, Writing, AllSteps, Steps
<1>5. MayLeave(op'[w]) = MayLeave(op[w])
  BY DEF MayLeave
<1> QED BY <1>1, <1>2, <1>3, <1>4, <1>5 DEF Acting

LEMMA WriteOnDisk ==
  ASSUME FileInv, NEW w \in Writers, Write(w)
  PROVE  DiskInv'
<1>1. WriteStep(w) /\ WriterMoves(w) /\ Typed /\ Busy(w) /\ op[w].path = Main /\ link = Names \ {Main}
  <2>1. WriteStep(w) /\ WriterMoves(w)
    BY WriteMoves DEF Write, FileInv, GuardInv
  <2> QED BY <2>1 DEF WriterMoves, Writing, Steps, Busy, FileInv, GuardInv, OpPaths, DiskInv
<1>2. \A v \in Writers :
        /\ op'[v].content = op[v].content /\ op'[v].atomic_replace = op[v].atomic_replace
        /\ op'[v].durable_write = op[v].durable_write
        /\ v # w => op'[v].backup_path = op[v].backup_path
  BY <1>1, OptionsStay
<1>3. Acted(w)'
  BY <1>1, <1>2, IsActing, WriteActs
<1>4. pc'[w] \in Writing \union {"returned"} /\ \A v \in Writers \ {w} : pc'[v] = pc[v]
  BY <1>1 DEF WriterMoves, Typed, WritingOK, WritersTypeOK
<1> QED BY <1>1, <1>2, <1>3, <1>4, WriteKeepsLinks, OneActs DEF FileInv

LEMMA DefaultOnDisk ==
  ASSUME FileInv, NEW w \in Writers, CreateDefault(w) \/ FillDefault(w) \/ FailDefault(w)
  PROVE  DiskInv'
<1>1. pc[w] \in {"create", "fill"} /\ Busy(w) /\ link' = link /\ op \in [Writers -> Ops]
  BY DEF CreateDefault, FillDefault, FailDefault, Truncate, Fill, files, Busy,
         FileInv, GuardInv, Typed, WritingOK, WritersTypeOK
<1>2. \A v \in Writers :
        /\ op'[v].content = op[v].content /\ op'[v].atomic_replace = op[v].atomic_replace
        /\ op'[v].durable_write = op[v].durable_write /\ op'[v].backup_path = op[v].backup_path
  BY <1>1 DEF CreateDefault, FillDefault, FailDefault, Fails, Truncate, Ops
<1>3. Acting(w)
  BY <1>1, <1>2, IsActing
<1>4. pc \in [Writers -> AllSteps] /\ Doing(w) /\ Shows(w) /\ Leaves(w)
  BY <1>3 DEF Acting, Working
<1>5. Acted(w)'
  <2>1. CASE CreateDefault(w) /\ now[Main] = Absent
    <3>1. pc[w] = "create" /\ pc'[w] = "fill" /\ Truncate(w) /\ UNCHANGED history
      BY <1>4, <2>1 DEF CreateDefault, Goto
    <3>2. ~op[w].atomic_replace
      BY <1>4, <3>1 DEF Doing
    <3> QED BY <1>3, <3>1, <3>2, OpenActs
  <2>2. CASE CreateDefault(w) /\ now[Main] # Absent
    <3>1. pc'[w] = "returned" /\ UNCHANGED <<now, disk, older, live, safe>> /\ now[Main] \in live
      BY <1>4, <2>2 DEF CreateDefault, Return, Goto, files, history, Shows
    <3> QED BY <1>3, <3>1 DEF Acting, Acted, OnDisk
  <2>3. CASE FillDefault(w)
    <3>1. /\ pc'[w] = "returned" /\ Fill(w, Model) /\ live' = {Model} /\ UNCHANGED safe
          /\ op[w].out = Main /\ now[Main] = Torn /\ op[w].content = Model
      BY <1>4, <2>3 DEF FillDefault, Return, Goto, Doing, Shows
    <3>2. Model \in safe /\ Model \in Images
      BY <1>4, <3>1, ModelAssumption DEF Leaves, MayLeave, Images
    <3>3. now'[Main] = Model /\ OnDisk'
      BY <1>3, <3>1, <3>2, FillActs
    <3> QED BY <3>1, <3>3 DEF Acted
  <2>4. CASE FailDefault(w)
    BY <1>3, <1>4, <2>4, FailedActs DEF FailDefault, Fails, Return, Goto, files
  <2> QED BY <2>1, <2>2, <2>3, <2>4
<1>6. pc'[w] \in {"fill", "returned"} /\ \A v \in Writers \ {w} : pc'[v] = pc[v]
  BY <1>4 DEF CreateDefault, FillDefault, FailDefault, Fails, Return, Goto
<1> QED BY <1>1, <1>2, <1>5, <1>6, OneActs DEF FileInv

\* A step of one who is not at work on the file.
LEMMA CalmStep ==
  ASSUME FileInv, UNCHANGED <<files, history>>,
         \A v \in Writers :
           /\ (Busy(v)' <=> Busy(v)) /\ (Busy(v) => pc'[v] = pc[v] /\ op'[v] = op[v])
           /\ pc'[v] \in BeforeBackup => ~op'[v].backup_path
  PROVE  DiskInv'
<1>1. UNCHANGED <<now, backup, disk, older, link, live, safe>>
  BY DEF files, history
<1>2. link' = Names \ {Main} /\ OnDisk' /\ AtRest'
  BY <1>1 DEF FileInv, DiskInv, OnDisk, AtRest
<1>3. ASSUME NEW v \in Writers, Busy(v)' PROVE Working(v)'
  <2>1. Working(v) /\ pc'[v] = pc[v] /\ op'[v] = op[v]
    BY <1>3 DEF FileInv, DiskInv
  <2> QED BY <1>1, <2>1 DEF Working, Doing, Shows, Leaves, MayLeave
<1> QED BY <1>2, <1>3 DEF DiskInv

LEMMA CallerStep ==
  ASSUME FileInv, NEW w \in Writers, UNCHANGED <<files, history>>, ~Busy(w), ~Busy(w)',
         \A v \in Writers \ {w} : pc'[v] = pc[v] /\ op'[v] = op[v],
         pc'[w] \in BeforeBackup => ~op'[w].backup_path
  PROVE  DiskInv'
<1>1. ASSUME NEW v \in Writers
      PROVE  /\ (Busy(v)' <=> Busy(v)) /\ (Busy(v) => pc'[v] = pc[v] /\ op'[v] = op[v])
             /\ pc'[v] \in BeforeBackup => ~op'[v].backup_path
  <2>1. CASE v = w
    BY <2>1
  <2>2. CASE v # w
    BY <2>2 DEF Busy, FileInv, DiskInv
  <2> QED BY <2>1, <2>2
<1> QED BY <1>1, CalmStep

\* A write begins when nobody is at work on the file.
LEMMA StartOnDisk ==
  ASSUME FileInv, NEW w \in Writers, \A v \in Writers : ~Busy(v), UNCHANGED <<files, live>>,
         safe' = safe \union MayLeave(op'[w]), ~op'[w].backup_path,
         NEW s \in {"prepare", "backup", "create"}, pc' = [pc EXCEPT ![w] = s],
         s = "create" => ~op'[w].atomic_replace /\ op'[w].content = Model /\ ~op'[w].durable_write,
         \A v \in Writers \ {w} : op'[v] = op[v]
  PROVE  DiskInv'
<1>1. UNCHANGED <<now, backup, disk, older, link>>
  BY DEF files
<1>2. pc'[w] = s /\ \A v \in Writers \ {w} : pc'[v] = pc[v]
  BY DEF FileInv, GuardInv, Typed, WritingOK, WritersTypeOK
<1>3. Busy(w)' /\ \A v \in Writers \ {w} : ~Busy(v)'
  BY <1>2 DEF Busy
<1>4. now[Main] \in live
  BY DEF FileInv, DiskInv, AtRest
<1>5. Working(w)'
  <2>1. Doing(w)'
    BY <1>2 DEF Doing
  <2>2. Shows(w)'
    BY <1>1, <1>2, <1>4 DEF Shows
  <2>3. Leaves(w)'
    BY <1>2 DEF Leaves, MayLeave
  <2> QED BY <2>1, <2>2, <2>3 DEF Working
<1>6. link' = Names \ {Main} /\ OnDisk'
  BY <1>1 DEF FileInv, DiskInv, OnDisk
<1>7. \A v \in Writers : pc'[v] \in BeforeBackup => ~op'[v].backup_path
  BY <1>2 DEF FileInv, DiskInv
<1> QED BY <1>3, <1>5, <1>6, <1>7 DEF DiskInv, AtRest

LEMMA TokenOnDisk ==
  ASSUME FileInv, NEW w \in Writers, NEW n \in Names, ReadFileVersion(w, n) \/ MissingFileVersion(w, n)
  PROVE  DiskInv'
<1>1. UNCHANGED <<files, pc, op, history>>
  BY DEF ReadFileVersion, MissingFileVersion, writeVars
<1> QED BY <1>1, CalmStep DEF Busy, FileInv, DiskInv

LEMMA CommitOnDisk ==
  ASSUME FileInv, NEW w \in Writers, NEW r \in VersionedRequests, WriteVersioned(w, r)
  PROVE  DiskInv'
<1>1. /\ pc \in [Writers -> AllSteps] /\ op \in [Writers -> Ops]
      /\ pc[w] = "idle" /\ UNCHANGED <<files, history>>
  BY DEF WriteVersioned, Idle, FileInv, GuardInv, Typed, WritingOK, WritersTypeOK
<1>2. PICK s \in {"mutex", "returned"} :
        /\ pc' = [pc EXCEPT ![w] = s]
        /\ IF s = "mutex" THEN op' = [op EXCEPT ![w] = NewOp(r)] ELSE op' = op
  BY DEF WriteVersioned, Refuse, Return, Goto
<1>3. /\ pc'[w] = s /\ (s = "mutex" => ~op'[w].backup_path)
      /\ \A v \in Writers \ {w} : pc'[v] = pc[v] /\ op'[v] = op[v]
  BY <1>1, <1>2 DEF NewOp
<1>4. ~Busy(w) /\ ~Busy(w)'
  BY <1>1, <1>3 DEF Busy
<1>5. pc'[w] \in BeforeBackup => ~op'[w].backup_path
  BY <1>3 DEF BeforeBackup
<1> QED BY <1>1, <1>3, <1>4, <1>5, CallerStep

LEMMA GuardOnDisk ==
  ASSUME FileInv, NEW w \in Writers,
         LockMutex(w) \/ LockFile(w) \/ FailGuard(w) \/ TargetMatchesToken(w)
  PROVE  DiskInv'
<1>1. pc[w] \in {"mutex", "flock", "compare"} /\ UNCHANGED <<files, op>> /\ ~op[w].backup_path
  BY DEF LockMutex, LockFile, FailGuard, TargetMatchesToken, Fails, FileInv, DiskInv, BeforeBackup
<1>2. pc \in [Writers -> AllSteps]
  BY DEF FileInv, GuardInv, Typed, WritingOK, WritersTypeOK
<1>3. ASSUME UNCHANGED history, NEW s \in {"flock", "compare", "returned"}, pc' = [pc EXCEPT ![w] = s]
      PROVE  DiskInv'
  <2>1. pc'[w] = s /\ \A v \in Writers \ {w} : pc'[v] = pc[v]
    BY <1>2, <1>3
  <2>2. ~Busy(w) /\ ~Busy(w)'
    BY <1>1, <2>1 DEF Busy
  <2> QED BY <1>1, <1>3, <2>1, <2>2, CallerStep
<1>4. CASE TargetMatchesToken(w) /\ Goto(w, FirstStep(op[w]))
  <2>1. CASE safe' = safe \union MayLeave(op[w]) /\ live' = live
    <3>1. \A v \in Writers : ~Busy(v)
      BY <1>1, <1>4, OneBusy DEF TargetMatchesToken, FileInv, Busy
    <3>2. PICK s \in {"prepare", "backup"} : pc' = [pc EXCEPT ![w] = s]
      BY <1>4 DEF Goto, FirstStep
    <3> QED BY <1>1, <2>1, <3>1, <3>2, StartOnDisk DEF MayLeave
  <2>2. CASE Return(w, "stale") /\ UNCHANGED safe
    BY <1>3, <1>4, <2>2 DEF TargetMatchesToken, Return, Goto, history
  <2> QED BY <1>4, <2>1, <2>2 DEF TargetMatchesToken
<1>5. CASE TargetMatchesToken(w) /\ Return(w, "stale") /\ UNCHANGED safe
  BY <1>3, <1>5 DEF TargetMatchesToken, Return, Goto, history
<1>6. CASE LockMutex(w) \/ LockFile(w) \/ FailGuard(w)
  BY <1>3, <1>6 DEF LockMutex, LockFile, FailGuard, Fails, Return, Goto, history
<1> QED BY <1>4, <1>5, <1>6 DEF TargetMatchesToken

LEMMA UnguardedOnDisk ==
  ASSUME OneFile, FileInv, NEW w \in Writers,
         EnsureDefault(w) \/ \E r \in PlainRequests : WriteUnguarded(w, r)
  PROVE  DiskInv'
<1>1. op \in [Writers -> Ops]
  BY DEF FileInv, GuardInv, Typed, WritingOK, WritersTypeOK
<1>2. \A v \in Writers : ~Busy(v)
  BY DEF EnsureDefault, WriteUnguarded, OneFile, Idle, Busy
<1>3. PICK r \in {NoWrite} \union PlainRequests, s \in {"prepare", "backup", "create"} :
        /\ op' = [op EXCEPT ![w] = NewOp(r)] /\ pc' = [pc EXCEPT ![w] = s]
        /\ safe' = safe \union MayLeave(r) /\ UNCHANGED <<files, live>>
        /\ s = "create" => r = NoWrite
  BY DEF EnsureDefault, WriteUnguarded, Goto, FirstStep
<1>4. op'[w] = NewOp(r) /\ \A v \in Writers \ {w} : op'[v] = op[v]
  BY <1>1, <1>3
<1>5. MayLeave(op'[w]) = MayLeave(r) /\ ~op'[w].backup_path
  BY <1>4 DEF NewOp, MayLeave
<1>6. s = "create" => ~op'[w].atomic_replace /\ op'[w].content = Model /\ ~op'[w].durable_write
  BY <1>3, <1>4 DEF NewOp, NoWrite
<1> QED BY <1>2, <1>3, <1>4, <1>5, <1>6, StartOnDisk

LEMMA FinishOnDisk ==
  ASSUME FileInv, NEW w \in Writers, Finish(w)
  PROVE  DiskInv'
<1>1. /\ pc \in [Writers -> AllSteps] /\ op \in [Writers -> Ops]
      /\ pc[w] = "returned" /\ UNCHANGED <<files, history>>
  BY DEF Finish, FileInv, GuardInv, Typed, WritingOK, WritersTypeOK
<1>2. pc'[w] = "idle" /\ \A v \in Writers \ {w} : pc'[v] = pc[v] /\ op'[v] = op[v]
  BY <1>1 DEF Finish, Goto
<1>3. ~Busy(w) /\ ~Busy(w)'
  BY <1>1, <1>2 DEF Busy
<1>4. pc'[w] \notin BeforeBackup
  BY <1>2 DEF BeforeBackup
<1> QED BY <1>1, <1>2, <1>3, <1>4, CallerStep

\* What a process that dies was writing is in doubt.
LEMMA KillOnDisk ==
  ASSUME FileInv, NEW p \in Processes, Kill(p)
  PROVE  DiskInv'
<1> DEFINE W == {w \in Writers : ProcessOf[w] = p}
<1>1. /\ W \in SUBSET Writers /\ Dies(W) /\ UNCHANGED <<now, backup, disk, older, link, safe>>
      /\ live' = live \union UNION {InDoubt(w) : w \in {v \in W : Busy(v)}}
  BY DEF Kill, Dies
<1> HIDE DEF W
<1>2. \A v \in Writers : /\ v \in W => pc'[v] = "idle"
                         /\ v \notin W => pc'[v] = pc[v] /\ op'[v] = op[v]
  BY <1>1 DEF Dies
<1>3. \A v \in Writers : Busy(v)' => v \notin W /\ Busy(v)
  BY <1>2 DEF Busy
<1>4. link' = Names \ {Main} /\ OnDisk'
  BY <1>1 DEF FileInv, DiskInv, OnDisk
<1>5. live \subseteq live' /\ \A w \in W : Busy(w) => InDoubt(w) \subseteq live'
  BY <1>1
<1>6. AtRest'
  <2> SUFFICES ASSUME \A v \in Writers : ~Busy(v)' PROVE now'[Main] \in live'
    BY DEF AtRest
  <2>1. CASE \A v \in Writers : ~Busy(v)
    BY <1>1, <1>5, <2>1 DEF FileInv, DiskInv, AtRest
  <2>2. ASSUME NEW v \in Writers, Busy(v) PROVE now'[Main] \in live'
    <3>1. v \in W
      BY <1>2, <2>2 DEF Busy
    <3>2. Doing(v) /\ Shows(v) /\ pc[v] \in Writing \union {"create", "fill"}
      BY <2>2 DEF FileInv, DiskInv, Working, Busy, GuardInv, Typed, WritingOK, WritersTypeOK, Writing,
                  AllSteps, Steps
    <3>3. now[Main] \in live \union InDoubt(v)
      BY <3>2 DEF Doing, Shows, InDoubt, InPlace, Writing, Steps
    <3> QED BY <1>1, <1>5, <2>2, <3>1, <3>3
  <2> QED BY <2>1, <2>2
<1>7. ASSUME NEW v \in Writers, Busy(v)' PROVE Working(v)'
  <2>1. Working(v) /\ pc'[v] = pc[v] /\ op'[v] = op[v]
    BY <1>2, <1>3, <1>7 DEF FileInv, DiskInv
  <2>2. Doing(v)'
    BY <1>1, <2>1 DEF Working, Doing
  <2>3. Shows(v)'
    BY <1>1, <1>5, <2>1 DEF Working, Shows
  <2>4. Leaves(v)'
    BY <1>1, <2>1 DEF Working, Leaves, MayLeave
  <2> QED BY <2>2, <2>3, <2>4 DEF Working
<1>8. \A v \in Writers : pc'[v] \in BeforeBackup => ~op'[v].backup_path
  BY <1>2 DEF FileInv, DiskInv, BeforeBackup
<1> QED BY <1>4, <1>6, <1>7, <1>8 DEF DiskInv

LEMMA PowerLossOnDisk ==
  ASSUME FileInv, PowerLoss
  PROVE  DiskInv'
<1>1. /\ \A w \in Writers : pc'[w] = "idle"
      /\ link' = link /\ live' = {now'[Main]} /\ safe' = {now'[Main]}
      /\ disk' = [n \in Names |-> {now'[n]}] /\ older' = [n \in Names |-> {}]
  BY DEF PowerLoss, Dies
<1>2. disk'[Main] = {now'[Main]} /\ older'[Main] = {}
  BY <1>1, NamesAssumption
<1>3. \A w \in Writers : ~Busy(w)' /\ pc'[w] \notin BeforeBackup
  BY <1>1 DEF Busy, BeforeBackup
<1> QED BY <1>1, <1>2, <1>3 DEF FileInv, DiskInv, OnDisk, AtRest

LEMMA FileInit == Init => FileInv
<1> SUFFICES ASSUME Init PROVE FileInv
  OBVIOUS
<1>1. GuardInv /\ IdleUnguarded /\ Reported
  BY InitGuarded, ReportedInit DEF Init, IdleUnguarded, Guarded
<1>2. PICK c \in InitialImages :
        /\ now = [n \in Names |-> IF n = Main THEN c ELSE Absent]
        /\ live = {c} /\ safe = {c}
  BY DEF Init
<1>3. now[Main] = c /\ disk[Main] = {c} /\ older[Main] = {} /\ link = Names \ {Main}
  BY <1>2, NamesAssumption DEF Init
<1>4. \A w \in Writers : ~Busy(w) /\ pc[w] \notin BeforeBackup
  BY DEF Init, Busy, BeforeBackup
<1> QED BY <1>1, <1>2, <1>3, <1>4 DEF FileInv, DiskInv, OnDisk, AtRest

LEMMA FileNext ==
  ASSUME OneFile, FileInv, [Next]_vars
  PROVE  FileInv'
<1>1. GuardInv' /\ IdleUnguarded' /\ Reported'
  BY NextGuarded, NextIdle, ReportedNext DEF FileInv
<1>2. DiskInv'
  <2>1. CASE UNCHANGED vars
    <3>1. UNCHANGED <<files, history, pc, op>>
      BY <2>1 DEF vars, writeVars
    <3> QED BY <3>1, CalmStep DEF Busy, FileInv, DiskInv
  <2> QED BY <2>1, TokenOnDisk, CommitOnDisk, GuardOnDisk, UnguardedOnDisk, WriteOnDisk, DefaultOnDisk,
             FinishOnDisk, KillOnDisk, PowerLossOnDisk DEF Next, Thread
<1> QED BY <1>1, <1>2 DEF FileInv

\* Every path of an idle file shows what was acknowledged last, or what a write that was
\* not acknowledged has tried since, for any number of writers, failures and crashes.
THEOREM FileShowsTheAcknowledged ==
  ASSUME OneFile
  PROVE  Spec => []AcknowledgedIsVisible
<1>1. Init => FileInv
  BY FileInit
<1>2. FileInv /\ [Next]_vars => FileInv'
  BY FileNext
<1>3. FileInv => AcknowledgedIsVisible
  <2>1. FileInv => \A n \in Names : Seen(n) = now[Main]
    BY DEF FileInv, DiskInv, Seen, Where
  <2> QED BY <2>1 DEF FileInv, DiskInv, AtRest, AcknowledgedIsVisible
<1> QED BY <1>1, <1>2, <1>3, PTL DEF Spec

\* A power loss leaves the content of the last durable acknowledgement, or what later
\* writes may have made of it (write_durable_file, durable_file_write.cpp).
THEOREM PowerLossLeavesTheAcknowledged ==
  ASSUME OneFile
  PROVE  Spec => []AcknowledgedSurvives
<1>1. Init => FileInv
  BY FileInit
<1>2. FileInv /\ [Next]_vars => FileInv'
  BY FileNext
<1>3. FileInv => AcknowledgedSurvives
  BY DEF FileInv, DiskInv, OnDisk, AcknowledgedSurvives
<1> QED BY <1>1, <1>2, <1>3, PTL DEF Spec
-----------------------------------------------------------------------------
(* AppRoots *)

(* Numbers and sequences *)

\* A set of natural numbers that is not empty has a least one.
LEMMA LeastNumber ==
  ASSUME NEW S, S \subseteq Nat, S # {}
  PROVE  \E m \in S : \A n \in S : m <= n
<1> DEFINE Less == OpToRel(<, Nat)
<1>1. \A m, n \in Nat : m < n => <<m, n>> \in Less
  BY DEF OpToRel
<1>. HIDE DEF Less
<1>2. IsWellFoundedOn(Less, Nat)
  BY NatLessThanWellFounded DEF Less
<1>3. PICK m \in S : \A n \in S : ~ (<<n, m>> \in Less)
  BY <1>2, WFMin
<1>4. \A n \in S : ~ (n < m)
  BY <1>1, <1>3
<1>. QED  BY <1>4

LEMMA PrefixElements ==
  ASSUME NEW S, NEW s \in Seq(S), NEW t \in Seq(S)
  PROVE  IsPrefix(s, t) <=> Len(s) <= Len(t) /\ \A i \in 1 .. Len(s) : s[i] = t[i]
<1>1. ASSUME Len(s) <= Len(t), SubSeq(s, 1, Len(s)) = SubSeq(t, 1, Len(s)), NEW i \in 1 .. Len(s)
      PROVE  s[i] = t[i]
  <2>1. SubSeq(s, 1, Len(s))[i] = s[i] /\ SubSeq(t, 1, Len(s))[i] = t[i]
    BY <1>1
  <2>. QED  BY <1>1, <2>1
<1>2. ASSUME Len(s) <= Len(t), \A i \in 1 .. Len(s) : s[i] = t[i]
      PROVE  SubSeq(s, 1, Len(s)) = SubSeq(t, 1, Len(s))
  <2>1. SubSeq(s, 1, Len(s)) = [i \in 1 .. Len(s) |-> s[i]] /\ SubSeq(t, 1, Len(s)) = [i \in 1 .. Len(s) |-> t[i]]
    BY <1>2
  <2>. QED  BY <1>2, <2>1
<1>. QED  BY <1>1, <1>2 DEF IsPrefix

LEMMA PrefixIsOrder ==
  ASSUME NEW S, NEW r \in Seq(S), NEW s \in Seq(S), NEW t \in Seq(S)
  PROVE  /\ IsPrefix(s, s)
         /\ IsPrefix(r, s) /\ IsPrefix(s, t) => IsPrefix(r, t)
         /\ IsPrefix(r, t) /\ IsPrefix(s, t) => IsPrefix(r, s) \/ IsPrefix(s, r)
         /\ IsPrefix(r, s) /\ IsPrefix(s, r) => r = s
         /\ IsPrefix(r, s) /\ Len(r) = Len(s) => r = s
         /\ IsPrefix(r, s) => Len(r) <= Len(s)
<1>1. IsPrefix(s, s) /\ (IsPrefix(r, s) => Len(r) <= Len(s))
  BY PrefixElements
<1>2. IsPrefix(r, s) /\ IsPrefix(s, t) => IsPrefix(r, t)
  BY PrefixElements
<1>3. IsPrefix(r, t) /\ IsPrefix(s, t) => IsPrefix(r, s) \/ IsPrefix(s, r)
  BY PrefixElements
<1>4. IsPrefix(r, s) /\ Len(r) = Len(s) => r = s
  <2> SUFFICES ASSUME IsPrefix(r, s), Len(r) = Len(s) PROVE r = s
    OBVIOUS
  <2>1. \A i \in 1 .. Len(r) : r[i] = s[i]
    BY PrefixElements
  <2>. QED  BY <2>1, SeqEqual
<1>5. IsPrefix(r, s) /\ IsPrefix(s, r) => r = s
  BY PrefixElements, <1>4
<1>. QED  BY <1>1, <1>2, <1>3, <1>4, <1>5

\* Induction over 0 .. N, as a statement about sets.
LEMMA UpTo ==
  ASSUME NEW N \in Nat, NEW T, 0 \in T, \A n \in 0 .. (N - 1) : n \in T => n + 1 \in T
  PROVE  0 .. N \subseteq T
<1> SUFFICES ASSUME (0 .. N) \ T # {} PROVE FALSE
  OBVIOUS
<1> DEFINE left == (0 .. N) \ T
<1>1. PICK m \in left : \A n \in left : m <= n
  <2>1. left \subseteq Nat /\ left # {}
    OBVIOUS
  <2>. QED  BY <2>1, LeastNumber
<1>2. m \in 1 .. N
  BY <1>1
<1>3. m - 1 \in 0 .. (N - 1) /\ m - 1 \notin left
  BY <1>1, <1>2
<1>4. m - 1 \in T /\ (m - 1) + 1 = m
  BY <1>2, <1>3
<1>. QED  BY <1>1, <1>3, <1>4

\* A recursive function over 0 .. N exists.
LEMMA Recursion ==
  ASSUME NEW N \in Nat, NEW S, NEW base \in S, NEW step \in [1 .. N -> [S -> S]]
  PROVE  \E g \in [0 .. N -> S] : g[0] = base /\ \A n \in 1 .. N : g[n] = step[n][g[n - 1]]
<1> DEFINE Solves(g, k) == g[0] = base /\ \A n \in 1 .. k : g[n] = step[n][g[n - 1]]
           T == {k \in 0 .. N : \E g \in [0 .. k -> S] : Solves(g, k)}
<1>1. 0 \in T
  <2> DEFINE g == [n \in 0 .. 0 |-> base]
  <2>1. g \in [0 .. 0 -> S] /\ Solves(g, 0)
    OBVIOUS
  <2>2. \E h \in [0 .. 0 -> S] : Solves(h, 0)
    <3>. HIDE DEF Solves, g
    <3>. QED  BY <2>1
  <2>. HIDE DEF Solves
  <2>. QED  BY <2>2
<1>2. ASSUME NEW k \in 0 .. (N - 1), k \in T
      PROVE  k + 1 \in T
  <2>1. PICK g \in [0 .. k -> S] : Solves(g, k)
    BY <1>2
  <2> DEFINE h == [n \in 0 .. (k + 1) |-> IF n = k + 1 THEN step[n][g[k]] ELSE g[n]]
  <2>2. k + 1 \in 1 .. N /\ g[k] \in S
    OBVIOUS
  <2>3. step[k + 1][g[k]] \in S
    BY <2>2
  <2>0. k \in Nat /\ \A n \in 0 .. (k + 1) : n = k + 1 \/ n \in 0 .. k
    OBVIOUS
  <2>4. h \in [0 .. (k + 1) -> S]
    <3>1. \A n \in 0 .. (k + 1) : h[n] \in S
      BY <2>0, <2>3
    <3>. QED  BY <3>1
  <2>5. h[0] = base /\ h[k + 1] = step[k + 1][h[k]]
    <3>1. 0 \in 0 .. (k + 1) /\ k \in 0 .. (k + 1) /\ k + 1 \in 0 .. (k + 1) /\ (k + 1) - 1 = k /\ k # k + 1 /\ 0 # k + 1
      BY <2>0
    <3>2. h[0] = g[0] /\ h[k] = g[k] /\ h[k + 1] = step[k + 1][g[k]]
      BY <3>1
    <3>. QED  BY <2>1, <3>2
  <2>6. ASSUME NEW n \in 1 .. k
        PROVE  h[n] = step[n][h[n - 1]]
    <3>1. n \in 0 .. (k + 1) /\ n - 1 \in 0 .. (k + 1) /\ n # k + 1 /\ n - 1 # k + 1
      OBVIOUS
    <3>2. h[n] = g[n] /\ h[n - 1] = g[n - 1]
      BY <3>1
    <3>. QED  BY <2>1, <3>2
  <2>7. Solves(h, k + 1)
    <3>1. \A n \in 1 .. (k + 1) : n = k + 1 \/ n \in 1 .. k
      OBVIOUS
    <3>2. (k + 1) - 1 = k
      OBVIOUS
    <3>. HIDE DEF h
    <3>. QED  BY <2>5, <2>6, <3>1, <3>2
  <2>. HIDE DEF h, Solves
  <2>. QED  BY <2>2, <2>4, <2>7
<1>3. N \in T
  <2>. HIDE DEF T
  <2>1. 0 .. N \subseteq T
    BY <1>1, <1>2, UpTo
  <2>. QED  BY <2>1
<1>4. PICK g \in [0 .. N -> S] : Solves(g, N)
  BY <1>3
<1>. QED  BY <1>4

\* The last and the others of a sequence that is not empty.
LEMMA FrontLast ==
  ASSUME NEW S, NEW s \in Seq(S), s # <<>>
  PROVE  /\ Front(s) \in Seq(S) /\ Last(s) \in S /\ Len(Front(s)) = Len(s) - 1
         /\ \A i \in 1 .. (Len(s) - 1) : Front(s)[i] = s[i]
<1>1. Len(s) \in Nat \ {0} /\ \A i \in 1 .. Len(s) : s[i] \in S
  BY EmptySeq, ElementOfSeq
<1>2. \A i \in 1 .. (Len(s) - 1) : s[i] \in S
  BY <1>1
<1>3. /\ SubSeq(s, 1, Len(s) - 1) \in Seq(S)
      /\ Len(SubSeq(s, 1, Len(s) - 1)) = IF 1 <= Len(s) - 1 THEN (Len(s) - 1) - 1 + 1 ELSE 0
      /\ \A i \in 1 .. ((Len(s) - 1) - 1 + 1) : SubSeq(s, 1, Len(s) - 1)[i] = s[1 + i - 1]
  BY <1>1, <1>2, SubSeqProperties
<1>4. Last(s) \in S
  BY <1>1 DEF Last
<1>5. (IF 1 <= Len(s) - 1 THEN (Len(s) - 1) - 1 + 1 ELSE 0) = Len(s) - 1 /\ (Len(s) - 1) - 1 + 1 = Len(s) - 1
  <2> DEFINE n == Len(s)
  <2>1. n \in Nat \ {0}
    BY <1>1
  <2>. HIDE DEF n
  <2>2. (IF 1 <= n - 1 THEN (n - 1) - 1 + 1 ELSE 0) = n - 1 /\ (n - 1) - 1 + 1 = n - 1
    BY <2>1
  <2>. QED  BY <2>2 DEF n
<1>6. \A i \in 1 .. (Len(s) - 1) : 1 + i - 1 = i
  OBVIOUS
<1>. QED  BY <1>3, <1>4, <1>5, <1>6 DEF Front

LEMMA AppendElements ==
  ASSUME NEW S, NEW s \in Seq(S), NEW x \in S
  PROVE  /\ Append(s, x) \in Seq(S) /\ Len(Append(s, x)) = Len(s) + 1 /\ Append(s, x) # <<>>
         /\ Append(s, x)[Len(s) + 1] = x /\ \A i \in 1 .. Len(s) : Append(s, x)[i] = s[i]
         /\ IsPrefix(s, Append(s, x))
<1>1. /\ Append(s, x) \in Seq(S) /\ Len(Append(s, x)) = Len(s) + 1 /\ Len(s) \in Nat
      /\ Append(s, x)[Len(s) + 1] = x /\ \A i \in 1 .. Len(s) : Append(s, x)[i] = s[i]
  OBVIOUS
<1>2. Append(s, x) # <<>>
  BY <1>1
<1>3. IsPrefix(s, Append(s, x))
  <2>1. \A t \in Seq(S) : Len(s) <= Len(t) /\ (\A i \in 1 .. Len(s) : s[i] = t[i]) => IsPrefix(s, t)
    BY PrefixElements
  <2>2. Len(s) <= Len(Append(s, x)) /\ \A i \in 1 .. Len(s) : s[i] = Append(s, x)[i]
    BY <1>1
  <2>. QED  BY <1>1, <2>1, <2>2
<1>. QED  BY <1>1, <1>2, <1>3

-----------------------------------------------------------------------------
(* Normal forms *)

LEMMA NormalStepType ==
  ASSUME NEW S, NEW s \in Seq(S), NEW x \in S
  PROVE  NormalStep(s, x) \in Seq(S)
BY FrontLast, AppendElements DEF NormalStep

\* What the steps of Normal build.
NormalUpTo(p) == CHOOSE f : f = [n \in 0 .. Len(p) |-> IF n = 0 THEN <<>> ELSE NormalStep(f[n - 1], p[n])]

LEMMA NormalIsRecursive ==
  ASSUME NEW S, NEW p \in Seq(S)
  PROVE  /\ Normal(p) = NormalUpTo(p)[Len(p)]
         /\ NormalUpTo(p) \in [0 .. Len(p) -> Seq(S)] /\ NormalUpTo(p)[0] = <<>>
         /\ \A n \in 1 .. Len(p) : NormalUpTo(p)[n] = NormalStep(NormalUpTo(p)[n - 1], p[n])
<1> DEFINE N == Len(p)
           step == [n \in 1 .. N |-> [s \in Seq(S) |-> NormalStep(s, p[n])]]
           Body(f) == [n \in 0 .. N |-> IF n = 0 THEN <<>> ELSE NormalStep(f[n - 1], p[n])]
<1>1. N \in Nat /\ \A n \in 1 .. N : p[n] \in S
  BY ElementOfSeq
<1>2. step \in [1 .. N -> [Seq(S) -> Seq(S)]]
  BY <1>1, NormalStepType
<1>3. PICK g \in [0 .. N -> Seq(S)] : g[0] = <<>> /\ \A n \in 1 .. N : g[n] = step[n][g[n - 1]]
  <2> DEFINE X == Seq(S)
  <2>1. <<>> \in X
    BY EmptySeq
  <2>2. step \in [1 .. N -> [X -> X]]
    BY <1>2
  <2>3. N \in Nat
    BY <1>1
  <2>. HIDE DEF step, N, X
  <2> DEFINE Solved(M, Y, h, b) == \E g \in [0 .. M -> Y] : g[0] = b /\ \A n \in 1 .. M : g[n] = h[n][g[n - 1]]
  <2>4. Solved(N, X, step, <<>>)
    <3>1. \A M \in Nat : \A Y : \A b \in Y : \A h \in [1 .. M -> [Y -> Y]] : Solved(M, Y, h, b)
      BY Recursion
    <3>. HIDE DEF Solved
    <3>. QED  BY <2>1, <2>2, <2>3, <3>1, Zenon
  <2>5. \E g \in [0 .. N -> X] : g[0] = <<>> /\ \A n \in 1 .. N : g[n] = step[n][g[n - 1]]
    BY <2>4
  <2>. QED  BY <2>5 DEF X
<1>4. \A n \in 1 .. N : step[n][g[n - 1]] = NormalStep(g[n - 1], p[n])
  <2>1. \A n \in 1 .. N : n - 1 \in 0 .. N
    BY <1>1
  <2>2. \A n \in 1 .. N : \A s \in Seq(S) : step[n][s] = NormalStep(s, p[n])
    OBVIOUS
  <2>. HIDE DEF step
  <2>. QED  BY <2>1, <2>2
<1>5. g = Body(g)
  <2>1. \A n \in 0 .. N : n = 0 \/ n \in 1 .. N
    BY <1>1
  <2>2. \A n \in 0 .. N : g[n] = IF n = 0 THEN <<>> ELSE NormalStep(g[n - 1], p[n])
    <3>. HIDE DEF step, N
    <3>. QED  BY <1>3, <1>4, <2>1
  <2>3. g = [n \in 0 .. N |-> g[n]]
    OBVIOUS
  <2>. QED  BY <2>2, <2>3
<1>6. NormalUpTo(p) = Body(NormalUpTo(p))
  BY <1>5 DEF NormalUpTo
<1> DEFINE f == NormalUpTo(p)
<1>7. /\ DOMAIN f = 0 .. N /\ f[0] = <<>>
      /\ \A n \in 1 .. N : f[n] = NormalStep(f[n - 1], p[n])
  <2>1. f = Body(f)
    BY <1>6
  <2>. HIDE DEF f
  <2>2. DOMAIN f = 0 .. N /\ \A n \in 0 .. N : f[n] = IF n = 0 THEN <<>> ELSE NormalStep(f[n - 1], p[n])
    BY <2>1
  <2>. QED  BY <1>1, <2>2
<1>8. \A n \in 0 .. N : f[n] \in Seq(S)
  <2>. HIDE DEF f
  <2> DEFINE T == {n \in 0 .. N : f[n] \in Seq(S)}
  <2>1. 0 \in T
    <3>1. f[0] = <<>> /\ <<>> \in Seq(S) /\ 0 \in 0 .. N
      BY <1>1, <1>7, EmptySeq
    <3>. QED  BY <3>1
  <2>2. ASSUME NEW n \in 0 .. (N - 1), n \in T
        PROVE  n + 1 \in T
    <3>1. n + 1 \in 1 .. N /\ (n + 1) - 1 = n
      BY <1>1
    <3>2. f[n + 1] = NormalStep(f[n], p[n + 1]) /\ f[n] \in Seq(S) /\ p[n + 1] \in S
      BY <1>1, <1>7, <2>2, <3>1
    <3>3. f[n + 1] \in Seq(S)
      BY <3>2, NormalStepType
    <3>. QED  BY <1>1, <3>1, <3>3
  <2>3. 0 .. N \subseteq T
    <3>. HIDE DEF T
    <3>. QED  BY <1>1, <2>1, <2>2, UpTo
  <2>. QED  BY <2>3
<1>9. f \in [0 .. N -> Seq(S)]
  <2>1. f = [n \in 0 .. N |-> f[n]]
    BY <1>6
  <2>. HIDE DEF f
  <2>. QED  BY <1>8, <2>1
<1>10. Normal(p) = f[N]
  BY DEF Normal, NormalUpTo
<1>. QED  BY <1>7, <1>9, <1>10

LEMMA NormalType ==
  ASSUME NEW S, NEW p \in Seq(S)
  PROVE  Normal(p) \in Seq(S)
BY NormalIsRecursive

\* One more segment is one more step.
LEMMA NormalAppend ==
  ASSUME NEW S, NEW p \in Seq(S), NEW x \in S
  PROVE  Normal(Append(p, x)) = NormalStep(Normal(p), x)
<1> DEFINE r == Append(p, x)  f == NormalUpTo(p)  g == NormalUpTo(r)
<1>1. r \in Seq(S) /\ Len(r) = Len(p) + 1 /\ Len(p) \in Nat /\ r[Len(p) + 1] = x /\ \A i \in 1 .. Len(p) : r[i] = p[i]
  BY AppendElements
<1>2. /\ Normal(p) = f[Len(p)] /\ f[0] = <<>>
      /\ \A n \in 1 .. Len(p) : f[n] = NormalStep(f[n - 1], p[n])
  BY NormalIsRecursive
<1>3. /\ Normal(r) = g[Len(r)] /\ g[0] = <<>>
      /\ \A n \in 1 .. Len(r) : g[n] = NormalStep(g[n - 1], r[n])
  <2>. HIDE DEF r
  <2>. QED  BY <1>1, NormalIsRecursive
<1>. HIDE DEF r, f, g
<1> DEFINE T == {n \in 0 .. Len(p) : f[n] = g[n]}
<1>4. 0 \in T
  BY <1>1, <1>2, <1>3
<1>5. ASSUME NEW n \in 0 .. (Len(p) - 1), n \in T
      PROVE  n + 1 \in T
  <2>1. n + 1 \in 1 .. Len(p) /\ n + 1 \in 1 .. Len(r) /\ (n + 1) - 1 = n
    BY <1>1
  <2>2. f[n + 1] = NormalStep(f[n], p[n + 1]) /\ g[n + 1] = NormalStep(g[n], r[n + 1])
    BY <1>2, <1>3, <2>1
  <2>3. f[n] = g[n] /\ r[n + 1] = p[n + 1]
    BY <1>1, <1>5, <2>1
  <2>. QED  BY <1>1, <2>1, <2>2, <2>3
<1>6. f[Len(p)] = g[Len(p)]
  <2>1. 0 .. Len(p) \subseteq T
    <3>. HIDE DEF T
    <3>. QED  BY <1>1, <1>4, <1>5, UpTo
  <2>. QED  BY <1>1, <2>1
<1>7. Len(r) \in 1 .. Len(r) /\ Len(r) - 1 = Len(p)
  BY <1>1
<1>8. g[Len(r)] = NormalStep(g[Len(p)], x)
  BY <1>1, <1>3, <1>7
<1>. QED  BY <1>2, <1>3, <1>6, <1>8 DEF r

\* An absolute path stays absolute.
LEMMA NormalAbsolute ==
  ASSUME NEW S, NEW p \in Seq(S), IsAbsolute(p)
  PROVE  IsAbsolute(Normal(p))
<1> DEFINE f == NormalUpTo(p)
<1>1. /\ Normal(p) = f[Len(p)] /\ f \in [0 .. Len(p) -> Seq(S)] /\ f[0] = <<>>
      /\ \A n \in 1 .. Len(p) : f[n] = NormalStep(f[n - 1], p[n])
  BY NormalIsRecursive
<1>. HIDE DEF f
<1>2. p # <<>> /\ p[1] = "/" /\ Len(p) \in Nat \ {0} /\ \A n \in 1 .. Len(p) : p[n] \in S
  BY EmptySeq, ElementOfSeq DEF IsAbsolute
<1>3. ASSUME NEW s \in Seq(S), NEW x \in S, IsAbsolute(s)
      PROVE  IsAbsolute(NormalStep(s, x))
  <2>1. s # <<>> /\ s[1] = "/" /\ Len(s) \in Nat \ {0}
    BY <1>3, EmptySeq DEF IsAbsolute
  <2>2. IsAbsolute(Append(s, x))
    <3>1. Append(s, x)[1] = s[1] /\ Append(s, x) # <<>>
      BY <2>1, AppendElements
    <3>. QED  BY <2>1, <3>1 DEF IsAbsolute
  <2>3. CASE Len(s) = 1
    <3>1. s = <<"/">> /\ Last(s) = "/"
      BY <2>1, <2>3 DEF Last
    <3>. QED  BY <1>3, <2>2, <3>1 DEF NormalStep
  <2>4. CASE Len(s) # 1
    <3>1. Len(Front(s)) = Len(s) - 1 /\ Front(s) \in Seq(S) /\ Front(s)[1] = s[1]
      <4>1. 1 \in 1 .. (Len(s) - 1)
        <5> DEFINE n == Len(s)
        <5>1. n \in Nat \ {0} /\ n # 1
          BY <2>1, <2>4
        <5>. HIDE DEF n
        <5>2. 1 \in 1 .. (n - 1)
          BY <5>1
        <5>. QED  BY <5>2 DEF n
      <4>. QED  BY <2>1, <4>1, FrontLast
    <3>2. Front(s) # <<>>
      BY <2>1, <2>4, <3>1
    <3>3. IsAbsolute(Front(s))
      BY <2>1, <3>1, <3>2 DEF IsAbsolute
    <3>. QED  BY <1>3, <2>2, <3>3 DEF NormalStep
  <2>. QED  BY <2>3, <2>4
<1> DEFINE T == {n \in 0 .. Len(p) : n = 0 \/ IsAbsolute(f[n])}
<1>4. 0 \in T
  BY <1>2
<1>5. ASSUME NEW n \in 0 .. (Len(p) - 1), n \in T
      PROVE  n + 1 \in T
  <2>1. n + 1 \in 1 .. Len(p) /\ (n + 1) - 1 = n /\ f[n] \in Seq(S)
    <3>1. n \in 0 .. Len(p) /\ n + 1 \in 1 .. Len(p) /\ (n + 1) - 1 = n
      BY <1>2
    <3>. QED  BY <1>1, <3>1
  <2>2. f[n + 1] = NormalStep(f[n], p[n + 1]) /\ p[n + 1] \in S
    BY <1>1, <1>2, <2>1
  <2>3. CASE n = 0
    <3>1. f[n + 1] = NormalStep(<<>>, "/")
      BY <1>1, <1>2, <2>2, <2>3
    <3>2. NormalStep(<<>>, "/") = <<"/">>
      BY DEF NormalStep
    <3>3. IsAbsolute(<<"/">>)
      BY DEF IsAbsolute
    <3>4. n + 1 \in 0 .. Len(p) /\ IsAbsolute(f[n + 1])
      BY <1>2, <2>1, <3>1, <3>2, <3>3
    <3>. QED  BY <3>4
  <2>4. CASE n # 0
    BY <1>2, <1>3, <1>5, <2>1, <2>2, <2>4
  <2>. QED  BY <2>3, <2>4
<1>6. Len(p) \in T
  <2>1. 0 .. Len(p) \subseteq T
    <3>. HIDE DEF T
    <3>. QED  BY <1>2, <1>4, <1>5, UpTo
  <2>. QED  BY <1>2, <2>1
<1>. QED  BY <1>1, <1>2, <1>6

-----------------------------------------------------------------------------
(* Search paths *)

Candidates(P) == [path : P, selected : BOOLEAN]

DistinctUpTo(c) ==
  CHOOSE f : f = [n \in 0 .. Len(c) |-> IF n = 0 THEN <<>>
                                        ELSE IF c[n].selected /\ c[n].path \notin ToSet(f[n - 1])
                                             THEN Append(f[n - 1], c[n].path) ELSE f[n - 1]]

LEMMA DistinctIsRecursive ==
  ASSUME NEW P, NEW c \in Seq(Candidates(P))
  PROVE  /\ Distinct(c) = DistinctUpTo(c)[Len(c)]
         /\ DistinctUpTo(c)[0] = <<>>
         /\ \A n \in 1 .. Len(c) : DistinctUpTo(c)[n] =
              IF c[n].selected /\ c[n].path \notin ToSet(DistinctUpTo(c)[n - 1])
              THEN Append(DistinctUpTo(c)[n - 1], c[n].path) ELSE DistinctUpTo(c)[n - 1]
<1> DEFINE N == Len(c)
           Longer(s, n) == IF c[n].selected /\ c[n].path \notin ToSet(s) THEN Append(s, c[n].path) ELSE s
           step == [n \in 1 .. N |-> [s \in Seq(P) |-> Longer(s, n)]]
           Body(f) == [n \in 0 .. N |-> IF n = 0 THEN <<>> ELSE Longer(f[n - 1], n)]
<1>1. N \in Nat /\ \A n \in 1 .. N : c[n].path \in P
  <2>1. \A n \in 1 .. N : c[n] \in Candidates(P)
    BY ElementOfSeq
  <2>. QED  BY <2>1 DEF Candidates
<1>2. step \in [1 .. N -> [Seq(P) -> Seq(P)]]
  <2>1. \A n \in 1 .. N : \A s \in Seq(P) : Longer(s, n) \in Seq(P)
    BY <1>1, AppendElements
  <2>. HIDE DEF Longer
  <2>. QED  BY <2>1
<1>3. PICK g \in [0 .. N -> Seq(P)] : g[0] = <<>> /\ \A n \in 1 .. N : g[n] = step[n][g[n - 1]]
  <2> DEFINE X == Seq(P)
  <2>1. <<>> \in X
    BY EmptySeq
  <2>2. step \in [1 .. N -> [X -> X]]
    BY <1>2
  <2>3. N \in Nat
    BY <1>1
  <2>. HIDE DEF step, N, X
  <2> DEFINE Solved(M, Y, h, b) == \E g \in [0 .. M -> Y] : g[0] = b /\ \A n \in 1 .. M : g[n] = h[n][g[n - 1]]
  <2>4. Solved(N, X, step, <<>>)
    <3>1. \A M \in Nat : \A Y : \A b \in Y : \A h \in [1 .. M -> [Y -> Y]] : Solved(M, Y, h, b)
      BY Recursion
    <3>. HIDE DEF Solved
    <3>. QED  BY <2>1, <2>2, <2>3, <3>1, Zenon
  <2>. QED  BY <2>4 DEF X
<1>4. \A n \in 1 .. N : step[n][g[n - 1]] = Longer(g[n - 1], n)
  <2>1. \A n \in 1 .. N : n - 1 \in 0 .. N
    BY <1>1
  <2>2. \A n \in 1 .. N : \A s \in Seq(P) : step[n][s] = Longer(s, n)
    OBVIOUS
  <2>. HIDE DEF step, Longer
  <2>. QED  BY <2>1, <2>2
<1>5. g = Body(g)
  <2>1. \A n \in 0 .. N : n = 0 \/ n \in 1 .. N
    BY <1>1
  <2>2. \A n \in 0 .. N : g[n] = IF n = 0 THEN <<>> ELSE Longer(g[n - 1], n)
    <3>. HIDE DEF step, N, Longer
    <3>. QED  BY <1>3, <1>4, <2>1
  <2>3. g = [n \in 0 .. N |-> g[n]]
    OBVIOUS
  <2>. HIDE DEF Longer
  <2>. QED  BY <2>2, <2>3
<1>6. DistinctUpTo(c) = Body(DistinctUpTo(c))
  BY <1>5 DEF DistinctUpTo
<1> DEFINE f == DistinctUpTo(c)
<1>7. DOMAIN f = 0 .. N /\ \A n \in 0 .. N : f[n] = IF n = 0 THEN <<>> ELSE Longer(f[n - 1], n)
  <2>1. f = Body(f)
    BY <1>6
  <2>. HIDE DEF f, Longer
  <2>. QED  BY <2>1
<1>8. Distinct(c) = f[N]
  BY DEF Distinct, DistinctUpTo
<1>9. \A n \in 1 .. N : n \in 0 .. N /\ n # 0
  BY <1>1
<1>10. 0 \in 0 .. N
  BY <1>1
<1>. HIDE DEF f
<1>11. f[0] = <<>> /\ \A n \in 1 .. N : f[n] = Longer(f[n - 1], n)
  <2>. HIDE DEF Longer
  <2>. QED  BY <1>7, <1>9, <1>10
<1>. QED  BY <1>8, <1>11 DEF f

\* The selected candidates, each path once, in the order of their first ones.
InFirstOrder(c, n, s) ==
  /\ \A k, l \in 1 .. Len(s) : s[k] = s[l] => k = l
  /\ \A i \in 1 .. n : c[i].selected => \E k \in 1 .. Len(s) : s[k] = c[i].path
  /\ \A l \in 1 .. Len(s) : \E i \in 1 .. n : c[i].selected /\ c[i].path = s[l]
  /\ \A l \in 1 .. Len(s) : \A k \in 1 .. l : \A j \in 1 .. n :
       c[j].selected /\ c[j].path = s[l] => \E i \in 1 .. j : c[i].selected /\ c[i].path = s[k]

LEMMA FirstOrderKept ==
  ASSUME NEW P, NEW c \in Seq(Candidates(P)), NEW n \in 1 .. Len(c), NEW s \in Seq(P), InFirstOrder(c, n - 1, s),
         ~(c[n].selected /\ c[n].path \notin ToSet(s))
  PROVE  InFirstOrder(c, n, s)
<1>1. n \in Nat \ {0} /\ n \in 1 .. n /\ \A i \in 1 .. n : i = n \/ i \in 1 .. (n - 1)
  OBVIOUS
<1>2. \A i \in 1 .. (n - 1) : i \in 1 .. n
  BY <1>1
<1>3. c[n].selected => \E k \in 1 .. Len(s) : s[k] = c[n].path
  BY DEF ToSet
<1>4. \A i \in 1 .. n : c[i].selected => \E k \in 1 .. Len(s) : s[k] = c[i].path
  BY <1>1, <1>3 DEF InFirstOrder
<1>5. \A l \in 1 .. Len(s) : \E i \in 1 .. n : c[i].selected /\ c[i].path = s[l]
  BY <1>2 DEF InFirstOrder
<1>6. ASSUME NEW l \in 1 .. Len(s), NEW k \in 1 .. l, NEW j \in 1 .. n, c[j].selected, c[j].path = s[l]
      PROVE  \E i \in 1 .. j : c[i].selected /\ c[i].path = s[k]
  <2>1. CASE j \in 1 .. (n - 1)
    BY <1>6, <2>1 DEF InFirstOrder
  <2>2. CASE j = n
    <3>1. k \in 1 .. Len(s)
      OBVIOUS
    <3>. QED  BY <1>5, <2>2, <3>1
  <2>. QED  BY <1>1, <2>1, <2>2
<1>. QED  BY <1>4, <1>5, <1>6 DEF InFirstOrder

LEMMA FirstOrderExtended ==
  ASSUME NEW P, NEW c \in Seq(Candidates(P)), NEW n \in 1 .. Len(c), NEW s \in Seq(P), InFirstOrder(c, n - 1, s),
         c[n].path \in P, c[n].selected, c[n].path \notin ToSet(s)
  PROVE  InFirstOrder(c, n, Append(s, c[n].path))
<1> DEFINE p == c[n].path  t == Append(s, p)  L == Len(s)
<1>1. n \in Nat \ {0} /\ n \in 1 .. n /\ \A i \in 1 .. n : i = n \/ i \in 1 .. (n - 1)
  OBVIOUS
<1>2. \A i \in 1 .. (n - 1) : i \in 1 .. n
  BY <1>1
<1>3. /\ L \in Nat /\ Len(t) = L + 1 /\ t[L + 1] = p /\ \A i \in 1 .. L : t[i] = s[i]
      /\ \A i \in 1 .. L : s[i] # p
  <2>1. \A i \in 1 .. L : s[i] # p
    BY DEF ToSet
  <2>. QED  BY <2>1, AppendElements
<1>4. \A i \in 1 .. (L + 1) : i = L + 1 \/ i \in 1 .. L
  BY <1>3
<1>5. L + 1 \in 1 .. (L + 1) /\ \A i \in 1 .. L : i \in 1 .. (L + 1)
  BY <1>3
<1>6. /\ \A k, l \in 1 .. L : s[k] = s[l] => k = l
      /\ \A i \in 1 .. (n - 1) : c[i].selected => \E k \in 1 .. L : s[k] = c[i].path
      /\ \A l \in 1 .. L : \E i \in 1 .. (n - 1) : c[i].selected /\ c[i].path = s[l]
      /\ \A l \in 1 .. L : \A k \in 1 .. l : \A j \in 1 .. (n - 1) :
           c[j].selected /\ c[j].path = s[l] => \E i \in 1 .. j : c[i].selected /\ c[i].path = s[k]
  BY DEF InFirstOrder
<1>. HIDE DEF p, t, L
<1>7. \A k, l \in 1 .. (L + 1) : t[k] = t[l] => k = l
  <2>1. ASSUME NEW k \in 1 .. L, NEW l \in 1 .. L, t[k] = t[l]
        PROVE  k = l
    <3>1. t[k] = s[k] /\ t[l] = s[l]
      BY <1>3
    <3>2. \A i, j \in 1 .. L : s[i] = s[j] => i = j
      BY <1>6
    <3>. QED  BY <2>1, <3>1, <3>2
  <2>2. \A i \in 1 .. L : t[i] # t[L + 1]
    BY <1>3
  <2>. QED  BY <1>4, <2>1, <2>2
<1>8. \A i \in 1 .. n : c[i].selected => \E k \in 1 .. (L + 1) : t[k] = c[i].path
  <2>1. \A i \in 1 .. (n - 1) : c[i].selected => \E k \in 1 .. (L + 1) : t[k] = c[i].path
    BY <1>3, <1>5, <1>6
  <2>2. \E k \in 1 .. (L + 1) : t[k] = c[n].path
    BY <1>3, <1>5 DEF p
  <2>. QED  BY <1>1, <2>1, <2>2
<1>9. \A l \in 1 .. (L + 1) : \E i \in 1 .. n : c[i].selected /\ c[i].path = t[l]
  <2>1. \A l \in 1 .. L : \E i \in 1 .. n : c[i].selected /\ c[i].path = t[l]
    <3>1. \A l \in 1 .. L : \E i \in 1 .. (n - 1) : c[i].selected /\ c[i].path = s[l]
      BY <1>6
    <3>2. \A l \in 1 .. L : t[l] = s[l]
      BY <1>3
    <3>. QED  BY <1>2, <3>1, <3>2
  <2>2. \E i \in 1 .. n : c[i].selected /\ c[i].path = t[L + 1]
    BY <1>1, <1>3 DEF p
  <2>. QED  BY <1>4, <2>1, <2>2
<1>10. ASSUME NEW l \in 1 .. (L + 1), NEW k \in 1 .. l, NEW j \in 1 .. n, c[j].selected, c[j].path = t[l]
       PROVE  \E i \in 1 .. j : c[i].selected /\ c[i].path = t[k]
  <2>1. CASE l \in 1 .. L
    <3>1. k \in 1 .. L /\ t[l] = s[l] /\ t[k] = s[k]
      BY <1>3, <2>1
    <3>2. j # n
      BY <1>3, <1>10, <2>1, <3>1 DEF p
    <3>3. j \in 1 .. (n - 1)
      BY <1>1, <3>2
    <3>. QED  BY <1>6, <1>10, <2>1, <3>1, <3>3
  <2>2. CASE l = L + 1
    <3>1. j \notin 1 .. (n - 1)
      <4>1. c[j].path = p
        BY <1>3, <1>10, <2>2
      <4>2. j \in 1 .. (n - 1) => \E i \in 1 .. L : s[i] = c[j].path
        BY <1>6, <1>10
      <4>. QED  BY <1>3, <4>1, <4>2
    <3>2. j = n
      BY <1>1, <3>1
    <3>3. k \in 1 .. (L + 1)
      BY <2>2
    <3>. QED  BY <1>9, <3>2, <3>3
  <2>. QED  BY <1>4, <2>1, <2>2
<1>11. InFirstOrder(c, n, t)
  BY <1>3, <1>7, <1>8, <1>9, <1>10 DEF InFirstOrder
<1>. QED  BY <1>11 DEF t, p

LEMMA DistinctInFirstOrder ==
  ASSUME NEW P, NEW c \in Seq(Candidates(P))
  PROVE  Distinct(c) \in Seq(P) /\ InFirstOrder(c, Len(c), Distinct(c))
<1> DEFINE f == DistinctUpTo(c)  N == Len(c)
<1>1. N \in Nat /\ \A n \in 1 .. N : c[n].path \in P
  <2>1. \A n \in 1 .. N : c[n] \in Candidates(P)
    BY ElementOfSeq
  <2>. QED  BY <2>1 DEF Candidates
<1>2. /\ Distinct(c) = f[N] /\ f[0] = <<>>
      /\ \A n \in 1 .. N : f[n] = IF c[n].selected /\ c[n].path \notin ToSet(f[n - 1])
                                  THEN Append(f[n - 1], c[n].path) ELSE f[n - 1]
  BY DistinctIsRecursive
<1>. HIDE DEF f, N
<1> DEFINE T == {n \in 0 .. N : f[n] \in Seq(P) /\ InFirstOrder(c, n, f[n])}
<1>3. 0 \in T
  <2>1. <<>> \in Seq(P) /\ Len(<<>>) = 0 /\ 0 \in 0 .. N
    BY <1>1, EmptySeq
  <2>2. InFirstOrder(c, 0, <<>>)
    BY <2>1 DEF InFirstOrder
  <2>. QED  BY <1>2, <2>1, <2>2
<1>4. ASSUME NEW m \in 0 .. (N - 1), m \in T
      PROVE  m + 1 \in T
  <2> DEFINE n == m + 1  s == f[m]
  <2>1. n \in 1 .. N /\ n - 1 = m /\ n \in 0 .. N
    BY <1>1
  <2>2. s \in Seq(P) /\ InFirstOrder(c, n - 1, s)
    BY <1>4, <2>1
  <2>3. f[n] = IF c[n].selected /\ c[n].path \notin ToSet(s) THEN Append(s, c[n].path) ELSE s
    BY <1>2, <2>1
  <2>4. c[n].path \in P
    BY <1>1, <2>1
  <2>. HIDE DEF n, s
  <2>5. CASE c[n].selected /\ c[n].path \notin ToSet(s)
    <3>1. f[n] \in Seq(P)
      BY <2>2, <2>3, <2>4, <2>5, AppendElements
    <3>2. InFirstOrder(c, n, Append(s, c[n].path))
      BY <2>1, <2>2, <2>4, <2>5, FirstOrderExtended DEF N
    <3>. QED  BY <2>1, <2>3, <2>5, <3>1, <3>2 DEF n
  <2>6. CASE ~(c[n].selected /\ c[n].path \notin ToSet(s))
    <3>1. InFirstOrder(c, n, s)
      BY <2>1, <2>2, <2>6, FirstOrderKept DEF N
    <3>. QED  BY <2>1, <2>2, <2>3, <2>6, <3>1 DEF n
  <2>. QED  BY <2>5, <2>6
<1>5. N \in T
  <2>. HIDE DEF T
  <2>1. 0 .. N \subseteq T
    BY <1>1, <1>3, <1>4, UpTo
  <2>. QED  BY <1>1, <2>1
<1>. QED  BY <1>2, <1>5 DEF N

LEMMA SequenceOf ==
  ASSUME NEW S, NEW N \in Nat, NEW f \in [1 .. N -> S]
  PROVE  f \in Seq(S) /\ Len(f) = N /\ DOMAIN f = 1 .. N
<1>1. f \in Seq(S)
  OBVIOUS
<1>. QED  BY <1>1, LenProperties

\* An absolute entry is kept, or an earlier one of the same normal form is.
LEMMA KeptFirst ==
  ASSUME NEW e \in Seq(Paths), NEW j \in DOMAIN e, IsAbsolute(e[j])
  PROVE  \E i \in Kept(e) : i <= j /\ Normal(e[i]) = Normal(e[j])
<1> DEFINE same == {i \in DOMAIN e : IsAbsolute(e[i]) /\ Normal(e[i]) = Normal(e[j])}
<1>1. DOMAIN e = 1 .. Len(e) /\ Len(e) \in Nat
  BY LenProperties
<1>2. PICK i \in same : \A k \in same : i <= k
  <2>1. same \subseteq Nat /\ j \in same
    BY <1>1
  <2>. HIDE DEF same
  <2>. QED  BY <2>1, LeastNumber
<1>3. i <= j
  BY <1>2
<1>4. ASSUME NEW k \in 1 .. (i - 1), IsAbsolute(e[k])
      PROVE  Normal(e[k]) # Normal(e[i])
  <2>1. k \in DOMAIN e /\ ~(i <= k)
    BY <1>1, <1>2
  <2>2. k \notin same
    BY <1>2, <2>1
  <2>. QED  BY <1>2, <1>4, <2>1, <2>2
<1>5. i \in Kept(e)
  BY <1>2, <1>4 DEF Kept
<1>. QED  BY <1>2, <1>3, <1>5

LEMMA ParsedType ==
  ASSUME NEW e \in Seq(Paths)
  PROVE  /\ ParsePathList(e) \in Seq(Candidates(Paths)) /\ Len(ParsePathList(e)) = Len(e)
         /\ \A i \in 1 .. Len(e) :
              /\ ParsePathList(e)[i].selected <=> i \in Kept(e)
              /\ i \in Kept(e) => ParsePathList(e)[i].path = Normal(e[i]) /\ IsAbsolute(Normal(e[i]))
<1>1. DOMAIN e = 1 .. Len(e) /\ Len(e) \in Nat /\ \A i \in 1 .. Len(e) : e[i] \in Paths
  BY LenProperties, ElementOfSeq
<1> DEFINE s == ParsePathList(e)
<1>2. \A i \in 1 .. Len(e) : Normal(e[i]) \in Paths
  BY <1>1, NormalType DEF Paths
<1>3. ASSUME NEW i \in 1 .. Len(e)
      PROVE  /\ s[i] \in Candidates(Paths) /\ (s[i].selected <=> i \in Kept(e))
             /\ i \in Kept(e) => s[i].path = Normal(e[i])
  <2>1. s[i] = IF i \in Kept(e) THEN [path |-> Normal(e[i]), selected |-> TRUE] ELSE [path |-> e[i], selected |-> FALSE]
    BY <1>1 DEF ParsePathList
  <2>2. CASE i \in Kept(e)
    BY <1>2, <2>1, <2>2 DEF Candidates
  <2>3. CASE i \notin Kept(e)
    BY <1>1, <2>1, <2>3 DEF Candidates
  <2>. QED  BY <2>2, <2>3
<1>4. ASSUME NEW i \in Kept(e)
      PROVE  IsAbsolute(Normal(e[i]))
  <2>1. IsAbsolute(e[i]) /\ e[i] \in Paths
    BY <1>1 DEF Kept
  <2>. QED  BY <2>1, NormalAbsolute DEF Paths
<1>5. s = [i \in 1 .. Len(e) |-> s[i]]
  BY <1>1 DEF ParsePathList
<1>6. s \in [1 .. Len(e) -> Candidates(Paths)]
  <2>. HIDE DEF s
  <2>. QED  BY <1>3, <1>5
<1>7. s \in Seq(Candidates(Paths)) /\ Len(s) = Len(e)
  <2>. HIDE DEF s
  <2>. QED  BY <1>1, <1>6, SequenceOf
<1>. QED  BY <1>3, <1>4, <1>7

LEMMA NormalCandidatesType ==
  ASSUME NEW e \in Seq(Paths)
  PROVE  /\ NormalCandidates(e) \in Seq(Candidates(Paths))
         /\ \A i \in 1 .. Len(NormalCandidates(e)) : NormalCandidates(e)[i].selected => IsAbsolute(NormalCandidates(e)[i].path)
<1>1. DOMAIN e = 1 .. Len(e) /\ Len(e) \in Nat /\ \A i \in 1 .. Len(e) : e[i] \in Paths
  BY LenProperties, ElementOfSeq
<1> DEFINE s == NormalCandidates(e)
<1>2. \A i \in 1 .. Len(e) : Normal(e[i]) \in Paths
  BY <1>1, NormalType DEF Paths
<1>3. \A i \in 1 .. Len(e) : s[i] = [path |-> Normal(e[i]), selected |-> IsAbsolute(Normal(e[i]))]
  BY <1>1 DEF NormalCandidates
<1>4. \A i \in 1 .. Len(e) : IsAbsolute(Normal(e[i])) \in BOOLEAN
  BY DEF IsAbsolute
<1>5. s = [i \in 1 .. Len(e) |-> s[i]]
  BY <1>1 DEF NormalCandidates
<1>. HIDE DEF s
<1>6. ASSUME NEW i \in 1 .. Len(e)
      PROVE  s[i] \in Candidates(Paths) /\ (s[i].selected => IsAbsolute(s[i].path))
  <2>1. CASE IsAbsolute(Normal(e[i])) = TRUE
    <3>1. s[i] = [path |-> Normal(e[i]), selected |-> TRUE] /\ IsAbsolute(Normal(e[i]))
      BY <1>3, <2>1, Zenon
    <3>. QED  BY <1>2, <3>1 DEF Candidates
  <2>2. CASE IsAbsolute(Normal(e[i])) = FALSE
    <3>1. s[i] = [path |-> Normal(e[i]), selected |-> FALSE]
      BY <1>3, <2>2, Zenon
    <3>. QED  BY <1>2, <3>1 DEF Candidates
  <2>. QED  BY <1>4, <2>1, <2>2, Zenon
<1>8. s \in [1 .. Len(e) -> Candidates(Paths)]
  BY <1>5, <1>6
<1>9. s \in Seq(Candidates(Paths)) /\ Len(s) = Len(e)
  BY <1>1, <1>8, SequenceOf
<1>. QED  BY <1>6, <1>9 DEF s

LEMMA OwnNames ==
  /\ MaxChanges \in Nat /\ Leaf \in Paths /\ Leaf # Empty /\ Last(Leaf) \in Segments /\ Empty \in Paths
  /\ {".config", ".local", "share", "state", ".cache", "cache", ".wine", "managed", "enforced", "components", "sessions",
      "plugins", "Config"} \subseteq Segments
<1>1. Leaf \in Seq(Segments) /\ Leaf # <<>>
  BY RootsAssumption DEF Paths, Empty
<1>2. Last(Leaf) \in Segments
  BY <1>1, FrontLast
<1>3. Empty \in Paths
  BY EmptySeq DEF Empty, Paths
<1>. QED  BY <1>1, <1>2, <1>3, RootsAssumption DEF OwnSegments, Empty, Paths

LEMMA EnvironmentType ==
  ASSUME NEW o, IsPathOptions(o), NEW n
  PROVE  EnvironmentValue(o, n) \in Paths
BY OwnNames DEF EnvironmentValue, IsPathOptions, IsEnvironment

LEMMA HomeType ==
  ASSUME NEW o, IsPathOptions(o)
  PROVE  HomeDirectory(o) \in Paths
<1>1. CASE o.home # {}
  <2>1. (CHOOSE h \in o.home : TRUE) \in o.home
    BY <1>1
  <2>. QED  BY <1>1, <2>1 DEF HomeDirectory, IsPathOptions
<1>2. CASE o.home = {}
  BY <1>2, EnvironmentType DEF HomeDirectory
<1>. QED  BY <1>1, <1>2

LEMMA WinePrefixType ==
  ASSUME NEW o, IsPathOptions(o)
  PROVE  WinePrefix(o) \in Paths
<1>1. Append(HomeDirectory(o), ".wine") \in Paths
  BY HomeType, OwnNames, AppendElements DEF Paths
<1>2. o.winePrefix \in Paths
  BY DEF IsPathOptions
<1>. QED  BY <1>1, <1>2, EnvironmentType, OwnNames DEF WinePrefix

LEMMA ExpandHomeType ==
  ASSUME NEW p \in Paths, NEW home \in Paths
  PROVE  ExpandHome(p, home) \in Paths
<1>1. CASE p # Empty
  <2>1. Tail(p) \in Paths
    BY <1>1, HeadTailProperties DEF Empty, Paths
  <2>2. home \o Tail(p) \in Paths
    BY <2>1, ConcatProperties DEF Paths
  <2>. QED  BY <2>2 DEF ExpandHome
<1>2. CASE p = Empty
  BY <1>2 DEF ExpandHome
<1>. QED  BY <1>1, <1>2

\* The entries of the environment come first; what is selected is absolute.
LEMMA PluginCandidatesType ==
  ASSUME NEW o, IsPathOptions(o), NEW s \in PluginSets
  PROVE  LET c == PluginCandidates(s, o) e == ParsePathList(s.environment)
         IN /\ c \in Seq(Candidates(Paths)) /\ \A i \in 1 .. Len(c) : c[i].selected => IsAbsolute(c[i].path)
            /\ Len(e) <= Len(c) /\ \A i \in 1 .. Len(e) : c[i] = e[i]
<1>1. s.environment \in Seq(Paths) /\ s.defaults \in Seq(Paths) /\ s.wine \in Seq(Paths)
  BY DEF PluginSets
<1> DEFINE C == Candidates(Paths)  e == ParsePathList(s.environment)
           expanded == [i \in DOMAIN s.defaults |-> ExpandHome(s.defaults[i], HomeDirectory(o))]
           wined == [i \in DOMAIN s.wine |-> WinePrefix(o) \o s.wine[i]]
           d == NormalCandidates(expanded)
           w == IF WinePrefix(o) = Empty THEN <<>> ELSE NormalCandidates(wined)
           Sound(c) == \A i \in 1 .. Len(c) : c[i].selected => IsAbsolute(c[i].path)
<1>2. e \in Seq(C) /\ Sound(e)
  BY <1>1, ParsedType
<1>3. d \in Seq(C) /\ Sound(d)
  <2>1. DOMAIN s.defaults = 1 .. Len(s.defaults) /\ Len(s.defaults) \in Nat /\ \A i \in 1 .. Len(s.defaults) : s.defaults[i] \in Paths
    BY <1>1, LenProperties, ElementOfSeq
  <2>2. \A i \in 1 .. Len(s.defaults) : ExpandHome(s.defaults[i], HomeDirectory(o)) \in Paths
    BY <2>1, HomeType, ExpandHomeType
  <2>3. expanded \in [1 .. Len(s.defaults) -> Paths]
    BY <2>1, <2>2
  <2>. HIDE DEF expanded
  <2>4. expanded \in Seq(Paths)
    BY <2>1, <2>3, SequenceOf
  <2>. QED  BY <2>4, NormalCandidatesType
<1>4. w \in Seq(C) /\ Sound(w)
  <2>1. DOMAIN s.wine = 1 .. Len(s.wine) /\ Len(s.wine) \in Nat /\ \A i \in 1 .. Len(s.wine) : s.wine[i] \in Paths
    BY <1>1, LenProperties, ElementOfSeq
  <2>2. \A i \in 1 .. Len(s.wine) : WinePrefix(o) \o s.wine[i] \in Paths
    BY <2>1, WinePrefixType, ConcatProperties DEF Paths
  <2>3. wined \in [1 .. Len(s.wine) -> Paths]
    BY <2>1, <2>2
  <2>. HIDE DEF wined
  <2>4. wined \in Seq(Paths)
    BY <2>1, <2>3, SequenceOf
  <2>5. NormalCandidates(wined) \in Seq(C) /\ Sound(NormalCandidates(wined))
    BY <2>4, NormalCandidatesType
  <2>6. <<>> \in Seq(C) /\ Sound(<<>>)
    BY EmptySeq
  <2>. QED  BY <2>5, <2>6
<1>5. PluginCandidates(s, o) = (e \o d) \o w
  BY DEF PluginCandidates
<1>. HIDE DEF C, e, d, w
<1>6. ASSUME NEW x \in Seq(C), NEW y \in Seq(C), Sound(x), Sound(y)
      PROVE  /\ x \o y \in Seq(C) /\ Sound(x \o y) /\ Len(x) <= Len(x \o y)
             /\ \A i \in 1 .. Len(x) : (x \o y)[i] = x[i]
  <2>1. Len(x) \in Nat /\ Len(y) \in Nat
    BY LenProperties
  <2>2. /\ x \o y \in Seq(C) /\ Len(x \o y) = Len(x) + Len(y)
        /\ \A i \in 1 .. Len(x) + Len(y) : (x \o y)[i] = IF i <= Len(x) THEN x[i] ELSE y[i - Len(x)]
    BY ConcatProperties
  <2>3. ASSUME NEW i \in 1 .. Len(x \o y), (x \o y)[i].selected
        PROVE  IsAbsolute((x \o y)[i].path)
    <3>1. CASE i <= Len(x)
      <4>1. i \in 1 .. Len(x) /\ (x \o y)[i] = x[i]
        BY <2>1, <2>2, <3>1
      <4>. QED  BY <1>6, <2>3, <4>1
    <3>2. CASE ~(i <= Len(x))
      <4>1. i - Len(x) \in 1 .. Len(y) /\ (x \o y)[i] = y[i - Len(x)]
        BY <2>1, <2>2, <3>2
      <4>. QED  BY <1>6, <2>3, <4>1
    <3>. QED  BY <3>1, <3>2
  <2>4. \A i \in 1 .. Len(x) : i \in 1 .. Len(x) + Len(y) /\ i <= Len(x)
    BY <2>1
  <2>. QED  BY <2>1, <2>2, <2>3, <2>4
<1> DEFINE ed == e \o d  all == ed \o w
<1>7. /\ ed \in Seq(C) /\ Sound(ed) /\ Len(e) <= Len(ed)
      /\ \A i \in 1 .. Len(e) : ed[i] = e[i]
  BY <1>2, <1>3, <1>6
<1>. HIDE DEF ed
<1>8. /\ all \in Seq(C) /\ Sound(all) /\ Len(ed) <= Len(all)
      /\ \A i \in 1 .. Len(ed) : all[i] = ed[i]
  BY <1>4, <1>6, <1>7
<1>. HIDE DEF all
<1>9. Len(e) \in Nat /\ Len(ed) \in Nat /\ Len(all) \in Nat
  BY <1>2, <1>7, <1>8, LenProperties
<1>10. \A i \in 1 .. Len(e) : i \in 1 .. Len(ed)
  BY <1>7, <1>9
<1>11. Len(e) <= Len(all) /\ \A i \in 1 .. Len(e) : all[i] = e[i]
  BY <1>7, <1>8, <1>9, <1>10
<1>12. PluginCandidates(s, o) = all
  BY <1>5 DEF all, ed
<1>. QED  BY <1>8, <1>11, <1>12 DEF C, e

\* The search path of a set of plugins is what SearchPathsAreBest asks for.
LEMMA SearchPathIsBest ==
  ASSUME NEW o, IsPathOptions(o), NEW s \in PluginSets
  PROVE  LET paths == PluginPaths(s, o)
             given == {i \in DOMAIN s.environment : IsAbsolute(s.environment[i])}
             Spells(i, p) == Normal(s.environment[i]) = p
         IN /\ IsInjective(paths) /\ \A k \in DOMAIN paths : IsAbsolute(paths[k])
            /\ \A i \in given : \E k \in DOMAIN paths : Spells(i, paths[k])
            /\ \A l \in DOMAIN paths : \A k \in 1 .. (l - 1) :
                 \A j \in given : Spells(j, paths[l]) => \E i \in given : i < j /\ Spells(i, paths[k])
<1> DEFINE paths == PluginPaths(s, o)  env == s.environment  e == ParsePathList(env)  c == PluginCandidates(s, o)
<1>1. env \in Seq(Paths) /\ DOMAIN env = 1 .. Len(env) /\ Len(env) \in Nat
  BY LenProperties DEF PluginSets
<1>2. /\ Len(e) = Len(env)
      /\ \A i \in 1 .. Len(env) : (e[i].selected <=> i \in Kept(env)) /\ (i \in Kept(env) => e[i].path = Normal(env[i]))
  BY <1>1, ParsedType
<1>3. /\ c \in Seq(Candidates(Paths)) /\ \A i \in 1 .. Len(c) : c[i].selected => IsAbsolute(c[i].path)
      /\ Len(e) <= Len(c) /\ \A i \in 1 .. Len(e) : c[i] = e[i]
  BY PluginCandidatesType
<1>4. paths \in Seq(Paths) /\ InFirstOrder(c, Len(c), paths)
  BY <1>3, DistinctInFirstOrder DEF PluginPaths
<1>5. DOMAIN paths = 1 .. Len(paths) /\ Len(paths) \in Nat /\ Len(c) \in Nat
  BY <1>3, <1>4, LenProperties
<1>. HIDE DEF paths, e, c, env
<1>6. \A i \in 1 .. Len(env) : i \in 1 .. Len(c) /\ (c[i].selected <=> i \in Kept(env)) /\ (i \in Kept(env) => c[i].path = Normal(env[i]))
  BY <1>1, <1>2, <1>3, <1>5
<1>7. \A i \in Kept(env) : i \in 1 .. Len(env) /\ IsAbsolute(env[i])
  BY <1>1 DEF Kept
<1>8. IsInjective(paths)
  BY <1>4, <1>5 DEF InFirstOrder, IsInjective
<1>9. \A k \in DOMAIN paths : IsAbsolute(paths[k])
  <2>1. \A k \in 1 .. Len(paths) : \E i \in 1 .. Len(c) : c[i].selected /\ c[i].path = paths[k]
    BY <1>4 DEF InFirstOrder
  <2>. QED  BY <1>3, <1>5, <2>1
<1>10. ASSUME NEW j \in DOMAIN env, IsAbsolute(env[j])
       PROVE  \E i \in 1 .. Len(c) : /\ i \in Kept(env) /\ i <= j /\ c[i].selected
                                     /\ c[i].path = Normal(env[j])
  <2>1. PICK i \in Kept(env) : i <= j /\ Normal(env[i]) = Normal(env[j])
    BY <1>1, <1>10, KeptFirst
  <2>. QED  BY <1>6, <1>7, <2>1
<1>11. ASSUME NEW j \in DOMAIN env, IsAbsolute(env[j])
       PROVE  \E k \in DOMAIN paths : Normal(env[j]) = paths[k]
  <2>1. PICK i \in 1 .. Len(c) : c[i].selected /\ c[i].path = Normal(env[j])
    BY <1>10, <1>11
  <2>2. PICK k \in 1 .. Len(paths) : paths[k] = c[i].path
    BY <1>4, <2>1 DEF InFirstOrder
  <2>. QED  BY <1>5, <2>1, <2>2
<1>12. ASSUME NEW l \in DOMAIN paths, NEW k \in 1 .. (l - 1), NEW j \in DOMAIN env, IsAbsolute(env[j]), Normal(env[j]) = paths[l]
       PROVE  \E i \in DOMAIN env : IsAbsolute(env[i]) /\ i < j /\ Normal(env[i]) = paths[k]
  <2>1. PICK m \in 1 .. Len(c) : m \in Kept(env) /\ m <= j /\ c[m].selected /\ c[m].path = paths[l]
    BY <1>10, <1>12
  <2>2. l \in 1 .. Len(paths) /\ k \in 1 .. l /\ k \in 1 .. Len(paths) /\ k # l
    BY <1>5
  <2>3. PICK i \in 1 .. m : c[i].selected /\ c[i].path = paths[k]
    <3>1. \A n \in 1 .. Len(c) : c[n].selected /\ c[n].path = paths[l] => \E i \in 1 .. n : c[i].selected /\ c[i].path = paths[k]
      BY <1>4, <2>2 DEF InFirstOrder
    <3>. QED  BY <2>1, <3>1
  <2>4. i \in 1 .. Len(env) /\ i <= j /\ m \in 1 .. Len(env)
    BY <1>1, <1>7, <2>1
  <2>5. i \in Kept(env) /\ Normal(env[i]) = paths[k]
    BY <1>6, <2>3, <2>4
  <2>6. paths[k] # paths[l]
    BY <1>4, <2>2 DEF InFirstOrder
  <2>7. i # j
    BY <1>12, <2>5, <2>6
  <2>8. i < j
    BY <1>1, <2>4, <2>7
  <2>. QED  BY <1>1, <1>7, <2>4, <2>5, <2>8
<1>. QED  BY <1>8, <1>9, <1>11, <1>12 DEF paths, env

-----------------------------------------------------------------------------
(* Base directories *)

IsReport(r) == {"selected", "candidates", "error"} \subseteq DOMAIN r

LEMMA AddCandidateSelects ==
  ASSUME NEW r, NEW f, NEW source, NEW p
  PROVE  IsReport(r) =>
           /\ IsReport(AddCandidate(r, f, source, p, TRUE)) /\ AddCandidate(r, f, source, p, TRUE).selected = p
           /\ IsReport(AddCandidate(r, f, source, p, FALSE)) /\ AddCandidate(r, f, source, p, FALSE).selected = r.selected
BY DEF IsReport, AddCandidate

LEMMA RejectSelectsNothing ==
  ASSUME NEW r, IsReport(r), NEW f, NEW source, NEW p
  PROVE  IsReport(Reject(r, f, source, p)) /\ Reject(r, f, source, p).selected = r.selected
<1> DEFINE a == AddCandidate(r, f, source, p, FALSE)
<1>1. IsReport(a) /\ a.selected = r.selected
  BY AddCandidateSelects
<1>. HIDE DEF a
<1>2. \A x : IsReport([a EXCEPT !.error = x]) /\ [a EXCEPT !.error = x].selected = a.selected
  BY <1>1 DEF IsReport
<1>3. Reject(r, f, source, p) = r \/ \E x : Reject(r, f, source, p) = [a EXCEPT !.error = x]
  BY DEF Reject, a
<1>. QED  BY <1>1, <1>2, <1>3

LEMMA OverrideSelects ==
  ASSUME NEW f, NEW p
  PROVE  /\ IsReport(SelectAbsoluteOverride(NoPath, f, p))
         /\ SelectAbsoluteOverride(NoPath, f, p).selected = IF IsAbsolute(p) THEN p ELSE Empty
<1>1. IsReport(NoPath) /\ NoPath.selected = Empty
  BY DEF IsReport, NoPath
<1> DEFINE a == AddCandidate(NoPath, f, "explicit_option", p, TRUE)  b == Reject(NoPath, f, "explicit_option", p)
<1>2. IsReport(a) /\ a.selected = p
  BY <1>1 DEF AddCandidate, IsReport
<1>3. IsReport(b) /\ b.selected = Empty
  BY <1>1, RejectSelectsNothing
<1>4. SelectAbsoluteOverride(NoPath, f, p) = IF IsAbsolute(p) THEN a ELSE b
  BY DEF SelectAbsoluteOverride
<1>. HIDE DEF a, b
<1>. QED  BY <1>2, <1>3, <1>4

LEMMA BaseSelects ==
  ASSUME NEW r, IsReport(r), NEW o, NEW f, NEW env, NEW fallback, NEW leaf
  PROVE  SelectBaseDirectory(r, o, f, env, fallback, leaf).selected =
           IF r.selected # Empty THEN r.selected
           ELSE IF IsAbsolute(EnvironmentValue(o, env)) THEN EnvironmentValue(o, env) \o leaf
           ELSE IF IsAbsolute(PlatformDefaultBase(o, f)) THEN PlatformDefaultBase(o, f) \o leaf
           ELSE IF fallback # Empty THEN fallback \o leaf ELSE Empty
<1> DEFINE e == EnvironmentValue(o, env)  d == PlatformDefaultBase(o, f)
           u == Reject(r, f, "environment", e)  v == Reject(u, f, "platform_default", d)
<1>1. IsReport(u) /\ u.selected = r.selected
  BY RejectSelectsNothing
<1>. HIDE DEF u
<1>2. IsReport(v) /\ v.selected = r.selected
  BY <1>1, RejectSelectsNothing
<1>. HIDE DEF v
<1>3. SelectBaseDirectory(r, o, f, env, fallback, leaf) =
        IF r.selected # Empty THEN r
        ELSE IF IsAbsolute(e) THEN AddCandidate(r, f, "xdg_base_dir", e \o leaf, TRUE)
        ELSE IF IsAbsolute(d) THEN AddCandidate(u, f, "platform_default", d \o leaf, TRUE)
        ELSE IF fallback # Empty THEN AddCandidate(v, f, "fallback", fallback \o leaf, TRUE)
        ELSE v
  BY DEF SelectBaseDirectory, u, v
<1>. HIDE DEF e, d
<1>4. /\ AddCandidate(r, f, "xdg_base_dir", e \o leaf, TRUE).selected = e \o leaf
      /\ AddCandidate(u, f, "platform_default", d \o leaf, TRUE).selected = d \o leaf
      /\ AddCandidate(v, f, "fallback", fallback \o leaf, TRUE).selected = fallback \o leaf
  BY <1>1, <1>2 DEF AddCandidate, IsReport
<1>5. SelectBaseDirectory(r, o, f, env, fallback, leaf).selected =
        IF r.selected # Empty THEN r.selected
        ELSE IF IsAbsolute(e) THEN e \o leaf ELSE IF IsAbsolute(d) THEN d \o leaf
        ELSE IF fallback # Empty THEN fallback \o leaf ELSE Empty
  BY <1>2, <1>3, <1>4
<1>. QED  BY <1>5 DEF e, d

\* The home directory's own place for a family.
HomeBase(o, f) == IF HomeDirectory(o) = Empty THEN Empty ELSE HomeDirectory(o) \o HomeLeaf[f]

LEMMA BaseFamilySelects ==
  ASSUME NEW o, NEW leaf, NEW f \in BaseFamilies
  PROVE  ResolveAppPaths(o, leaf).selected[f] =
           IF IsAbsolute(o.override[f]) THEN o.override[f]
           ELSE IF IsAbsolute(EnvironmentValue(o, EnvironmentName[f])) THEN EnvironmentValue(o, EnvironmentName[f]) \o leaf
           ELSE IF IsAbsolute(PlatformDefaultBase(o, f)) THEN PlatformDefaultBase(o, f) \o leaf
           ELSE IF HomeBase(o, f) # Empty THEN HomeBase(o, f) \o leaf ELSE Empty
<1> DEFINE r == SelectAbsoluteOverride(NoPath, f, o.override[f])
<1>1. IsReport(r) /\ r.selected = IF IsAbsolute(o.override[f]) THEN o.override[f] ELSE Empty
  BY OverrideSelects
<1>. HIDE DEF r
<1>2. f \in Families /\ f \notin UserFamilies /\ f # "runtime" /\ f # "temp"
  BY DEF BaseFamilies, UserFamilies, Families, UserOrder, ToSet
<1>3. ResolveAppPaths(o, leaf).selected[f] = ResolveFamily(o, f, leaf).selected
  BY <1>2 DEF ResolveAppPaths
<1>4. ResolveFamily(o, f, leaf) = SelectBaseDirectory(r, o, f, EnvironmentName[f], HomeBase(o, f), leaf)
  BY <1>2 DEF ResolveFamily, HomeBase, r
<1>5. IsAbsolute(o.override[f]) => o.override[f] # Empty
  BY DEF IsAbsolute, Empty
<1>. QED  BY <1>1, <1>3, <1>4, <1>5, BaseSelects

LEMMA RequestTypes ==
  ASSUME NEW r \in Calls
  PROVE  /\ IsPathOptions(r.paths) /\ r.override \in Paths /\ r.userConfig \in Paths
         /\ r.portable \in PortableRequests /\ r.named \in Seq(NamedRequests) /\ r.plugins \in Seq(PluginSets)
         /\ r.create \in BOOLEAN /\ r.direct \in BOOLEAN
BY RootsAssumption

LEMMA ConcatType ==
  ASSUME NEW p \in Paths, NEW r \in Paths
  PROVE  p \o r \in Paths /\ (p # Empty => p \o r # Empty) /\ IsPrefix(p, p \o r)
<1>1. p \o r \in Paths
  BY ConcatProperties DEF Paths
<1>2. p # Empty => p \o r # Empty
  BY ConcatSimplifications DEF Empty, Paths
<1>3. /\ Len(p) \in Nat /\ Len(r) \in Nat /\ Len(p \o r) = Len(p) + Len(r)
      /\ \A i \in 1 .. Len(p) + Len(r) : (p \o r)[i] = IF i <= Len(p) THEN p[i] ELSE r[i - Len(p)]
  BY ConcatProperties, LenProperties DEF Paths
<1>4. Len(p) <= Len(p \o r) /\ \A i \in 1 .. Len(p) : p[i] = (p \o r)[i]
  BY <1>3
<1>5. \A t \in Paths : Len(p) <= Len(t) /\ (\A i \in 1 .. Len(p) : p[i] = t[i]) => IsPrefix(p, t)
  BY PrefixElements DEF Paths
<1>. QED  BY <1>1, <1>2, <1>4, <1>5

LEMMA AppendType ==
  ASSUME NEW p \in Paths, NEW x \in Segments
  PROVE  Append(p, x) \in Paths /\ Append(p, x) # Empty /\ IsPrefix(p, Append(p, x))
BY AppendElements DEF Paths, Empty

LEMMA DefaultBaseType ==
  ASSUME NEW o, IsPathOptions(o), NEW f \in Families
  PROVE  PlatformDefaultBase(o, f) \in Paths
BY OwnNames DEF IsPathOptions, PlatformDefaultBase

LEMMA HomeBaseType ==
  ASSUME NEW o, IsPathOptions(o), NEW f \in BaseFamilies
  PROVE  HomeBase(o, f) \in Paths /\ (HomeBase(o, f) # Empty <=> HomeDirectory(o) # Empty)
<1>1. {<<".config">>, <<".local", "share">>, <<".local", "state">>, <<".cache">>} \subseteq Seq(Segments)
  BY OwnNames
<1>2. HomeLeaf[f] \in {<<".config">>, <<".local", "share">>, <<".local", "state">>, <<".cache">>}
  BY DEF HomeLeaf, BaseFamilies
<1>3. HomeLeaf[f] \in Paths
  BY <1>1, <1>2 DEF Paths
<1>4. HomeDirectory(o) \o HomeLeaf[f] \in Paths /\ (HomeDirectory(o) # Empty => HomeDirectory(o) \o HomeLeaf[f] # Empty)
  BY <1>3, HomeType, ConcatType
<1>. QED  BY <1>4, OwnNames DEF HomeBase

LEMMA BaseIsBest ==
  ASSUME NEW o, IsPathOptions(o), NEW f \in BaseFamilies
  PROVE  LET sources == Sources(o, f, Leaf)
             chosen == ResolveAppPaths(o, Leaf).selected[f]
         IN /\ \/ chosen = Empty /\ \A i \in DOMAIN sources : sources[i] = Empty
               \/ \E i \in DOMAIN sources : /\ chosen = sources[i] /\ chosen # Empty
                                            /\ \A j \in 1 .. (i - 1) : sources[j] = Empty
            /\ chosen \in Paths
<1> DEFINE sources == Sources(o, f, Leaf)
           chosen == ResolveAppPaths(o, Leaf).selected[f]
           e == EnvironmentValue(o, EnvironmentName[f])
           d == PlatformDefaultBase(o, f)
           h == HomeBase(o, f)
           w == o.override[f]
<1>1. f \in Families
  BY DEF Families
<1>2. w \in Paths /\ e \in Paths /\ d \in Paths /\ h \in Paths /\ Leaf \in Paths /\ Empty \in Paths
  BY <1>1, EnvironmentType, DefaultBaseType, HomeBaseType, OwnNames DEF IsPathOptions
<1>3. /\ sources[1] = IF IsAbsolute(w) THEN w ELSE Empty
      /\ sources[2] = IF IsAbsolute(e) THEN e \o Leaf ELSE Empty
      /\ sources[3] = IF IsAbsolute(d) THEN d \o Leaf ELSE Empty
      /\ sources[4] = IF h # Empty THEN h \o Leaf ELSE Empty
      /\ DOMAIN sources = 1 .. 4
  <2>1. ~IsAbsolute(Empty)
    BY DEF IsAbsolute, Empty
  <2>2. o.defaultsGiven /\ IsAbsolute(o.defaults[f]) <=> IsAbsolute(d)
    BY <2>1 DEF PlatformDefaultBase
  <2>3. IsAbsolute(d) => d = o.defaults[f]
    BY <2>1 DEF PlatformDefaultBase
  <2>4. /\ HomeDirectory(o) # Empty <=> h # Empty
        /\ HomeDirectory(o) # Empty => h = HomeDirectory(o) \o HomeLeaf[f]
    BY HomeBaseType DEF HomeBase
  <2>5. sources = << IF IsAbsolute(w) THEN w ELSE Empty,
                     IF IsAbsolute(e) THEN e \o Leaf ELSE Empty,
                     IF o.defaultsGiven /\ IsAbsolute(o.defaults[f]) THEN o.defaults[f] \o Leaf ELSE Empty,
                     IF HomeDirectory(o) # Empty THEN HomeDirectory(o) \o HomeLeaf[f] \o Leaf ELSE Empty >>
    BY DEF Sources
  <2>. HIDE DEF sources, e, d, h, w
  <2>6. DOMAIN sources = 1 .. 4 /\ sources[1] = (IF IsAbsolute(w) THEN w ELSE Empty)
        /\ sources[2] = (IF IsAbsolute(e) THEN e \o Leaf ELSE Empty)
    BY <2>5
  <2>7. sources[3] = (IF o.defaultsGiven /\ IsAbsolute(o.defaults[f]) THEN o.defaults[f] \o Leaf ELSE Empty)
    BY <2>5
  <2>8. sources[4] = (IF HomeDirectory(o) # Empty THEN HomeDirectory(o) \o HomeLeaf[f] \o Leaf ELSE Empty)
    BY <2>5
  <2>. QED  BY <2>2, <2>3, <2>4, <2>6, <2>7, <2>8
<1>4. chosen = IF IsAbsolute(w) THEN w ELSE IF IsAbsolute(e) THEN e \o Leaf
               ELSE IF IsAbsolute(d) THEN d \o Leaf ELSE IF h # Empty THEN h \o Leaf ELSE Empty
  BY BaseFamilySelects
<1>. HIDE DEF sources, chosen, e, d, h, w
<1>5. /\ IsAbsolute(w) => w # Empty
      /\ IsAbsolute(e) => e \o Leaf # Empty
      /\ IsAbsolute(d) => d \o Leaf # Empty
      /\ h # Empty => h \o Leaf # Empty
      /\ e \o Leaf \in Paths /\ d \o Leaf \in Paths /\ h \o Leaf \in Paths
  <2>1. \A p \in Paths : IsAbsolute(p) => p # Empty
    BY DEF IsAbsolute, Empty
  <2>2. \A p \in Paths : p \o Leaf \in Paths /\ (p # Empty => p \o Leaf # Empty)
    BY <1>2, ConcatType
  <2>. QED  BY <1>2, <2>1, <2>2
<1>6. chosen \in Paths
  BY <1>2, <1>4, <1>5
<1>7. \/ chosen = Empty /\ \A i \in DOMAIN sources : sources[i] = Empty
      \/ \E i \in DOMAIN sources : chosen = sources[i] /\ chosen # Empty /\ \A j \in 1 .. (i - 1) : sources[j] = Empty
  <2>1. CASE IsAbsolute(w)
    <3>1. chosen = sources[1] /\ chosen # Empty /\ 1 \in DOMAIN sources /\ \A j \in 1 .. (1 - 1) : FALSE
      BY <1>3, <1>4, <1>5, <2>1
    <3>. QED  BY <3>1
  <2>2. CASE ~IsAbsolute(w) /\ IsAbsolute(e)
    <3>1. chosen = sources[2] /\ chosen # Empty /\ 2 \in DOMAIN sources /\ sources[1] = Empty
      BY <1>3, <1>4, <1>5, <2>2
    <3>. QED  BY <3>1
  <2>3. CASE ~IsAbsolute(w) /\ ~IsAbsolute(e) /\ IsAbsolute(d)
    <3>1. chosen = sources[3] /\ chosen # Empty /\ 3 \in DOMAIN sources /\ sources[1] = Empty /\ sources[2] = Empty
      BY <1>3, <1>4, <1>5, <2>3
    <3>. QED  BY <3>1
  <2>4. CASE ~IsAbsolute(w) /\ ~IsAbsolute(e) /\ ~IsAbsolute(d) /\ h # Empty
    <3>1. /\ chosen = sources[4] /\ chosen # Empty /\ 4 \in DOMAIN sources
          /\ sources[1] = Empty /\ sources[2] = Empty /\ sources[3] = Empty
      BY <1>3, <1>4, <1>5, <2>4
    <3>. QED  BY <3>1
  <2>5. CASE ~IsAbsolute(w) /\ ~IsAbsolute(e) /\ ~IsAbsolute(d) /\ h = Empty
    <3>1. chosen = Empty /\ sources[1] = Empty /\ sources[2] = Empty /\ sources[3] = Empty /\ sources[4] = Empty
      BY <1>3, <1>4, <2>5
    <3>. QED  BY <1>3, <3>1
  <2>. QED  BY <2>1, <2>2, <2>3, <2>4, <2>5
<1>. QED  BY <1>6, <1>7 DEF sources, chosen

LEMMA RuntimeType ==
  ASSUME NEW o, IsPathOptions(o)
  PROVE  ResolveAppPaths(o, Leaf).selected["runtime"] \in Paths
<1> DEFINE r == SelectAbsoluteOverride(NoPath, "runtime", o.override["runtime"])
           e == EnvironmentValue(o, "XDG_RUNTIME_DIR")
           d == PlatformDefaultBase(o, "runtime")
           leaf == <<Last(Leaf)>>
<1>1. IsReport(r) /\ r.selected = IF IsAbsolute(o.override["runtime"]) THEN o.override["runtime"] ELSE Empty
  BY OverrideSelects
<1>2. "runtime" \in Families /\ "runtime" \notin UserFamilies /\ "runtime" \notin BaseFamilies
  BY DEF BaseFamilies, UserFamilies, Families, UserOrder, ToSet
<1>3. ResolveAppPaths(o, Leaf).selected["runtime"] = ResolveFamily(o, "runtime", Leaf).selected
  BY <1>2 DEF ResolveAppPaths
<1>4. ResolveFamily(o, "runtime", Leaf) = SelectBaseDirectory(r, o, "runtime", "XDG_RUNTIME_DIR", Empty, leaf)
  BY <1>2 DEF ResolveFamily, ResolveRuntime
<1>5. leaf \in Paths /\ Empty \in Paths
  BY OwnNames DEF Paths
<1>6. r.selected \in Paths
  BY <1>1, <1>2, <1>5 DEF IsPathOptions
<1>7. e \o leaf \in Paths /\ d \o leaf \in Paths /\ Empty \o leaf \in Paths
  BY <1>2, <1>5, EnvironmentType, DefaultBaseType, ConcatType
<1>. HIDE DEF r, e, d, leaf
<1>8. SelectBaseDirectory(r, o, "runtime", "XDG_RUNTIME_DIR", Empty, leaf).selected \in
        {r.selected, e \o leaf, d \o leaf, Empty \o leaf, Empty}
  <2>1. ASSUME NEW f, NEW env, NEW fallback
        PROVE  SelectBaseDirectory(r, o, f, env, fallback, leaf).selected \in
                 {r.selected, EnvironmentValue(o, env) \o leaf, PlatformDefaultBase(o, f) \o leaf, fallback \o leaf, Empty}
    <3>1. SelectBaseDirectory(r, o, f, env, fallback, leaf).selected =
            IF r.selected # Empty THEN r.selected
            ELSE IF IsAbsolute(EnvironmentValue(o, env)) THEN EnvironmentValue(o, env) \o leaf
            ELSE IF IsAbsolute(PlatformDefaultBase(o, f)) THEN PlatformDefaultBase(o, f) \o leaf
            ELSE IF fallback # Empty THEN fallback \o leaf ELSE Empty
      BY <1>1, BaseSelects
    <3>. QED  BY <3>1
  <2>2. SelectBaseDirectory(r, o, "runtime", "XDG_RUNTIME_DIR", Empty, leaf).selected \in
          {r.selected, e \o leaf, d \o leaf, Empty \o leaf, Empty}
    BY <2>1 DEF e, d
  <2>. QED  BY <2>2
<1>. QED  BY <1>3, <1>4, <1>5, <1>6, <1>7, <1>8

LEMMA FrontType ==
  ASSUME NEW p \in Paths, p # Empty
  PROVE  Front(p) \in Paths
BY FrontLast DEF Paths, Empty

LEMMA ResourcesType ==
  ASSUME NEW o, IsPathOptions(o)
  PROVE  ResolveResources(o, Last(Leaf)) \in Paths
<1> DEFINE executable == IF IsAbsolute(o.executable) THEN o.executable ELSE o.actualExecutable
           directory == IF executable = Empty THEN Empty ELSE Front(executable)
           prefix == IF IsAbsolute(o.prefix) THEN o.prefix
                     ELSE IF directory # Empty /\ Last(directory) = "bin" THEN Front(directory) ELSE directory
<1>1. executable \in Paths /\ o.prefix \in Paths /\ o.resourceRoot \in Paths
  BY DEF IsPathOptions
<1>2. directory \in Paths
  <2>. HIDE DEF executable
  <2>. QED  BY <1>1, FrontType, OwnNames
<1>3. prefix \in Paths
  <2>. HIDE DEF directory
  <2>. QED  BY <1>1, <1>2, FrontType
<1>4. <<"share", Last(Leaf)>> \in Paths
  BY OwnNames DEF Paths
<1>5. prefix \o <<"share", Last(Leaf)>> \in Paths
  <2>. HIDE DEF prefix
  <2>. QED  BY <1>3, <1>4, ConcatType
<1>6. ResolveResources(o, Last(Leaf)) = IF IsAbsolute(o.resourceRoot) THEN o.resourceRoot
                                        ELSE IF prefix # Empty THEN prefix \o <<"share", Last(Leaf)>> ELSE Empty
  BY DEF ResolveResources
<1>. HIDE DEF prefix
<1>. QED  BY <1>1, <1>5, <1>6, OwnNames

-----------------------------------------------------------------------------
(* Roots and layers *)

Decided == at \in {"defaults", "named", "creating named", "creating", "done"}

PortableBase == IF q.portable.root # Empty THEN q.portable.root ELSE Front(q.portable.marker)

\* All roots are the portable one's; the user may have moved the configuration.
WholePortable(base) ==
  /\ base \in Paths /\ IsAbsolute(base) /\ roots["config"] # Empty
  /\ \A n \in RootNames \ {"config"} : roots[n] = RootsUnder(base)[n]
  /\ roots["config"] = base \/ q.portable.allowUser

\* The mode and the roots agree from the moment the mode is chosen.
ModeInv ==
  /\ at = "start" => mode = "default"
  /\ mode = "override" => IsAbsolute(q.override) /\ roots = RootsUnder(q.override)
  /\ mode = "portable" =>
       /\ Decided /\ requested /\ q.portable.allow /\ q.portable.level # "off"
       /\ q.portable.level # "settings_only" => WholePortable(PortableBase)

AllInside(S) ==
  IsAbsolute(roots["config"]) /\ IsAbsolute(roots["state"]) =>
    \A p \in S : \E n \in RootNames : roots[n] # Empty /\ IsUnder(p, roots[n])

\* What is to be created lies below the roots, and these are settled by then.
CreationInv ==
  /\ at \notin {"creating named", "creating", "done"} => created = {}
  /\ at \in {"creating named", "creating"} => AllInside({todo[i] : i \in DOMAIN todo})
  /\ AllInside(created)

RootsInv == RootsTypeOK /\ ModeInv /\ CreationInv

LEMMA DefaultRootsType ==
  ASSUME q \in Calls
  PROVE  Resources \in Paths /\ DefaultRoots \in [RootNames -> Paths]
<1>1. IsPathOptions(q.paths)
  BY RequestTypes
<1>2. Resources \in Paths
  BY <1>1, ResourcesType DEF Resources
<1>3. \A f \in BaseFamilies : PathReport.selected[f] \in Paths
  BY <1>1, BaseIsBest DEF PathReport
<1>4. PathReport.selected["runtime"] \in Paths
  BY <1>1, RuntimeType DEF PathReport
<1>5. \A n \in RootNames : n = "resources" \/ n = "runtime" \/ n \in BaseFamilies
  BY DEF RootNames, BaseFamilies
<1>. HIDE DEF Resources, PathReport
<1>. QED  BY <1>2, <1>3, <1>4, <1>5 DEF DefaultRoots

LEMMA RootsUnderType ==
  ASSUME q \in Calls, NEW base \in Paths
  PROVE  /\ RootsUnder(base) \in [RootNames -> Paths]
         /\ RootsUnder(base)["config"] = base /\ RootsUnder(base)["data"] = base /\ RootsUnder(base)["state"] = base
         /\ RootsUnder(base)["cache"] = Append(base, "cache") /\ RootsUnder(base)["runtime"] = Empty
         /\ IsPrefix(base, base) /\ IsPrefix(base, Append(base, "cache"))
<1>1. Append(base, "cache") \in Paths /\ IsPrefix(base, Append(base, "cache"))
  BY AppendType, OwnNames
<1>2. IsPrefix(base, base)
  BY PrefixIsOrder DEF Paths
<1>3. Resources \in Paths /\ Empty \in Paths
  BY DefaultRootsType, OwnNames
<1>4. NoRoots \in [RootNames -> Paths]
  BY <1>3 DEF NoRoots
<1>. QED  BY <1>1, <1>2, <1>3, <1>4 DEF RootsUnder, NoRoots, RootNames

\* The portable layer is the one that is written.
LEMMA PortableLayerIsWritten ==
  ASSUME mode = "portable"
  PROVE  ActiveWriteLayer.path = roots["config"]
<1> DEFINE a == Layer("defaults", roots["resources"], 10, FALSE)
           b == Layer("global", <<"/", "etc", "xdg">> \o Leaf, 20, FALSE)
           c == Layer("user", roots["config"], 30, TRUE)
           d == Layer("local", roots["state"], 40, TRUE)
           e == Layer("managed", <<"/", "etc", "dconf", "db", Last(Leaf), "defaults">>, 60, FALSE)
           f == Layer("enforced", <<"/", "etc", "dconf", "db", Last(Leaf), "locks">>, 70, FALSE)
           p == Layer("portable", roots["config"], 50, TRUE)
           u == Layer("sync_config_override", roots["config"], 30, TRUE)
           all == {a, b, c, d, e, f, p, u}
           first == <<a, b, c, d, e, f>>
           last == IF overridden THEN <<u>> ELSE <<>>
<1>1. /\ ~a.writable /\ ~b.writable /\ ~e.writable /\ ~f.writable
      /\ c.writable /\ d.writable /\ p.writable /\ u.writable
      /\ c.precedence = 30 /\ d.precedence = 40 /\ p.precedence = 50 /\ u.precedence = 30
      /\ p.path = roots["config"]
  BY DEF Layer
<1>2. Layers = ((first \o <<p>>) \o <<>>) \o last
  BY DEF Layers
<1>. HIDE DEF a, b, c, d, e, f, p, u
<1>3. first \in Seq(all) /\ <<p>> \in Seq(all) /\ last \in Seq(all) /\ <<>> \in Seq(all) /\ Len(<<p>>) = 1 /\ <<p>>[1] = p
  <2>1. <<u>> \in Seq(all) /\ <<p>> \in Seq(all) /\ first \in Seq(all)
    OBVIOUS
  <2>. QED  BY <2>1, EmptySeq
<1>4. first \o <<p>> \in Seq(all) /\ (first \o <<p>>) \o <<>> = first \o <<p>>
  <2>. HIDE DEF first, all
  <2>. QED  BY <1>3, ConcatProperties, ConcatEmptySeq
<1>5. Layers \in Seq(all) /\ \E i \in 1 .. Len(Layers) : Layers[i] = p
  <2>. HIDE DEF first, last, all
  <2>1. Len(first) \in Nat /\ Len(last) \in Nat
    BY <1>3, LenProperties
  <2>2. Len(first \o <<p>>) = Len(first) + 1 /\ (first \o <<p>>)[Len(first) + 1] = p
    <3>1. /\ Len(first \o <<p>>) = Len(first) + Len(<<p>>)
          /\ \A i \in 1 .. Len(first) + Len(<<p>>) :
               (first \o <<p>>)[i] = IF i <= Len(first) THEN first[i] ELSE <<p>>[i - Len(first)]
      BY <1>3, ConcatProperties
    <3>2. Len(first) + 1 \in 1 .. Len(first) + 1 /\ ~(Len(first) + 1 <= Len(first)) /\ (Len(first) + 1) - Len(first) = 1
      BY <2>1
    <3>. QED  BY <1>3, <3>1, <3>2
  <2> DEFINE front == first \o <<p>>
  <2>3. front \in Seq(all) /\ Layers = front \o last /\ Len(front) = Len(first) + 1 /\ front[Len(first) + 1] = p
    BY <1>2, <1>4, <2>2
  <2>. HIDE DEF front
  <2>4. /\ front \o last \in Seq(all) /\ Len(front \o last) = Len(front) + Len(last)
        /\ \A i \in 1 .. Len(front) + Len(last) : (front \o last)[i] = IF i <= Len(front) THEN front[i] ELSE last[i - Len(front)]
    <3>1. \A x, y \in Seq(all) :
            /\ x \o y \in Seq(all) /\ Len(x \o y) = Len(x) + Len(y)
            /\ \A i \in 1 .. Len(x) + Len(y) : (x \o y)[i] = IF i <= Len(x) THEN x[i] ELSE y[i - Len(x)]
      BY ConcatProperties
    <3>2. front \in Seq(all) /\ last \in Seq(all)
      BY <1>3, <2>3
    <3>. QED  BY <3>1, <3>2
  <2>5. Len(first) + 1 \in 1 .. Len(front) + Len(last) /\ Len(first) + 1 <= Len(front)
    BY <2>1, <2>3
  <2>6. (front \o last)[Len(first) + 1] = p
    BY <2>3, <2>4, <2>5
  <2>. QED  BY <2>3, <2>4, <2>5, <2>6
<1>6. ToSet(Layers) \subseteq all /\ p \in ToSet(Layers)
  <2>1. DOMAIN Layers = 1 .. Len(Layers) /\ \A i \in 1 .. Len(Layers) : Layers[i] \in all
    <3>. HIDE DEF all
    <3>. QED  BY <1>5, LenProperties, ElementOfSeq
  <2>. HIDE DEF all
  <2>. QED  BY <1>5, <2>1 DEF ToSet
<1> DEFINE W == {l \in ToSet(Layers) : l.writable}
<1>7. p \in W /\ \A k \in W : k \in {c, d, p, u}
  BY <1>1, <1>6
<1>8. \A k \in W : k.precedence <= p.precedence
  <2>. HIDE DEF W
  <2>. QED  BY <1>1, <1>7
<1> DEFINE x == CHOOSE l \in W : \A k \in W : k.precedence <= l.precedence
<1>9. x \in W /\ \A k \in W : k.precedence <= x.precedence
  <2>. HIDE DEF W
  <2>. QED  BY <1>7, <1>8
<1>10. x = p
  <2>1. p.precedence <= x.precedence /\ x \in {c, d, p, u}
    <3>. HIDE DEF W, x
    <3>. QED  BY <1>7, <1>9
  <2>. HIDE DEF x
  <2>. QED  BY <1>1, <2>1
<1>11. ActiveWriteLayer = x
  BY DEF ActiveWriteLayer
<1>. QED  BY <1>1, <1>10, <1>11

\* ModeIsWhole follows.
LEMMA WholeByMode ==
  ASSUME q \in Calls, ModeInv
  PROVE  ModeIsWhole
<1>1. ASSUME mode = "override"
      PROVE  /\ roots["runtime"] = Empty
             /\ \A n \in {"config", "data", "state", "cache"} : IsPrefix(q.override, roots[n])
  <2>1. q.override \in Paths
    BY RequestTypes
  <2>. QED  BY <1>1, <2>1, RootsUnderType DEF ModeInv
<1>2. ASSUME mode = "portable", q.portable.level # "settings_only"
      PROVE  /\ \A n \in {"data", "state", "cache"} : IsPrefix(PortableBase, roots[n])
             /\ ~q.portable.allowUser => IsPrefix(PortableBase, roots["config"]) /\ IsPrefix(PortableBase, ActiveWriteLayer.path)
             /\ roots["runtime"] = Empty
  <2>1. WholePortable(PortableBase)
    BY <1>2 DEF ModeInv
  <2> DEFINE base == PortableBase
  <2>2. /\ base \in Paths /\ \A n \in RootNames \ {"config"} : roots[n] = RootsUnder(base)[n]
        /\ roots["config"] = base \/ q.portable.allowUser
    BY <2>1 DEF WholePortable
  <2>. HIDE DEF base
  <2>3. {"data", "state", "cache", "runtime"} \subseteq RootNames \ {"config"}
    BY DEF RootNames
  <2>4. /\ RootsUnder(base)["data"] = base /\ RootsUnder(base)["state"] = base
        /\ RootsUnder(base)["cache"] = Append(base, "cache") /\ RootsUnder(base)["runtime"] = Empty
        /\ IsPrefix(base, base) /\ IsPrefix(base, Append(base, "cache"))
    BY <2>2, RootsUnderType
  <2>5. ActiveWriteLayer.path = roots["config"]
    BY <1>2, PortableLayerIsWritten
  <2>6. roots["data"] = base /\ roots["state"] = base /\ roots["cache"] = Append(base, "cache") /\ roots["runtime"] = Empty
    BY <2>2, <2>3, <2>4
  <2>7. \A n \in {"data", "state", "cache"} : IsPrefix(base, roots[n])
    BY <2>4, <2>6
  <2>8. ~q.portable.allowUser => IsPrefix(base, roots["config"]) /\ IsPrefix(base, ActiveWriteLayer.path)
    BY <2>2, <2>4, <2>5
  <2>. QED  BY <2>6, <2>7, <2>8 DEF base
<1>3. mode = "portable" => requested /\ q.portable.allow /\ q.portable.level # "off"
  BY DEF ModeInv
<1>. QED  BY <1>1, <1>2, <1>3 DEF ModeIsWhole, PortableBase

LEMMA BestByRequest ==
  ASSUME q \in Calls
  PROVE  BestSourceWins
<1>1. IsPathOptions(q.paths) /\ q.plugins \in Seq(PluginSets)
  BY RequestTypes
<1>2. BasesAreBest
  BY <1>1, BaseIsBest DEF BasesAreBest, PathReport
<1>3. \A s \in ToSet(q.plugins) : s \in PluginSets
  BY <1>1, ElementOfSeq, LenProperties DEF ToSet
<1>4. SearchPathsAreBest
  BY <1>1, <1>3, SearchPathIsBest DEF SearchPathsAreBest
<1>. QED  BY <1>2, <1>4 DEF BestSourceWins

-----------------------------------------------------------------------------
(* What is created lies below the roots *)

LEMMA InsideItself ==
  ASSUME NEW p \in Paths
  PROVE  IsUnder(p, p)
BY NormalType, PrefixIsOrder DEF IsUnder, Paths

LEMMA InsideAppend ==
  ASSUME NEW p \in Paths, NEW x \in Segments, x \notin {".", ".."}
  PROVE  IsUnder(Append(p, x), p)
<1>1. Normal(p) \in Seq(Segments)
  BY NormalType DEF Paths
<1>2. Normal(Append(p, x)) = Append(Normal(p), x)
  BY NormalAppend DEF NormalStep, Paths
<1>3. IsPrefix(Normal(p), Append(Normal(p), x))
  BY <1>1, AppendElements
<1>. QED  BY <1>2, <1>3 DEF IsUnder

LEMMA InsideInside ==
  ASSUME NEW p \in Paths, NEW r \in Paths, NEW s \in Paths, IsUnder(p, r), IsUnder(r, s)
  PROVE  IsUnder(p, s)
<1>1. Normal(p) \in Seq(Segments) /\ Normal(r) \in Seq(Segments) /\ Normal(s) \in Seq(Segments)
  BY NormalType DEF Paths
<1>2. \A a, b, c \in Seq(Segments) : IsPrefix(a, b) /\ IsPrefix(b, c) => IsPrefix(a, c)
  BY PrefixIsOrder
<1>. QED  BY <1>1, <1>2 DEF IsUnder

LEMMA NamedType ==
  ASSUME roots \in [RootNames -> Paths], NEW n \in NamedRequests
  PROVE  /\ BasePathFor(n) \in {roots[x] : x \in RootNames} \cup {Append(roots["config"], x) : x \in {"managed", "enforced"}}
         /\ BasePathFor(n) \in Paths /\ NamedPath(n) \in Paths
<1>1. n.ownership \in Ownerships /\ n.purpose \in Purposes /\ n.name \in Segments /\ n.relative \in Paths /\ n.component \in Segments
  BY DEF NamedRequests
<1>2. PurposeRoot(n.purpose) \in {roots[x] : x \in RootNames}
  <2>1. CASE n.purpose \in {"data", "component_data"}
    BY <2>1 DEF PurposeRoot, RootNames
  <2>2. CASE n.purpose \in {"state", "session", "logs", "component_state"}
    BY <2>2 DEF PurposeRoot, RootNames
  <2>3. CASE n.purpose \in {"cache", "temp"}
    BY <2>3 DEF PurposeRoot, RootNames
  <2>4. CASE n.purpose \in {"runtime", "resources"}
    BY <2>4 DEF PurposeRoot, RootNames
  <2>5. CASE n.purpose \notin {"data", "component_data", "state", "session", "logs", "component_state", "cache", "temp",
                               "runtime", "resources"}
    BY <2>5 DEF PurposeRoot, RootNames
  <2>. QED  BY <2>1, <2>2, <2>3, <2>4, <2>5
<1>3. {roots["config"], roots["cache"], roots["runtime"], roots["state"]} \subseteq {roots[x] : x \in RootNames}
  BY DEF RootNames
<1>4. BasePathFor(n) \in {roots[x] : x \in RootNames} \cup {Append(roots["config"], x) : x \in {"managed", "enforced"}}
  BY <1>1, <1>2, <1>3 DEF BasePathFor, Ownerships
<1>5. BasePathFor(n) \in Paths
  <2>1. roots["config"] \in Paths /\ \A x \in RootNames : roots[x] \in Paths
    BY DEF RootNames
  <2>2. Append(roots["config"], "managed") \in Paths /\ Append(roots["config"], "enforced") \in Paths
    BY <2>1, AppendType, OwnNames
  <2>. QED  BY <1>4, <2>1, <2>2
<1>6. RelativePath(n) \in Paths
  <2>1. <<n.name>> \in Paths /\ <<"components", n.component>> \in Paths
    BY <1>1, OwnNames DEF Paths
  <2>2. \A own \in Paths : <<"components", n.component>> \o own \in Paths
    BY <2>1, ConcatType
  <2>. QED  BY <1>1, <2>1, <2>2 DEF RelativePath
<1>. QED  BY <1>4, <1>5, <1>6, ConcatType DEF NamedPath

LEMMA ConfinedInside ==
  ASSUME roots \in [RootNames -> Paths], IsAbsolute(roots["config"]), NEW n \in NamedRequests, Confined(n)
  PROVE  \E x \in RootNames : roots[x] # Empty /\ IsUnder(NamedPath(n), roots[x])
<1>1. /\ BasePathFor(n) \in {roots[x] : x \in RootNames} \cup {Append(roots["config"], x) : x \in {"managed", "enforced"}}
      /\ BasePathFor(n) \in Paths /\ NamedPath(n) \in Paths
  BY NamedType
<1>2. BasePathFor(n) # Empty /\ IsUnder(NamedPath(n), BasePathFor(n))
  BY DEF Confined
<1>3. "config" \in RootNames /\ roots["config"] \in Paths /\ roots["config"] # Empty
  BY DEF RootNames, IsAbsolute, Empty
<1>4. CASE BasePathFor(n) \in {roots[x] : x \in RootNames}
  BY <1>2, <1>4
<1>5. ASSUME NEW x \in {"managed", "enforced"}, BasePathFor(n) = Append(roots["config"], x)
      PROVE  IsUnder(NamedPath(n), roots["config"])
  <2>1. x \in Segments /\ x \notin {".", ".."}
    BY OwnNames
  <2>2. IsUnder(Append(roots["config"], x), roots["config"])
    BY <1>3, <2>1, InsideAppend
  <2>. QED  BY <1>1, <1>2, <1>3, <1>5, <2>2, InsideInside
<1>. QED  BY <1>1, <1>3, <1>4, <1>5

LEMMA StandardInside ==
  ASSUME roots \in [RootNames -> Paths], NEW i \in DOMAIN StandardPaths
  PROVE  /\ StandardPaths[i] \in Paths /\ i \in Nat
         /\ IsAbsolute(roots["config"]) /\ IsAbsolute(roots["state"]) /\ StandardPaths[i] # Empty =>
              \E x \in RootNames : roots[x] # Empty /\ IsUnder(StandardPaths[i], roots[x])
<1>1. \A x \in RootNames : roots[x] \in Paths /\ IsUnder(roots[x], roots[x])
  BY InsideItself
<1>2. {"config", "data", "state", "cache", "runtime"} \subseteq RootNames
  BY DEF RootNames
<1>3. SessionRoot \in Paths /\ IsUnder(SessionRoot, roots["state"])
  BY <1>1, <1>2, AppendType, InsideAppend, OwnNames DEF SessionRoot
<1>4. PluginConfigRoot \in Paths /\ IsUnder(PluginConfigRoot, roots["config"])
  <2> DEFINE p == Append(roots["config"], "plugins")
  <2>1. p \in Paths /\ IsUnder(p, roots["config"])
    BY <1>1, <1>2, AppendType, InsideAppend, OwnNames
  <2>2. PluginConfigRoot = Append(p, "Config")
    BY <1>1, <1>2 DEF PluginConfigRoot, Paths
  <2>. HIDE DEF p
  <2>3. Append(p, "Config") \in Paths /\ IsUnder(Append(p, "Config"), p)
    BY <2>1, AppendType, InsideAppend, OwnNames
  <2>. QED  BY <1>1, <1>2, <2>1, <2>2, <2>3, InsideInside
<1>5. /\ i \in 1 .. 7
      /\ StandardPaths[i] \in {roots[x] : x \in {"config", "data", "state", "cache", "runtime"}} \cup {SessionRoot, PluginConfigRoot}
  <2>. HIDE DEF SessionRoot, PluginConfigRoot
  <2>1. i \in 1 .. 7
    BY DEF StandardPaths
  <2>. QED  BY <2>1 DEF StandardPaths
<1>6. \A p \in Paths : IsAbsolute(p) => p # Empty
  BY DEF IsAbsolute, Empty
<1>7. CASE StandardPaths[i] \in {roots[x] : x \in {"config", "data", "state", "cache", "runtime"}}
  BY <1>1, <1>2, <1>5, <1>7
<1>8. CASE StandardPaths[i] \in {SessionRoot, PluginConfigRoot}
  BY <1>1, <1>2, <1>3, <1>4, <1>5, <1>6, <1>8
<1>. QED  BY <1>5, <1>7, <1>8

LEMMA PlaceIsIn ==
  ASSUME DOMAIN todo \subseteq Nat, DOMAIN todo # {}
  PROVE  Place \in DOMAIN todo
<1>1. \E i \in DOMAIN todo : \A j \in DOMAIN todo : i <= j
  BY LeastNumber
<1>. QED  BY <1>1 DEF Place

LEMMA ErrorType == PathReport.error \in BOOLEAN
BY DEF PathReport, ResolveAppPaths
-----------------------------------------------------------------------------
(* The steps *)

LEMMA RootsStart == RootsInit => RootsInv
<1> SUFFICES ASSUME RootsInit PROVE RootsInv
  OBVIOUS
<1>1. RootsTypeOK
  <2>1. NoRoots \in [RootNames -> Paths]
    BY OwnNames DEF NoRoots
  <2>2. 0 \in 0 .. MaxChanges
    BY OwnNames
  <2>3. DOMAIN Nothing = {}
    BY DEF Nothing
  <2>. QED  BY <2>1, <2>2, <2>3 DEF RootsInit, RootsTypeOK, Stages
<1>2. ModeInv
  BY DEF RootsInit, ModeInv
<1>3. CreationInv
  BY DEF RootsInit, CreationInv, AllInside
<1>. QED  BY <1>1, <1>2, <1>3 DEF RootsInv

\* What is decided stays decided.
LEMMA ModeFrame ==
  ASSUME ModeInv, UNCHANGED <<q, requested, mode, roots>>, at' # "start" \/ at' = at, Decided => Decided'
  PROVE  ModeInv'
BY DEF ModeInv, WholePortable, PortableBase, RootsUnder, Resources, NoRoots

LEMMA PathsOnlySteps ==
  ASSUME RootsInv, ResolvePathsOnly
  PROVE  RootsInv'
<1>1. RootsTypeOK'
  BY ErrorType DEF RootsInv, RootsTypeOK, ResolvePathsOnly, Stages, listing, decision
<1>2. ModeInv'
  BY ModeFrame DEF RootsInv, ResolvePathsOnly, decision, Decided
<1>3. CreationInv'
  BY DEF RootsInv, CreationInv, AllInside, ResolvePathsOnly
<1>. QED  BY <1>1, <1>2, <1>3 DEF RootsInv

LEMMA OverrideSteps ==
  ASSUME RootsInv, AppRootOverride
  PROVE  RootsInv'
<1>1. q \in Calls /\ q.override \in Paths /\ mode = "default" /\ created = {} /\ at = "start" /\ at' = "marker"
      /\ UNCHANGED <<q, marker, listing, requested, overridden, todo, existed, created, changes>>
  BY RequestTypes DEF RootsInv, RootsTypeOK, ModeInv, CreationInv, AppRootOverride
<1>2. \/ IsAbsolute(q.override) /\ mode' = "override" /\ roots' = RootsUnder(q.override)
      \/ mode' = "default" /\ roots' = [NoRoots EXCEPT !["resources"] = Resources]
  BY <1>1 DEF AppRootOverride
<1>3. roots' \in [RootNames -> Paths]
  <2>1. RootsUnder(q.override) \in [RootNames -> Paths] /\ Resources \in Paths
    BY <1>1, RootsUnderType, DefaultRootsType
  <2>2. [NoRoots EXCEPT !["resources"] = Resources] \in [RootNames -> Paths]
    BY <2>1, OwnNames DEF NoRoots
  <2>. QED  BY <1>2, <2>1, <2>2
<1>4. failed' \in BOOLEAN
  BY DEF AppRootOverride
<1>5. RootsTypeOK'
  BY <1>1, <1>2, <1>3, <1>4 DEF RootsInv, RootsTypeOK, Stages, listing
<1>6. ModeInv'
  BY <1>1, <1>2 DEF ModeInv, RootsUnder, Resources, NoRoots
<1>7. CreationInv'
  BY <1>1 DEF CreationInv, AllInside
<1>. QED  BY <1>5, <1>6, <1>7 DEF RootsInv

LEMMA MarkerSteps ==
  ASSUME RootsInv, LookForMarker
  PROVE  RootsInv'
<1>1. at = "marker" /\ at' = "portable" /\ created = {} /\ mode # "portable"
      /\ UNCHANGED <<q, marker, listing, mode, overridden, roots, failed, todo, existed, created, changes>>
  BY DEF RootsInv, ModeInv, CreationInv, LookForMarker, Decided
<1>2. requested' \in BOOLEAN
  BY DEF LookForMarker
<1>3. RootsTypeOK'
  BY <1>1, <1>2 DEF RootsInv, RootsTypeOK, Stages, listing
<1>4. ModeInv'
  BY <1>1 DEF RootsInv, ModeInv, RootsUnder, Resources, NoRoots
<1>5. CreationInv'
  BY <1>1 DEF CreationInv, AllInside
<1>. QED  BY <1>3, <1>4, <1>5 DEF RootsInv

LEMMA PortableSteps ==
  ASSUME RootsInv, SelectPortable
  PROVE  RootsInv'
<1> DEFINE root == PortableRoot
           active == mode # "override" /\ requested /\ IsAbsolute(root) /\ ~PortableDenied(root)
<1>1. /\ q \in Calls /\ roots \in [RootNames -> Paths] /\ at = "portable" /\ at' = "defaults"
      /\ created = {} /\ mode \in {"default", "override"} /\ q.portable \in PortableRequests
      /\ UNCHANGED <<q, marker, listing, requested, overridden, todo, existed, created, changes>>
  BY RequestTypes DEF RootsInv, RootsTypeOK, ModeInv, CreationInv, SelectPortable, Decided
<1>2. /\ mode' = IF active THEN "portable" ELSE mode
      /\ roots' = IF active THEN PortableRoots(root) ELSE roots
  BY DEF SelectPortable
<1>3. failed' \in BOOLEAN
  BY DEF SelectPortable
<1>4. root \in Paths /\ (root # Empty => root = PortableBase)
  <2>1. q.portable.root \in Paths /\ q.portable.marker \in Paths
    BY <1>1 DEF PortableRequests
  <2>2. q.portable.marker # Empty => Front(q.portable.marker) \in Paths
    BY <2>1, FrontType
  <2>. QED  BY <2>1, <2>2, OwnNames DEF PortableRoot, PortableBase
<1>5. PortableRoots(root) \in [RootNames -> Paths]
  <2>1. DefaultRoots \in [RootNames -> Paths] /\ RootsUnder(root) \in [RootNames -> Paths]
    <3>. HIDE DEF root
    <3>. QED  BY <1>1, <1>4, DefaultRootsType, RootsUnderType
  <2>. HIDE DEF root
  <2>. QED  BY <1>4, <2>1 DEF PortableRoots
<1>6. roots' \in [RootNames -> Paths]
  <2>. HIDE DEF root, active
  <2>. QED  BY <1>1, <1>2, <1>5
<1>7. RootsTypeOK'
  <2>. HIDE DEF root, active
  <2>. QED  BY <1>1, <1>2, <1>3, <1>6 DEF RootsInv, RootsTypeOK, Stages, listing
<1>8. ModeInv'
  <2>1. CASE ~active
    <3>1. UNCHANGED <<q, requested, mode, roots>>
      BY <1>1, <1>2, <2>1
    <3>. QED  BY <1>1, <3>1, ModeFrame DEF RootsInv, Decided
  <2>2. CASE active
    <3>1. /\ requested' /\ mode' = "portable" /\ roots' = PortableRoots(root) /\ q' = q
          /\ q.portable.allow /\ q.portable.level # "off" /\ IsAbsolute(root)
      BY <1>1, <1>2, <2>2 DEF PortableDenied
    <3>2. root # Empty
      BY <3>1 DEF IsAbsolute, Empty
    <3>3. root = PortableBase /\ PortableBase' = PortableBase
      BY <1>4, <3>1, <3>2 DEF PortableBase
    <3>4. ASSUME q.portable.level # "settings_only"
          PROVE  WholePortable(PortableBase)'
      <4>1. roots' = RootsUnder(root) /\ RootsUnder(root)["config"] = root
        <5>. HIDE DEF root
        <5>. QED  BY <1>1, <1>4, <3>1, <3>4, RootsUnderType DEF PortableRoots
      <4>2. \A base : RootsUnder(base)' = RootsUnder(base)
        BY <1>1 DEF RootsUnder, Resources, NoRoots
      <4>. HIDE DEF root
      <4>. QED  BY <1>1, <1>4, <3>1, <3>2, <3>3, <4>1, <4>2 DEF WholePortable
    <3>. HIDE DEF root, active
    <3>. QED  BY <1>1, <3>1, <3>4 DEF ModeInv, Decided
  <2>. QED  BY <2>1, <2>2
<1>9. CreationInv'
  BY <1>1 DEF CreationInv, AllInside
<1>. QED  BY <1>7, <1>8, <1>9 DEF RootsInv

LEMMA DefaultsSteps ==
  ASSUME RootsInv, ApplyDefaults
  PROVE  RootsInv'
<1> DEFINE base == IF roots["config"] = Empty /\ ~failed THEN DefaultRoots ELSE roots
           wanted == q.userConfig # Empty /\ UserConfigAllowed
           moved == wanted /\ IsAbsolute(q.userConfig)
<1>1. /\ q \in Calls /\ q.userConfig \in Paths /\ roots \in [RootNames -> Paths] /\ at = "defaults" /\ at' = "named"
      /\ created = {} /\ UNCHANGED <<q, marker, listing, requested, mode, todo, existed, created, changes>>
  BY RequestTypes DEF RootsInv, RootsTypeOK, CreationInv, ApplyDefaults
<1>2. roots' = IF moved THEN [base EXCEPT !["config"] = q.userConfig] ELSE base
  BY DEF ApplyDefaults
<1>3. overridden' \in BOOLEAN /\ failed' \in BOOLEAN
  BY DEF ApplyDefaults
<1>4. roots' \in [RootNames -> Paths]
  <2>1. base \in [RootNames -> Paths]
    BY <1>1, DefaultRootsType
  <2>. HIDE DEF base, moved
  <2>. QED  BY <1>1, <1>2, <2>1
<1>5. RootsTypeOK'
  <2>. HIDE DEF base, wanted, moved
  <2>. QED  BY <1>1, <1>3, <1>4 DEF RootsInv, RootsTypeOK, Stages, listing
<1>6. ModeInv'
  <2>1. CASE mode = "override"
    <3>1. roots["config"] = q.override /\ q.override # Empty /\ roots = RootsUnder(q.override)
      <4>1. IsAbsolute(q.override) /\ roots = RootsUnder(q.override)
        BY <2>1 DEF RootsInv, ModeInv
      <4>2. q.override \in Paths
        BY <1>1, RequestTypes
      <4>. QED  BY <1>1, <4>1, <4>2, RootsUnderType DEF IsAbsolute, Empty
    <3>2. roots' = roots
      BY <1>2, <2>1, <3>1 DEF UserConfigAllowed
    <3>. QED  BY <1>1, <3>2, ModeFrame DEF RootsInv, Decided
  <2>2. CASE mode = "portable"
    <3>1. /\ requested /\ q.portable.allow /\ q.portable.level # "off"
          /\ q.portable.level # "settings_only" => WholePortable(PortableBase)
      BY <2>2 DEF RootsInv, ModeInv
    <3>2. ASSUME q.portable.level # "settings_only"
          PROVE  WholePortable(PortableBase)'
      <4>1. WholePortable(PortableBase)
        BY <3>1, <3>2
      <4>2. base = roots
        BY <4>1 DEF WholePortable
      <4>3. moved => q.portable.allowUser /\ q.userConfig # Empty
        BY <2>2 DEF UserConfigAllowed
      <4>4. PortableBase' = PortableBase /\ \A b : RootsUnder(b)' = RootsUnder(b)
        BY <1>1 DEF PortableBase, RootsUnder, Resources, NoRoots
      <4>5. roots' = roots \/ (roots' = [roots EXCEPT !["config"] = q.userConfig] /\ q.portable.allowUser /\ q.userConfig # Empty)
        BY <1>2, <4>2, <4>3
      <4>. HIDE DEF base, wanted, moved
      <4>6. /\ roots'["config"] # Empty /\ (roots'["config"] = PortableBase \/ q.portable.allowUser)
            /\ \A n \in RootNames \ {"config"} : roots'[n] = RootsUnder(PortableBase)[n]
        BY <1>1, <4>1, <4>5 DEF WholePortable, RootNames
      <4>7. PortableBase \in Paths /\ IsAbsolute(PortableBase)
        BY <4>1 DEF WholePortable
      <4>. QED  BY <1>1, <4>4, <4>6, <4>7 DEF WholePortable
    <3>. HIDE DEF base, wanted, moved
    <3>. QED  BY <1>1, <2>2, <3>1, <3>2 DEF ModeInv, Decided
  <2>3. CASE mode \notin {"override", "portable"}
    BY <1>1, <2>3 DEF ModeInv
  <2>. QED  BY <2>1, <2>2, <2>3
<1>7. CreationInv'
  BY <1>1 DEF CreationInv, AllInside
<1>. QED  BY <1>5, <1>6, <1>7 DEF RootsInv

LEMMA NamedSteps ==
  ASSUME RootsInv, ResolveNamedRoots
  PROVE  RootsInv'
<1> DEFINE S == {i \in DOMAIN q.named : q.create /\ q.named[i].create /\ Confined(q.named[i])}
<1>1. /\ q \in Calls /\ roots \in [RootNames -> Paths] /\ created = {} /\ at = "named" /\ at' = "creating named"
      /\ UNCHANGED <<q, marker, listing, decision, failed, existed, created, changes>>
      /\ todo' = [i \in S |-> NamedPath(q.named[i])]
  BY DEF RootsInv, RootsTypeOK, CreationInv, ResolveNamedRoots
<1>2. DOMAIN q.named \subseteq Nat /\ \A i \in DOMAIN q.named : q.named[i] \in NamedRequests
  <2>1. q.named \in Seq(NamedRequests)
    BY <1>1, RequestTypes
  <2>. QED  BY <2>1, ElementOfSeq, LenProperties
<1>3. S \subseteq DOMAIN q.named /\ \A i \in S : Confined(q.named[i])
  OBVIOUS
<1>. HIDE DEF S
<1>4. DOMAIN todo' = S /\ \A i \in S : todo'[i] = NamedPath(q.named[i])
  BY <1>1
<1>5. \A i \in S : NamedPath(q.named[i]) \in Paths
  BY <1>1, <1>2, <1>3, NamedType
<1>6. RootsTypeOK'
  BY <1>1, <1>2, <1>3, <1>4, <1>5 DEF RootsInv, RootsTypeOK, Stages, listing, decision
<1>7. ModeInv'
  BY <1>1, ModeFrame DEF RootsInv, Decided, decision
<1>8. CreationInv'
  <2>1. ASSUME IsAbsolute(roots["config"]), NEW i \in S
        PROVE  \E n \in RootNames : roots[n] # Empty /\ IsUnder(todo'[i], roots[n])
    BY <1>1, <1>2, <1>3, <1>4, <2>1, ConfinedInside
  <2>. QED  BY <1>1, <1>4, <2>1 DEF CreationInv, AllInside, decision
<1>. QED  BY <1>6, <1>7, <1>8 DEF RootsInv

LEMMA StandardSteps ==
  ASSUME RootsInv, StandardDirectories
  PROVE  RootsInv'
<1> DEFINE S == {i \in DOMAIN StandardPaths : StandardPaths[i] # Empty}
<1>1. /\ roots \in [RootNames -> Paths] /\ at = "creating named" /\ at' = "creating" /\ DOMAIN todo = {}
      /\ UNCHANGED <<q, marker, listing, decision, existed, created, changes>>
      /\ todo' = [i \in S |-> StandardPaths[i]] \/ todo' = todo
  BY DEF RootsInv, RootsTypeOK, StandardDirectories
<1>2. S \subseteq DOMAIN StandardPaths /\ \A i \in S : StandardPaths[i] # Empty
  OBVIOUS
<1>. HIDE DEF S
<1>3. DOMAIN todo' \subseteq S /\ \A i \in DOMAIN todo' : todo'[i] = StandardPaths[i]
  BY <1>1
<1>4. failed' \in BOOLEAN
  BY DEF StandardDirectories
<1>5. RootsTypeOK'
  <2>1. DOMAIN todo' \subseteq Nat /\ \A i \in DOMAIN todo' : todo'[i] \in Paths
    BY <1>1, <1>2, <1>3, StandardInside
  <2>. QED  BY <1>1, <1>4, <2>1 DEF RootsInv, RootsTypeOK, Stages, listing, decision
<1>6. ModeInv'
  BY <1>1, ModeFrame DEF RootsInv, Decided, decision
<1>7. CreationInv'
  <2>1. ASSUME IsAbsolute(roots["config"]), IsAbsolute(roots["state"]), NEW i \in DOMAIN todo'
        PROVE  \E n \in RootNames : roots[n] # Empty /\ IsUnder(todo'[i], roots[n])
    BY <1>1, <1>2, <1>3, <2>1, StandardInside
  <2>. QED  BY <1>1, <2>1 DEF RootsInv, CreationInv, AllInside, decision
<1>. QED  BY <1>5, <1>6, <1>7 DEF RootsInv

\* The next directory is one of those that are named, and leaves the rest.
LEMMA NextIsNamed ==
  ASSUME RootsTypeOK, DOMAIN todo # {}
  PROVE  /\ Directory \in Paths /\ Directory \in {todo[i] : i \in DOMAIN todo}
         /\ NextDirectory => /\ existed' = FALSE /\ DOMAIN todo' \subseteq DOMAIN todo
                             /\ \A i \in DOMAIN todo' : todo'[i] = todo[i]
<1>1. DOMAIN todo \subseteq Nat /\ \A i \in DOMAIN todo : todo[i] \in Paths
  BY DEF RootsTypeOK
<1>2. Place \in DOMAIN todo
  BY <1>1, PlaceIsIn
<1> DEFINE S == DOMAIN todo \ {Place}
<1>3. NextDirectory => existed' = FALSE /\ todo' = [i \in S |-> todo[i]]
  BY DEF NextDirectory
<1>4. S \subseteq DOMAIN todo
  OBVIOUS
<1>. HIDE DEF S
<1>. QED  BY <1>1, <1>2, <1>3, <1>4 DEF Directory

LEMMA LookSteps ==
  ASSUME RootsInv, LookAtDirectory
  PROVE  RootsInv'
<1>1. /\ RootsTypeOK /\ ModeInv /\ at \in {"creating named", "creating"} /\ DOMAIN todo # {}
      /\ UNCHANGED <<q, marker, listing, decision, at, created, changes>>
      /\ NextDirectory \/ (existed' = TRUE /\ UNCHANGED todo)
  BY DEF RootsInv, LookAtDirectory, Creating
<1>2. existed' \in BOOLEAN /\ DOMAIN todo' \subseteq DOMAIN todo /\ \A i \in DOMAIN todo' : todo'[i] = todo[i]
  BY <1>1, NextIsNamed
<1>3. failed' \in BOOLEAN
  BY <1>1 DEF LookAtDirectory, RootsTypeOK
<1>4. RootsTypeOK'
  BY <1>1, <1>2, <1>3 DEF RootsTypeOK, listing, decision
<1>5. ModeInv'
  BY <1>1, ModeFrame DEF Decided, decision
<1>6. CreationInv'
  BY <1>1, <1>2 DEF RootsInv, CreationInv, AllInside, decision
<1>. QED  BY <1>4, <1>5, <1>6 DEF RootsInv

LEMMA CreateSteps ==
  ASSUME RootsInv, CreateDirectory
  PROVE  RootsInv'
<1>1. /\ RootsTypeOK /\ ModeInv /\ at \in {"creating named", "creating"} /\ DOMAIN todo # {} /\ NextDirectory
      /\ UNCHANGED <<q, marker, blocked, decision, at, changes>>
  BY DEF RootsInv, CreateDirectory, Creating
<1>2. /\ existed' = FALSE /\ DOMAIN todo' \subseteq DOMAIN todo /\ \A i \in DOMAIN todo' : todo'[i] = todo[i]
      /\ Directory \in Paths /\ Directory \in {todo[i] : i \in DOMAIN todo}
  BY <1>1, NextIsNamed
<1>3. failed' \in BOOLEAN
  BY <1>1 DEF CreateDirectory, RootsTypeOK
<1>4. /\ created' = created \/ created' = created \cup {Directory}
      /\ directories' = directories \/ (directories' = directories \cup {Directory} /\ Directory \notin blocked)
  BY DEF CreateDirectory
<1>5. RootsTypeOK'
  BY <1>1, <1>2, <1>3, <1>4 DEF RootsTypeOK, decision
<1>6. ModeInv'
  BY <1>1, ModeFrame DEF Decided, decision
<1>7. CreationInv'
  <2>1. /\ IsAbsolute(roots["config"]) /\ IsAbsolute(roots["state"]) =>
             \A p \in {todo[i] : i \in DOMAIN todo} \cup created : \E n \in RootNames : roots[n] # Empty /\ IsUnder(p, roots[n])
    BY <1>1 DEF RootsInv, CreationInv, AllInside
  <2>. QED  BY <1>1, <1>2, <1>4, <2>1 DEF CreationInv, AllInside, decision
<1>. QED  BY <1>5, <1>6, <1>7 DEF RootsInv

LEMMA ReturnSteps ==
  ASSUME RootsInv, ReturnReport
  PROVE  RootsInv'
<1>1. RootsTypeOK'
  BY DEF RootsInv, RootsTypeOK, ReturnReport, Stages, listing, decision
<1>2. ModeInv'
  BY ModeFrame DEF RootsInv, ReturnReport, Decided, decision
<1>3. CreationInv'
  BY DEF RootsInv, CreationInv, AllInside, ReturnReport, decision
<1>. QED  BY <1>1, <1>2, <1>3 DEF RootsInv

LEMMA OtherSteps ==
  ASSUME RootsInv, OtherProcess
  PROVE  RootsInv'
<1>1. RootsTypeOK /\ UNCHANGED <<q, at, decision, failed, todo, existed, created>>
  BY DEF RootsInv, OtherProcess
<1>2. changes' \in 0 .. MaxChanges
  BY <1>1, OwnNames DEF OtherProcess, RootsTypeOK
<1>3. \/ marker' = ~marker /\ UNCHANGED listing
      \/ /\ Directory \in Paths /\ UNCHANGED marker
         /\ \/ directories' = directories \cup {Directory} /\ blocked' = blocked \ {Directory}
            \/ directories' = directories \ {Directory} /\ blocked' = blocked \cup {Directory}
  BY <1>1, NextIsNamed DEF OtherProcess, Creating
<1>4. marker' \in BOOLEAN
  BY <1>1, <1>3 DEF RootsTypeOK
<1>5. directories' \cup blocked' \cup created' \subseteq Paths /\ directories' \cap blocked' = {}
  BY <1>1, <1>3 DEF RootsTypeOK, listing
<1>6. RootsTypeOK'
  BY <1>1, <1>2, <1>4, <1>5 DEF RootsTypeOK, decision
<1>7. ModeInv'
  BY <1>1, ModeFrame DEF RootsInv, Decided, decision
<1>8. CreationInv'
  BY <1>1 DEF RootsInv, CreationInv, AllInside, decision
<1>. QED  BY <1>6, <1>7, <1>8 DEF RootsInv

LEMMA RootsSteps == RootsInv /\ [RootsNext]_rootsVars => RootsInv'
<1> SUFFICES ASSUME RootsInv, [RootsNext]_rootsVars PROVE RootsInv'
  OBVIOUS
<1>1. CASE UNCHANGED rootsVars
  <2>1. UNCHANGED <<q, marker, directories, blocked, at, requested, mode, overridden, roots, failed, todo, existed, created, changes>>
    BY <1>1 DEF rootsVars
  <2>2. RootsTypeOK'
    BY <2>1 DEF RootsInv, RootsTypeOK
  <2>3. ModeInv'
    BY <2>1, ModeFrame DEF RootsInv, Decided
  <2>4. CreationInv'
    BY <2>1 DEF RootsInv, CreationInv, AllInside
  <2>. QED  BY <2>2, <2>3, <2>4 DEF RootsInv
<1>2. CASE RootsNext
  BY <1>2, PathsOnlySteps, OverrideSteps, MarkerSteps, PortableSteps, DefaultsSteps, NamedSteps, StandardSteps,
     LookSteps, CreateSteps, ReturnSteps, OtherSteps DEF RootsNext
<1>. QED  BY <1>1, <1>2

LEMMA RootsInvHolds == RootsSpec => []RootsInv
BY RootsStart, RootsSteps, PTL DEF RootsSpec

\* Every variable keeps its type: what the call resolves is a path, a
\* directory is never a file as well, and the directories still to create
\* stand at their places (resolve_app_roots).
THEOREM RootsTypeCorrect == RootsSpec => []RootsTypeOK
<1>1. RootsInv => RootsTypeOK
  BY DEF RootsInv
<1>. QED  BY <1>1, RootsInvHolds, PTL

\* Each base directory comes from the first usable source, and a plugin search
\* path is without repetition, whole and in the order of the environment
\* (select_base_directory, resolve_plugin_path_sets).
THEOREM BestSourceAlwaysWins == RootsSpec => []BestSourceWins
<1>1. RootsInv => BestSourceWins
  BY BestByRequest DEF RootsInv, RootsTypeOK
<1>. QED  BY <1>1, RootsInvHolds, PTL

\* Whenever the marker comes or goes, a call ends wholly in the mode it reports
\* (resolve_app_roots, whose two looks at the marker are two steps).
THEOREM ModeAlwaysWhole == RootsSpec => []ModeIsWhole
<1>1. RootsInv => ModeIsWhole
  BY WholeByMode DEF RootsInv, RootsTypeOK
<1>. QED  BY <1>1, RootsInvHolds, PTL

\* No directory is created outside the roots the call reports, whatever the
\* named roots are called and whatever else happens on the disk
\* (resolve_named_root, create_directory_for_root, ensure_directory).
THEOREM AlwaysCreatedInside == RootsSpec => []CreatedInside
<1>1. RootsInv => CreatedInside
  BY DEF RootsInv, CreationInv, AllInside, CreatedInside
<1>. QED  BY <1>1, RootsInvHolds, PTL
=============================================================================
