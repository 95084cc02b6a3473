-------------------------- MODULE LibuvBackendProofs --------------------------
(***************************************************************************)
(* What the loop thread does for the callers: it knows no watch that the   *)
(* facade will not know when its mutex is free.  For any number of         *)
(* callers, watches and calls, with spurious wake-ups or without.          *)
(***************************************************************************)
EXTENDS LibuvBackend, TLAPS

\* The facade keeps its types, and a call that adds or removes names an identifier.
CallInv == FacadeTypeOK /\ \A c \in Callers : call[c].op # "stop" => call[c].id \in Ids

LEMMA CallInit == Init => CallInv
<1>. SUFFICES ASSUME Init PROVE CallInv
  OBVIOUS
<1>1. NoCall \in [op : Operations, id : Ids \cup {0}, at : Places, ok : BOOLEAN] /\ NoCall.op = "stop"
  BY DEF NoCall, Operations, Places
<1>2. 1 \in 1 .. MaxWatches + 1 /\ 0 \in 0 .. MaxCalls
  BY CallsAssumption
<1>. QED  BY <1>1, <1>2 DEF Init, FacadeInit, CallInv, FacadeTypeOK

LEMMA CallStep ==
  ASSUME CallInv, [Next]_vars
  PROVE  CallInv'
<1>0. MaxWatches \in Nat \ {0} /\ MaxCalls \in Nat /\ NoCall \in [op : Operations, id : Ids \cup {0}, at : Places, ok : BOOLEAN]
  BY CallsAssumption DEF NoCall, Operations, Places
<1>1. ASSUME NEW c \in Callers, NEW ok \in BOOLEAN, Answer(c, ok),
             UNCHANGED <<outer, registered, closing, nextId, made>>
      PROVE  CallInv'
  BY <1>1 DEF Answer, CallInv, FacadeTypeOK, Places
<1>2. ASSUME NEW c \in Callers, NEW op \in Operations, NEW id \in Ids \cup {0}, NEW at \in Places,
             Calls(c, op, id, at)
      PROVE  /\ made' \in 0 .. MaxCalls
             /\ call' \in [Callers -> [op : Operations, id : Ids \cup {0}, at : Places, ok : BOOLEAN]]
             /\ (op # "stop" => id \in Ids) => \A d \in Callers : call'[d].op # "stop" => call'[d].id \in Ids
  BY <1>0, <1>2 DEF Calls, CallInv, FacadeTypeOK
<1>3. ASSUME NEW c \in Callers, NewCall(c) PROVE CallInv'
  <2>1. CASE AddWatch(c)
    <3>1. nextId \in Ids /\ nextId + 1 \in 1 .. MaxWatches + 1
      BY <1>0, <2>1 DEF AddWatch, Ids, CallInv, FacadeTypeOK
    <3>. QED  BY <1>2, <2>1, <3>1 DEF AddWatch, CallInv, FacadeTypeOK, Operations, Places
  <2>2. CASE RemoveWatch(c)
    <3>1. PICK id \in 1 .. nextId - 1 : Calls(c, "remove", id, "inside")
      BY <2>2 DEF RemoveWatch
    <3>2. id \in Ids
      BY <1>0 DEF Ids, CallInv, FacadeTypeOK
    <3>. QED  BY <1>2, <2>2, <3>1, <3>2 DEF RemoveWatch, CallInv, FacadeTypeOK, Operations, Places
  <2>3. CASE Stop(c)
    BY <1>2, <2>3 DEF Stop, CallInv, FacadeTypeOK, Operations, Places
  <2>. QED  BY <1>3, <2>1, <2>2, <2>3 DEF NewCall
<1>4. ASSUME NEW c \in Callers, CallerStep(c) PROVE CallInv'
  <2>1. CASE Record(c) \/ StopBackendDone(c) \/ StopReturns(c, raw = "ended")
    <3>1. CASE Record(c)
      <4>1. registered' \subseteq Ids
        BY <3>1 DEF Record, CallInv, FacadeTypeOK
      <4>. QED  BY <1>0, <3>1, <4>1 DEF Record, CallInv, FacadeTypeOK, NoCall
    <3>2. CASE StopBackendDone(c)
      <4>1. /\ call' = [call EXCEPT ![c].at = "joining"] /\ call[c].op = "stop"
            /\ UNCHANGED <<outer, registered, closing, nextId, made>>
        BY <3>2 DEF StopBackendDone
      <4>2. call' \in [Callers -> [op : Operations, id : Ids \cup {0}, at : Places, ok : BOOLEAN]]
        BY <4>1 DEF CallInv, FacadeTypeOK, Places
      <4>3. \A d \in Callers : call'[d].op = call[d].op /\ call'[d].id = call[d].id
        BY <4>1 DEF CallInv, FacadeTypeOK
      <4>. QED  BY <4>1, <4>2, <4>3 DEF CallInv, FacadeTypeOK
    <3>3. CASE StopReturns(c, raw = "ended")
      BY <1>0, <3>3 DEF StopReturns, CallInv, FacadeTypeOK, NoCall
    <3>. QED  BY <2>1, <3>1, <3>2, <3>3
  <2>2. CASE \E ok \in BOOLEAN : Answer(c, ok) /\ UNCHANGED <<outer, registered, closing, nextId, made>>
    BY <1>1, <2>2
  <2>3. CASE UNCHANGED facade
    BY <2>3 DEF facade, CallInv, FacadeTypeOK
  <2>4. TakeResult(c) => UNCHANGED facade \/ \E ok \in BOOLEAN : Answer(c, ok) /\ UNCHANGED <<outer, registered, closing, nextId, made>>
    <3>1. ASSUME TakeResult(c), c \in granted
          PROVE  UNCHANGED facade \/ (Answer(c, TRUE) /\ UNCHANGED <<outer, registered, closing, nextId, made>>)
      <4>1. (c \in granted) = TRUE
        BY <3>1
      <4>. QED  BY <3>1, <4>1 DEF TakeResult, facade
    <3>2. ASSUME TakeResult(c), c \notin granted
          PROVE  UNCHANGED facade \/ (Answer(c, FALSE) /\ UNCHANGED <<outer, registered, closing, nextId, made>>)
      <4>1. (c \in granted) = FALSE
        BY <3>2
      <4>. QED  BY <3>2, <4>1 DEF TakeResult, facade
    <3>. QED  BY <3>1, <3>2
  <2>5. RefusePath(c) \/ RefuseStopped(c) \/ JoinLoop(c)
          => \E ok \in BOOLEAN : Answer(c, ok) /\ UNCHANGED <<outer, registered, closing, nextId, made>>
    BY DEF RefusePath, RefuseStopped, JoinLoop
  <2>6. Submit(c) => UNCHANGED facade
    BY DEF Submit
  <2>. QED  BY <1>4, <2>1, <2>2, <2>3, <2>4, <2>5, <2>6 DEF CallerStep
<1>5. LoopStep \/ WorkerStep \/ (\E id \in Ids : OnEvent(id)) \/ UNCHANGED vars => UNCHANGED facade
  BY DEF LoopStep, AnswerSignal, Pop, AddOnLoop, RemoveOnLoop, StopOnLoop, CloseHandles,
         Complete, Notify, FreeHandle, LoopEnds, PushNotifies, WorkerStep, WaitEvent, Filter, Quit,
         OnEvent, vars
<1>6. UNCHANGED facade => CallInv'
  BY DEF facade, CallInv, FacadeTypeOK
<1>. QED  BY <1>3, <1>4, <1>5, <1>6 DEF Next

\* Flags are about commands that exist, and those about callers inside the backend.
FlagsHaveCommands ==
  /\ commands \in Seq(alive)
  /\ alive \subseteq {c \in Callers : call[c].at = "inside"}
  /\ leaving \subseteq {c \in Callers : call[c].at = "inside" /\ call[c].op = "stop"} \ alive
  /\ completed \subseteq alive /\ granted \subseteq alive /\ notified \subseteq alive

\* A command is queued once, and nothing has been done to it yet.
QueuedOnce == \A i, j \in 1 .. Len(commands) : commands[i] = commands[j] => i = j
QueuedAreNew == \A i \in 1 .. Len(commands) : commands[i] \notin completed \cup granted

\* The command in hand has left the queue, and its submitter waits for it.
InHand ==
  loopAt \in {"running", "closing", "finishing"} =>
    /\ serving \in alive \ completed
    /\ loopAt # "finishing" => serving \notin granted
    /\ \A i \in 1 .. Len(commands) : commands[i] # serving

CommandInv == FlagsHaveCommands /\ QueuedOnce /\ QueuedAreNew /\ InHand

LEMMA CommandInit == Init => CommandInv
BY DEF Init, FacadeInit, CommandInv, FlagsHaveCommands, QueuedOnce, QueuedAreNew, InHand

\* Submit allocates a command that nobody knows yet.
LEMMA SubmitKeeps ==
  ASSUME CommandInv, NEW c \in Callers, Submit(c)
  PROVE  CommandInv'
<1>1. c \notin alive /\ call[c].at = "inside" /\ alive' = alive \cup {c} /\ commands' = Append(commands, c)
  BY DEF Submit, AtSubmit
<1>2. UNCHANGED <<call, leaving, completed, granted, notified, loopAt, serving>> /\ c \notin leaving
  BY DEF Submit, AtSubmit, facade
<1>3. commands \in Seq(alive') /\ Len(commands) \in Nat /\ commands' \in Seq(alive')
  BY <1>1 DEF CommandInv, FlagsHaveCommands
<1>4. /\ Len(commands') = Len(commands) + 1
      /\ commands'[Len(commands) + 1] = c
      /\ \A i \in 1 .. Len(commands) : commands'[i] = commands[i] /\ commands[i] \in alive
  BY <1>1, <1>3 DEF CommandInv, FlagsHaveCommands
<1>5. \A i \in 1 .. Len(commands') : i \in 1 .. Len(commands) \/ i = Len(commands) + 1
  BY <1>3, <1>4
<1>6. FlagsHaveCommands'
  BY <1>1, <1>2, <1>3 DEF CommandInv, FlagsHaveCommands
<1>7. QueuedOnce'
  BY <1>1, <1>4, <1>5 DEF CommandInv, QueuedOnce
<1>8. QueuedAreNew'
  BY <1>1, <1>2, <1>4, <1>5 DEF CommandInv, FlagsHaveCommands, QueuedAreNew
<1>9. InHand'
  BY <1>1, <1>2, <1>4, <1>5 DEF CommandInv, InHand
<1>. QED  BY <1>6, <1>7, <1>8, <1>9 DEF CommandInv

\* A command is deleted when it is completed: it is neither queued nor in hand.
LEMMA TakeResultKeeps ==
  ASSUME CallInv, CommandInv, NEW c \in Callers, TakeResult(c)
  PROVE  CommandInv'
<1>1. /\ c \in alive /\ c \in completed
      /\ alive' = alive \ {c} /\ completed' = completed \ {c} /\ notified' = notified \ {c}
      /\ granted' = granted \ {c}
      /\ leaving' = leaving \/ (leaving' = leaving \cup {c} /\ call' = call /\ call[c].op = "stop")
      /\ UNCHANGED <<commands, loopAt, serving>>
  BY DEF TakeResult
<1>2. \A i \in 1 .. Len(commands) : commands[i] \in alive'
  BY <1>1 DEF CommandInv, FlagsHaveCommands, QueuedAreNew
<1>3. commands \in Seq(alive')
  BY <1>1, <1>2 DEF CommandInv, FlagsHaveCommands
<1>4. \A d \in Callers : d # c => call'[d] = call[d]
  BY DEF TakeResult, Answer, CallInv, FacadeTypeOK
<1>5. FlagsHaveCommands'
  BY <1>1, <1>3, <1>4 DEF CommandInv, FlagsHaveCommands
<1>6. InHand'
  BY <1>1 DEF CommandInv, InHand
<1>. QED  BY <1>1, <1>5, <1>6 DEF CommandInv, QueuedOnce, QueuedAreNew

\* The loop thread takes the oldest command, or goes back to the loop.
LEMMA PopKeeps ==
  ASSUME CommandInv, Pop
  PROVE  CommandInv'
<1>1. UNCHANGED <<call, leaving, alive, completed, granted, notified>>
  BY DEF Pop, facade, memory
<1>2. CASE commands = <<>>
  BY <1>1, <1>2 DEF Pop, CommandInv, FlagsHaveCommands, QueuedOnce, QueuedAreNew, InHand
<1>3. CASE commands # <<>>
  <2>1. loopAt' = "running" /\ serving' = commands[1] /\ commands' = Tail(commands)
    BY <1>3 DEF Pop, CommandInv, FlagsHaveCommands
  <2>2. commands \in Seq(alive) /\ Len(commands) \in Nat \ {0}
    BY <1>3 DEF CommandInv, FlagsHaveCommands
  <2>3. /\ commands' \in Seq(alive) /\ Len(commands') = Len(commands) - 1
        /\ \A i \in 1 .. Len(commands') : commands'[i] = commands[i + 1]
    BY <2>1, <2>2
  <2>4. \A i \in 1 .. Len(commands') : i + 1 \in 1 .. Len(commands) /\ i + 1 # 1
    BY <2>2, <2>3
  <2>5. 1 \in 1 .. Len(commands) /\ commands[1] \in alive
    BY <2>2
  <2>6. FlagsHaveCommands'
    BY <1>1, <2>3 DEF CommandInv, FlagsHaveCommands
  <2>7. QueuedOnce'
    BY <2>2, <2>3, <2>4 DEF CommandInv, QueuedOnce
  <2>8. QueuedAreNew'
    BY <1>1, <2>3, <2>4 DEF CommandInv, QueuedAreNew
  <2>9. InHand'
    BY <1>1, <2>1, <2>3, <2>4, <2>5 DEF CommandInv, QueuedOnce, QueuedAreNew, InHand
  <2>. QED  BY <2>6, <2>7, <2>8, <2>9 DEF CommandInv
<1>. QED  BY <1>2, <1>3

\* Every other step leaves queue and memory alone, or marks the command in hand.
LEMMA LoopKeeps ==
  ASSUME CommandInv, LoopStep
  PROVE  CommandInv'
<1>0. UNCHANGED <<call, leaving>>
  BY DEF LoopStep, AnswerSignal, Pop, AddOnLoop, RemoveOnLoop, StopOnLoop, CloseHandles,
         Complete, Notify, FreeHandle, LoopEnds, PushNotifies, facade
<1>1. CASE Pop
  BY <1>1, PopKeeps
<1>2. CASE Complete
  <2>1. /\ loopAt = "finishing" /\ loopAt' = "notifying"
        /\ completed' = completed \cup {serving}
        /\ UNCHANGED <<commands, alive, granted, notified, serving>>
    BY <1>2 DEF Complete
  <2>. QED  BY <1>0, <2>1 DEF CommandInv, FlagsHaveCommands, QueuedOnce, QueuedAreNew, InHand
<1>3. CASE Notify
  <2>1. /\ loopAt' = "popping"
        /\ notified' = notified \cup ({serving} \cap alive)
        /\ UNCHANGED <<commands, alive, completed, granted, serving>>
    BY <1>3 DEF Notify
  <2>. QED  BY <1>0, <2>1 DEF CommandInv, FlagsHaveCommands, QueuedOnce, QueuedAreNew, InHand
<1>4. CASE AddOnLoop \/ RemoveOnLoop \/ StopOnLoop \/ CloseHandles
  <2>1. /\ loopAt \in {"running", "closing"} /\ loopAt' \in {"closing", "finishing"}
        /\ granted \subseteq granted' /\ granted' \subseteq granted \cup {serving}
        /\ loopAt' = "closing" => granted' = granted
        /\ UNCHANGED <<commands, alive, completed, notified, serving>>
    BY <1>4 DEF AddOnLoop, RemoveOnLoop, StopOnLoop, CloseHandles, memory
  <2>. QED  BY <1>0, <2>1 DEF CommandInv, FlagsHaveCommands, QueuedOnce, QueuedAreNew, InHand
<1>5. CASE AnswerSignal \/ FreeHandle \/ LoopEnds \/ PushNotifies
  <2>1. /\ loopAt' \in {"popping", "polling", "ended"}
        /\ UNCHANGED <<commands, alive, completed, granted, notified>>
    BY <1>5 DEF AnswerSignal, FreeHandle, LoopEnds, PushNotifies, memory
  <2>. QED  BY <1>0, <2>1 DEF CommandInv, FlagsHaveCommands, QueuedOnce, QueuedAreNew, InHand
<1>. QED  BY <1>1, <1>2, <1>3, <1>4, <1>5 DEF LoopStep

\* A caller that makes a call, is answered or returns has no command.
LEMMA CallKeeps ==
  ASSUME CommandInv, NEW c \in Callers, c \notin alive,
         \A d \in Callers : d # c => call'[d] = call[d],
         leaving' = leaving \ {c},
         UNCHANGED <<commands, alive, completed, granted, notified, loopAt, serving>>
  PROVE  CommandInv'
<1>1. FlagsHaveCommands'
  BY DEF CommandInv, FlagsHaveCommands
<1>. QED  BY <1>1 DEF CommandInv, QueuedOnce, QueuedAreNew, InHand

LEMMA CommandStep ==
  ASSUME CallInv, CommandInv, [Next]_vars
  PROVE  CommandInv'
<1>1. ASSUME NEW c \in Callers, CallerStep(c) PROVE CommandInv'
  <2>1. CASE Submit(c)
    BY <2>1, SubmitKeeps
  <2>2. CASE TakeResult(c)
    BY <2>2, TakeResultKeeps
  <2>3. CASE ~Submit(c) /\ ~TakeResult(c)
    <3>1. UNCHANGED <<commands, alive, completed, granted, notified, loopAt, serving>>
      BY <1>1, <2>3 DEF CallerStep, RefusePath, RefuseStopped, JoinLoop, loop, memory
    <3>2. \A d \in Callers : d # c => call'[d] = call[d]
      BY <1>1, <2>3 DEF CallerStep, RefusePath, RefuseStopped, JoinLoop, Answer, Record,
                        StopBackendDone, StopReturns, CallInv, FacadeTypeOK
    <3>3. c \notin alive
      BY <1>1, <2>3 DEF CallerStep, RefusePath, RefuseStopped, AtSubmit, JoinLoop, Record,
                        StopBackendDone, StopReturns, CommandInv, FlagsHaveCommands
    <3>4. leaving' = leaving \ {c}
      BY <1>1, <2>3 DEF CallerStep, RefusePath, RefuseStopped, AtSubmit, JoinLoop, Record,
                        StopBackendDone, StopReturns, CommandInv, FlagsHaveCommands
    <3>. QED  BY <3>1, <3>2, <3>3, <3>4, CallKeeps
  <2>. QED  BY <2>1, <2>2, <2>3
<1>2. CASE LoopStep
  BY <1>2, LoopKeeps
<1>3. ASSUME NEW c \in Callers, NewCall(c) PROVE CommandInv'
  <2>1. UNCHANGED <<commands, alive, completed, granted, notified, loopAt, serving>>
    BY <1>3 DEF NewCall, loop, memory
  <2>2. call[c].at = "idle" /\ \A d \in Callers : d # c => call'[d] = call[d]
    BY <1>3 DEF NewCall, AddWatch, RemoveWatch, Stop, Calls, CallInv, FacadeTypeOK
  <2>3. c \notin alive /\ leaving' = leaving \ {c}
    BY <1>3, <2>2 DEF NewCall, CommandInv, FlagsHaveCommands
  <2>. QED  BY <2>1, <2>2, <2>3, CallKeeps
<1>4. ASSUME NEW id \in Ids, OnEvent(id) PROVE CommandInv'
  <2>1. /\ loopAt' = "pushed"
        /\ UNCHANGED <<call, leaving, commands, alive, completed, granted, notified>>
    BY <1>4 DEF OnEvent, facade, memory
  <2>. QED  BY <2>1 DEF CommandInv, FlagsHaveCommands, QueuedOnce, QueuedAreNew, InHand
<1>5. CASE WorkerStep \/ UNCHANGED vars
  <2>1. UNCHANGED <<call, leaving, commands, alive, completed, granted, notified, loopAt, serving>>
    BY <1>5 DEF WorkerStep, WaitEvent, Filter, Quit, vars, facade, loop, memory
  <2>. QED  BY <2>1 DEF CommandInv, FlagsHaveCommands, QueuedOnce, QueuedAreNew, InHand
<1>. QED  BY <1>1, <1>2, <1>3, <1>4, <1>5 DEF Next

-----------------------------------------------------------------------------
(* The watches of the loop thread and of the facade *)

\* add_watch and remove_watch hold the facade's mutex until they have recorded
\* the answer; identifiers are handed out once.
MutexHeld ==
  /\ nextId \in Nat
  /\ \A c \in Callers : call[c].op # "stop" => outer = c
  /\ \A c \in Callers : call[c].op = "add" => call[c].id < nextId
  /\ watches \subseteq Nat /\ \A id \in watches : id < nextId

\* The answer to c is yes, or will be.
Yes(c) == c \in granted \/ (call[c].at = "answered" /\ call[c].ok)

\* A watch of the loop thread is recorded by the facade, or the call that adds it
\* will be answered with yes; so is a call that removes it only when it is gone.
SameWatches ==
  /\ \A id \in watches : id \in registered \/ \E c \in Callers : call[c].op = "add" /\ call[c].id = id
  /\ \A c \in Callers : call[c].op = "add" /\ call[c].id \in watches => Yes(c)
  /\ \A c \in Callers : call[c].op = "remove" /\ Yes(c) => call[c].id \notin watches

Registration == MutexHeld /\ SameWatches

LEMMA RegistrationInit == Init => Registration
BY DEF Init, FacadeInit, NoCall, Registration, MutexHeld, SameWatches

\* The calls that the facade makes and ends.
LEMMA FacadeKeepsRegistration ==
  ASSUME CallInv, CommandInv, Registration, NEW c \in Callers,
         NewCall(c) \/ Record(c) \/ StopBackendDone(c) \/ StopReturns(c, raw = "ended"),
         UNCHANGED <<watches, granted>>
  PROVE  Registration'
<1>0. /\ \A d \in Callers : call[d].at # "inside" => d \notin granted
      /\ call \in [Callers -> [op : Operations, id : Ids \cup {0}, at : Places, ok : BOOLEAN]]
      /\ nextId \in Nat
  BY DEF CommandInv, FlagsHaveCommands, CallInv, FacadeTypeOK, Registration, MutexHeld
<1>1. CASE AddWatch(c)
  <2>1. /\ call[c].at = "idle" /\ outer = NoOne /\ outer' = c /\ nextId' = nextId + 1
        /\ call' = [call EXCEPT ![c] = [op |-> "add", id |-> nextId, at |-> "inside", ok |-> FALSE]]
        /\ registered' = registered
    BY <1>1 DEF AddWatch, Calls
  <2>2. /\ call'[c].op = "add" /\ call'[c].id = nextId
        /\ \A d \in Callers : d # c => call'[d] = call[d] /\ call[d].op = "stop"
    BY <1>0, <2>1, CallsAssumption DEF Registration, MutexHeld
  <2>3. MutexHeld'
    BY <1>0, <2>1, <2>2 DEF Registration, MutexHeld
  <2>4. nextId \notin watches
    BY <1>0 DEF Registration, MutexHeld
  <2>5. call[c].op = "stop"
    BY <2>1, CallsAssumption DEF Registration, MutexHeld
  <2>. QED  BY <2>1, <2>2, <2>3, <2>4, <2>5 DEF Registration, SameWatches
<1>2. CASE RemoveWatch(c)
  <2>1. /\ call[c].at = "idle" /\ outer = NoOne /\ outer' = c /\ nextId' = nextId /\ registered' = registered
        /\ \E id : call' = [call EXCEPT ![c] = [op |-> "remove", id |-> id, at |-> "inside", ok |-> FALSE]]
    BY <1>2 DEF RemoveWatch, Calls
  <2>2. /\ call'[c].op = "remove" /\ call'[c].at = "inside"
        /\ \A d \in Callers : d # c => call'[d] = call[d] /\ call[d].op = "stop"
        /\ call[c].op = "stop"
    BY <1>0, <2>1, CallsAssumption DEF Registration, MutexHeld
  <2>3. c \notin granted'
    BY <1>0, <2>1
  <2>4. MutexHeld'
    BY <1>0, <2>1, <2>2 DEF Registration, MutexHeld
  <2>. QED  BY <2>1, <2>2, <2>3, <2>4 DEF Registration, SameWatches, Yes
<1>3. CASE Stop(c) \/ StopBackendDone(c) \/ StopReturns(c, raw = "ended")
  <2>1. UNCHANGED <<outer, registered, nextId>> /\ call'[c].op = "stop"
        /\ \A d \in Callers : d # c => call'[d] = call[d]
    BY <1>0, <1>3 DEF Stop, Calls, StopBackendDone, StopReturns, NoCall
  <2>2. call[c].op = "stop" \/ call[c].at \in {"idle", "joining"}
    BY <1>3 DEF Stop, Calls, StopBackendDone, StopReturns
  <2>3. call[c].op = "add" => call[c].id \notin watches
    BY <1>0, <2>2 DEF Registration, SameWatches, Yes
  <2>4. MutexHeld'
    BY <1>0, <2>1 DEF Registration, MutexHeld
  <2>. QED  BY <2>1, <2>3, <2>4 DEF Registration, SameWatches, Yes
<1>4. CASE Record(c)
  <2>1. /\ call[c].at = "answered" /\ call[c].op # "stop" /\ outer' = NoOne /\ nextId' = nextId
        /\ call' = [call EXCEPT ![c] = NoCall]
        /\ registered' = IF ~call[c].ok THEN registered
                         ELSE IF call[c].op = "add" THEN registered \cup {call[c].id}
                         ELSE registered \ {call[c].id}
    BY <1>4 DEF Record
  <2>2. call[c].op \in {"add", "remove"} /\ call[c].ok \in BOOLEAN
    BY <1>0, <2>1 DEF Operations
  <2>3. outer = c /\ \A d \in Callers : d # c => call'[d] = call[d] /\ call[d].op = "stop"
    BY <1>0, <2>1 DEF Registration, MutexHeld
  <2>4. call'[c].op = "stop"
    BY <1>0, <2>1 DEF NoCall
  <2>5. MutexHeld'
    BY <1>0, <2>1, <2>3, <2>4 DEF Registration, MutexHeld
  <2>6. c \notin granted
    BY <1>0, <2>1
  <2>7. ASSUME NEW id \in watches PROVE id \in registered'
    <3>1. CASE call[c].op = "add"
      BY <2>1, <2>3, <2>6, <2>7, <3>1 DEF Registration, SameWatches, Yes
    <3>2. CASE call[c].op = "remove"
      BY <2>1, <2>3, <2>7, <3>2 DEF Registration, SameWatches, Yes
    <3>. QED  BY <2>2, <3>1, <3>2
  <2>8. SameWatches'
    BY <2>3, <2>4, <2>7 DEF SameWatches
  <2>. QED  BY <2>5, <2>8 DEF Registration
<1>. QED  BY <1>1, <1>2, <1>3, <1>4 DEF NewCall

\* The backend's answer.
LEMMA AnswerKeepsRegistration ==
  ASSUME CallInv, CommandInv, Registration, NEW c \in Callers, NEW ok, Answer(c, ok),
         UNCHANGED <<outer, registered, nextId, watches>>,
         call[c].op # "stop" => ok = Yes(c),
         granted' \subseteq granted, granted \ {c} \subseteq granted'
  PROVE  Registration'
<1>1. /\ call'[c].op = call[c].op /\ call'[c].id = call[c].id /\ call'[c].at = "answered" /\ call'[c].ok = ok
      /\ \A d \in Callers : d # c => call'[d] = call[d]
  BY DEF Answer, CallInv, FacadeTypeOK
<1>2. MutexHeld'
  BY <1>1 DEF Registration, MutexHeld
<1>3. \A d \in Callers : call[d].op \in {"add", "remove"} /\ d # c => (Yes(d)' <=> Yes(d))
  BY <1>1 DEF Yes
<1>4. call[c].op \in {"add", "remove"} => (Yes(c)' <=> Yes(c))
  BY <1>1 DEF Yes
<1>. QED  BY <1>1, <1>2, <1>3, <1>4 DEF Registration, SameWatches

\* What the loop thread does with the command in hand.
LEMMA LoopKeepsRegistration ==
  ASSUME CallInv, CommandInv, Registration, LoopStep
  PROVE  Registration'
<1>0. UNCHANGED <<call, outer, registered, nextId>>
  BY DEF LoopStep, AnswerSignal, Pop, AddOnLoop, RemoveOnLoop, StopOnLoop, CloseHandles,
         Complete, Notify, FreeHandle, LoopEnds, PushNotifies, facade
<1>1. loopAt \in {"running", "closing"} => serving \in Callers
  BY DEF CommandInv, InHand, FlagsHaveCommands
<1>2. CASE AddOnLoop
  <2>. DEFINE id == call[serving].id
  <2>1. serving \in Callers /\ call[serving].op = "add" /\ id \in Ids /\ id < nextId
    BY <1>1, <1>2 DEF AddOnLoop, CallInv, Registration, MutexHeld
  <2>2. \/ UNCHANGED <<granted, watches>>
        \/ granted' = granted \cup {serving} /\ watches' = watches \cup {id}
    BY <1>2 DEF AddOnLoop
  <2>3. CASE UNCHANGED <<granted, watches>>
    BY <1>0, <2>3 DEF Registration, MutexHeld, SameWatches, Yes
  <2>4. CASE granted' = granted \cup {serving} /\ watches' = watches \cup {id}
    <3>1. \A d \in Callers : d # serving => call[d].op = "stop"
      BY <2>1 DEF Registration, MutexHeld
    <3>2. MutexHeld'
      <4>1. watches' \subseteq Nat /\ \A i \in watches' : i < nextId
        <5>1. id \in Nat
          BY <2>1, CallsAssumption DEF Ids
        <5>. QED  BY <2>1, <2>4, <5>1 DEF Registration, MutexHeld
      <4>. HIDE DEF id
      <4>. QED  BY <1>0, <4>1 DEF Registration, MutexHeld
    <3>3. \A i \in watches' : i \in registered' \/ \E c \in Callers : call'[c].op = "add" /\ call'[c].id = i
      BY <1>0, <2>1, <2>4 DEF Registration, SameWatches
    <3>4. \A c \in Callers : call'[c].op = "add" /\ call'[c].id \in watches' => Yes(c)'
      <4>1. serving \in granted'
        BY <2>4
      <4>. QED  BY <1>0, <3>1, <4>1 DEF Yes
    <3>5. \A c \in Callers : call'[c].op # "remove"
      BY <1>0, <2>1, <3>1
    <3>. QED  BY <3>2, <3>3, <3>4, <3>5 DEF Registration, SameWatches
  <2>. QED  BY <2>2, <2>3, <2>4
<1>3. CASE RemoveOnLoop
  <2>1. serving \in Callers /\ call[serving].op = "remove"
    BY <1>1, <1>3 DEF RemoveOnLoop
  <2>2. granted \subseteq granted' /\ granted' \subseteq granted \cup {serving}
        /\ watches' = watches \ {call[serving].id}
    BY <1>3 DEF RemoveOnLoop
  <2>3. \A d \in Callers : d # serving => call[d].op = "stop"
    BY <2>1 DEF Registration, MutexHeld
  <2>. QED  BY <1>0, <2>1, <2>2, <2>3 DEF Registration, MutexHeld, SameWatches
<1>4. CASE CloseHandles
  BY <1>0, <1>4 DEF CloseHandles, Registration, MutexHeld, SameWatches
<1>5. ASSUME ~ AddOnLoop, ~ RemoveOnLoop, ~ CloseHandles PROVE UNCHANGED <<granted, watches>>
  BY <1>5 DEF LoopStep, AnswerSignal, Pop, StopOnLoop, Complete, Notify, FreeHandle, LoopEnds, PushNotifies
<1>6. CASE UNCHANGED <<granted, watches>>
  BY <1>0, <1>6 DEF Registration, MutexHeld, SameWatches, Yes
<1>. QED  BY <1>2, <1>3, <1>4, <1>5, <1>6

LEMMA RegistrationStep ==
  ASSUME CallInv, CommandInv, Registration, [Next]_vars
  PROVE  Registration'
<1>1. ASSUME NEW c \in Callers, RefusePath(c) \/ RefuseStopped(c) \/ JoinLoop(c) PROVE Registration'
  <2>1. PICK ok \in BOOLEAN : Answer(c, ok) /\ (call[c].op # "stop" => ok = FALSE)
    BY <1>1 DEF RefusePath, RefuseStopped, JoinLoop, CommandInv, FlagsHaveCommands
  <2>2. UNCHANGED <<outer, registered, nextId, watches, granted>>
    BY <1>1 DEF RefusePath, RefuseStopped, JoinLoop, loop
  <2>3. c \notin granted /\ call[c].at = "inside"
    BY <1>1 DEF RefusePath, RefuseStopped, AtSubmit, JoinLoop, CommandInv, FlagsHaveCommands
  <2>4. Yes(c) = FALSE
    BY <2>3 DEF Yes
  <2>. QED  BY <2>1, <2>2, <2>4, AnswerKeepsRegistration
<1>2. ASSUME NEW c \in Callers, TakeResult(c) PROVE Registration'
  <2>1. /\ c \in alive /\ granted' = granted \ {c} /\ UNCHANGED <<outer, registered, nextId, watches>>
        /\ IF call[c].op = "stop" THEN call' = call ELSE Answer(c, c \in granted)
    BY <1>2 DEF TakeResult
  <2>2. call[c].at = "inside"
    BY <2>1 DEF CommandInv, FlagsHaveCommands
  <2>3. CASE call[c].op = "stop"
    <3>1. \A d \in Callers : call[d].op # "stop" => (Yes(d)' <=> Yes(d))
      BY <2>1, <2>3 DEF Yes
    <3>. QED  BY <2>1, <2>3, <3>1 DEF Registration, MutexHeld, SameWatches
  <2>4. CASE call[c].op # "stop"
    <3>1. Yes(c) <=> c \in granted
      BY <2>2 DEF Yes
    <3>2. CASE c \in granted
      <4>1. (c \in granted) = TRUE /\ Yes(c) = TRUE
        BY <3>1, <3>2 DEF Yes
      <4>. QED  BY <2>1, <2>4, <4>1, AnswerKeepsRegistration
    <3>3. CASE c \notin granted
      <4>1. (c \in granted) = FALSE /\ Yes(c) = FALSE
        BY <3>1, <3>3 DEF Yes
      <4>. QED  BY <2>1, <2>4, <4>1, AnswerKeepsRegistration
    <3>. QED  BY <3>2, <3>3
  <2>. QED  BY <2>3, <2>4
<1>3. ASSUME NEW c \in Callers, CallerStep(c) PROVE Registration'
  <2>1. CASE (Record(c) \/ StopBackendDone(c) \/ StopReturns(c, raw = "ended")) /\ UNCHANGED loop
    BY <2>1, FacadeKeepsRegistration DEF loop
  <2>2. CASE Submit(c)
    BY <2>2 DEF Submit, facade, Registration, MutexHeld, SameWatches, Yes
  <2>. QED  BY <1>1, <1>2, <1>3, <2>1, <2>2 DEF CallerStep
<1>4. ASSUME NEW c \in Callers, NewCall(c) PROVE Registration'
  <2>1. UNCHANGED <<watches, granted>>
    BY <1>4 DEF NewCall, loop
  <2>. QED  BY <1>4, <2>1, FacadeKeepsRegistration
<1>5. ASSUME \/ \E id \in Ids : OnEvent(id)
             \/ WorkerStep \/ UNCHANGED vars
      PROVE  UNCHANGED <<call, outer, registered, nextId, watches, granted>>
  BY <1>5 DEF OnEvent, WorkerStep, WaitEvent, Filter, Quit, vars, facade, loop
<1>6. CASE UNCHANGED <<call, outer, registered, nextId, watches, granted>>
  BY <1>6 DEF Registration, MutexHeld, SameWatches, Yes
<1>. QED  BY <1>3, <1>4, <1>5, <1>6, LoopKeepsRegistration DEF Next

\* When the worker can take the facade's mutex to filter an event, no call is
\* halfway: a watch of the loop thread is recorded (watch.cpp add_watch against
\* watch_is_active).
THEOREM ActiveEventsAreReported == Spec => ActiveEventsReported
<1>. DEFINE I == CallInv /\ CommandInv /\ Registration
            Reports == raw = "holding" /\ raw' = "asking" /\ held \in watches /\ ~closing
                         => outcome' = "reported"
<1>1. I /\ [Next]_vars => [Reports]_vars
  <2>. SUFFICES ASSUME I, Next, raw = "holding", raw' = "asking", held \in watches, ~closing
                PROVE  outcome' = "reported"
    BY DEF vars, worker
  <2>1. Filter
    <3>1. \A c \in Callers : NewCall(c) \/ CallerStep(c) => raw' = raw
      BY DEF NewCall, CallerStep, RefusePath, RefuseStopped, Submit, TakeResult, JoinLoop, worker
    <3>2. LoopStep => raw' = raw
      BY DEF LoopStep, AnswerSignal, Pop, AddOnLoop, RemoveOnLoop, StopOnLoop, CloseHandles,
             Complete, Notify, FreeHandle, LoopEnds, PushNotifies, worker, WakeWorker
    <3>3. \A id \in Ids : OnEvent(id) => raw' = raw
      BY DEF OnEvent, worker
    <3>. QED  BY <3>1, <3>2, <3>3 DEF Next, WorkerStep, WaitEvent, Quit
  <2>2. held \in registered
    BY <2>1, CallsAssumption DEF Filter, Registration, MutexHeld, SameWatches
  <2>. QED  BY <2>1, <2>2 DEF Filter, WatchIsActive
<1>2. I /\ [Next]_vars => I'
  BY CallStep, CommandStep, RegistrationStep
<1>3. Init => I
  BY CallInit, CommandInit, RegistrationInit
<1>. HIDE DEF I
<1>4. Spec => [][Reports]_vars
  BY <1>1, <1>2, <1>3, PTL DEF Spec
<1>. QED  BY <1>4 DEF ActiveEventsReported
=============================================================================
