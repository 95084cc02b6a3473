--------------------------- MODULE CommitRegister ---------------------------
(***************************************************************************)
(* What versioned commits promise (docs/adr/0016-versioned-settings-       *)
(* commit.md): the file is one register; a commit replaces the image its   *)
(* caller read, in one step, or is rejected and changes nothing.  One that *)
(* took effect and fails may be taken back.  What the caller is told tells *)
(* the outcomes apart: "ok" is said only of a commit that took effect and  *)
(* is still in place, "stale" only of one that changed nothing.            *)
(***************************************************************************)
CONSTANTS Writers, Contents, Absent, Torn, NoRequest

Images == Contents \union {Absent, Torn}
Request == [expected: Images, new: Contents, in_place: BOOLEAN, applied: BOOLEAN]

VARIABLES value, request, answer
vars == <<value, request, answer>>

Init ==
  /\ value \in Contents \union {Absent}
  /\ request = [w \in Writers |-> NoRequest]
  /\ answer = [w \in Writers |-> "none"]

Asked(w) == request[w] # NoRequest

Ask(w) ==
  /\ ~Asked(w) /\ answer[w] = "none"
  /\ \E r \in Request : ~r.applied /\ request' = [request EXCEPT ![w] = r]
  /\ UNCHANGED <<value, answer>>

Becomes(w, in_place, applied) ==
  request' = [request EXCEPT ![w] = [expected |-> request[w].expected, new |-> request[w].new,
                                     in_place |-> in_place, applied |-> applied]]

\* The only step that changes the register for a commit.
Apply(w) ==
  /\ Asked(w) /\ ~request[w].applied /\ value = request[w].expected
  /\ value' = request[w].new
  /\ Becomes(w, request[w].in_place, TRUE)
  /\ UNCHANGED answer

Answer(w, a) ==
  /\ Asked(w)
  /\ request' = [request EXCEPT ![w] = NoRequest]
  /\ answer' = [answer EXCEPT ![w] = a]

Acknowledge(w) == Answer(w, "ok") /\ request[w].applied /\ value = request[w].new /\ UNCHANGED value
Reject(w) == Answer(w, "stale") /\ ~request[w].applied /\ UNCHANGED value

\* A failure is reported.  Only a file that is written in place can be torn.
Fail(w) ==
  /\ Answer(w, "failed")
  /\ value' = value \/ (request[w].in_place /\ value' = Torn)

\* The old image is put back, in place.
TakeBack(w) ==
  /\ Asked(w) /\ request[w].applied
  /\ value' = request[w].expected
  /\ Becomes(w, TRUE, FALSE)
  /\ UNCHANGED answer

\* The caller has its answer.
Receive(w) ==
  /\ answer[w] # "none" /\ answer' = [answer EXCEPT ![w] = "none"]
  /\ UNCHANGED <<value, request>>

\* Processes end.
Kill(W) ==
  /\ request' = [w \in Writers |-> IF w \in W THEN NoRequest ELSE request[w]]
  /\ answer' = [w \in Writers |-> IF w \in W THEN "none" ELSE answer[w]]
  /\ \/ value' = value
     \/ value' = Torn /\ \E w \in W : Asked(w) /\ request[w].in_place

PowerLoss ==
  /\ value' \in Images
  /\ request' = [w \in Writers |-> NoRequest] /\ answer' = [w \in Writers |-> "none"]

\* Writers outside the protocol, while no commit is under way.
Overwrite == (\A w \in Writers : ~Asked(w)) /\ value' \in Images /\ UNCHANGED <<request, answer>>

Next ==
  \/ \E w \in Writers :
       \/ Ask(w) \/ Apply(w) \/ Acknowledge(w) \/ Reject(w) \/ Fail(w) \/ TakeBack(w) \/ Receive(w)
  \/ \E W \in SUBSET Writers : Kill(W)
  \/ PowerLoss \/ Overwrite

Spec == Init /\ [][Next]_vars
=============================================================================
