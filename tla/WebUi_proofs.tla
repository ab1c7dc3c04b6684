---------------------------- MODULE WebUi_proofs ----------------------------
(***************************************************************************)
(* Proofs about WebUi, for any number of connections, clicks and changes   *)
(* by others.  An answer on its way back was the server's status once.     *)
(***************************************************************************)
EXTENDS WebUi, TLAPS

Answered(s) == req[s].kind = "status" /\ req[s].answer # "none"

(* What the server says, what is on its way and what the page shows are all  *)
(* statuses the server has had.                                             *)
ReportedInv ==
  /\ recording \in reported
  /\ \A s \in Slots : Answered(s) => req[s].answer \in reported
  /\ ShowsWhatWasReported

IInv == TypeOK /\ ReportedInv
----------------------------------------------------------------------------
(* Requests are made of the four kinds, answers of those that fit them. *)
Kinds == {"none", "status"} \cup Commands
Answers == {"none", "ok", "error"} \cup Shows

(* A connection that is freed or used for a new request has no answer yet.   *)
LEMMA SendTypes ==
  ASSUME TypeOK, NEW s \in Slots, NEW kind \in Kinds,
         req' = [req EXCEPT ![s] = [Free EXCEPT !.kind = kind]]
  PROVE  /\ req' \in [Slots -> [kind : Kinds, answer : Answers]]
         /\ req'[s] = [kind |-> kind, answer |-> "none"]
         /\ \A r \in Slots : r # s => req'[r] = req[r]
<1>1. [Free EXCEPT !.kind = kind] = [kind |-> kind, answer |-> "none"]
  BY DEF Free
<1>2. QED
  BY <1>1 DEF TypeOK, Kinds, Answers

(* A request that is answered keeps its kind. *)
LEMMA AnswerTypes ==
  ASSUME TypeOK, NEW s \in Slots, NEW a \in Answers,
         req' = [req EXCEPT ![s].answer = a]
  PROVE  /\ req' \in [Slots -> [kind : Kinds, answer : Answers]]
         /\ req'[s].kind = req[s].kind /\ req'[s].answer = a
         /\ \A r \in Slots : r # s => req'[r] = req[r]
  BY DEF TypeOK, Kinds, Answers

(* The page asks and clicks; nothing is answered by that. *)
LEMMA AskStep ==
  ASSUME IInv, NEW s \in Slots, Tick(s) \/ \E c \in Commands : Click(s, c)
  PROVE  IInv'
<1>1. PICK kind \in {"status"} \cup Commands :
        req' = [req EXCEPT ![s] = [Free EXCEPT !.kind = kind]]
  BY DEF Tick, Click, Send
<1>2. /\ req' \in [Slots -> [kind : Kinds, answer : Answers]]
      /\ req'[s].answer = "none"
      /\ \A r \in Slots : r # s => req'[r] = req[r]
  <2>1. TypeOK /\ kind \in Kinds
    BY DEF IInv, Kinds
  <2>2. QED
    BY <1>1, <2>1, SendTypes
<1>3. clicks' \in 0 .. MaxClicks
  BY WebAssumption DEF WebAssumption, IInv, TypeOK, Tick, Click
<1>4. UNCHANGED <<recording, shown, link, msg, net, others, reported>>
  BY DEF Tick, Click
<1>5. TypeOK'
  BY <1>2, <1>3, <1>4 DEF IInv, TypeOK, Kinds, Answers
<1>6. ReportedInv'
  BY <1>2, <1>4 DEF IInv, ReportedInv, Answered, ShowsWhatWasReported
<1>7. QED
  BY <1>5, <1>6 DEF IInv

(* An answered status is shown: it was reported when it was answered. *)
LEMMA ApplyStatusStep ==
  ASSUME IInv, NEW s \in Slots, ApplyStatus(s)
  PROVE  IInv'
<1>1. req' = [req EXCEPT ![s] = [Free EXCEPT !.kind = "none"]]
  BY DEF ApplyStatus, Free
<1>2. /\ req' \in [Slots -> [kind : Kinds, answer : Answers]]
      /\ req'[s].answer = "none"
      /\ \A r \in Slots : r # s => req'[r] = req[r]
  BY <1>1, SendTypes DEF IInv, Kinds
<1>3. shown' \in Shows \cap reported
  BY DEF IInv, ReportedInv, Answered, ApplyStatus, Shows
<1>4. link' = "ok" /\ UNCHANGED <<recording, msg, net, clicks, others, reported>>
  BY DEF ApplyStatus
<1>5. TypeOK'
  BY <1>2, <1>3, <1>4 DEF IInv, TypeOK, Kinds, Answers
<1>6. ReportedInv'
  BY <1>2, <1>3, <1>4 DEF IInv, ReportedInv, Answered, ShowsWhatWasReported
<1>7. QED
  BY <1>5, <1>6 DEF IInv

(* The reply to a command changes the message only. *)
LEMMA ApplyReplyStep ==
  ASSUME IInv, NEW s \in Slots, ApplyReply(s)
  PROVE  IInv'
<1>1. /\ req' \in [Slots -> [kind : Kinds, answer : Answers]]
      /\ req'[s].answer = "none"
      /\ \A r \in Slots : r # s => req'[r] = req[r]
  <2>1. TypeOK /\ "status" \in Kinds
    BY DEF IInv, Kinds
  <2>2. req' = [req EXCEPT ![s] = [Free EXCEPT !.kind = "status"]]
    BY DEF ApplyReply, Send
  <2>3. QED
    BY <2>1, <2>2, SendTypes
<1>2. msg' \in {"ok", "error"}
  BY DEF ApplyReply
<1>3. UNCHANGED <<recording, shown, link, net, clicks, others, reported>>
  BY DEF ApplyReply
<1>4. TypeOK'
  BY <1>1, <1>2, <1>3 DEF IInv, TypeOK, Kinds, Answers
<1>5. ReportedInv'
  BY <1>1, <1>3 DEF IInv, ReportedInv, Answered, ShowsWhatWasReported
<1>6. QED
  BY <1>4, <1>5 DEF IInv

(* A lost request or answer leaves the shown status as it is. *)
LEMMA FailStep ==
  ASSUME IInv, NEW s \in Slots, Fail(s)
  PROVE  IInv'
<1>1. req' = [req EXCEPT ![s] = [Free EXCEPT !.kind = "none"]]
  BY DEF Fail, Free
<1>2. /\ req' \in [Slots -> [kind : Kinds, answer : Answers]]
      /\ req'[s].answer = "none"
      /\ \A r \in Slots : r # s => req'[r] = req[r]
  BY <1>1, SendTypes DEF IInv, Kinds
<1>3. UNCHANGED <<recording, shown, net, clicks, others, reported>>
  BY DEF Fail, FailKeepsFields
<1>4. link' \in {link, "failed"} /\ msg' \in {msg, "failed"}
  BY DEF Fail
<1>5. TypeOK'
  BY <1>2, <1>3, <1>4 DEF IInv, TypeOK, Kinds, Answers
<1>6. ReportedInv'
  BY <1>2, <1>3 DEF IInv, ReportedInv, Answered, ShowsWhatWasReported
<1>7. QED
  BY <1>5, <1>6 DEF IInv

(* The server answers with its status, or sets it and adds it to what it has *)
(* reported.                                                                *)
LEMMA ServeStep ==
  ASSUME IInv, NEW s \in Slots, Serve(s)
  PROVE  IInv'
<1>1. recording' \in Shows /\ reported' = reported \cup {recording'}
  BY DEF IInv, TypeOK, Serve, Shows
<1>2. PICK a \in Answers :
        /\ req' = [req EXCEPT ![s].answer = a]
        /\ IF req[s].kind = "status" THEN a = recording ELSE a \in {"ok", "error"}
  BY DEF IInv, TypeOK, Serve, AnswerStatus, Answers, Commands
<1>3. /\ req' \in [Slots -> [kind : Kinds, answer : Answers]]
      /\ req'[s].kind = req[s].kind /\ req'[s].answer = a
      /\ \A r \in Slots : r # s => req'[r] = req[r]
  BY <1>2, AnswerTypes DEF IInv
<1>4. UNCHANGED <<shown, link, msg, net, clicks, others>>
  BY DEF Serve
<1>5. TypeOK'
  <2>1. \A r \in Slots : req'[r].answer # "none" =>
           req'[r].answer \in IF req'[r].kind = "status" THEN Shows ELSE {"ok", "error"}
    BY <1>2, <1>3 DEF IInv, TypeOK
  <2>2. reported' \subseteq Shows
    BY <1>1 DEF IInv, TypeOK
  <2>3. QED
    BY <1>1, <1>3, <1>4, <2>1, <2>2 DEF IInv, TypeOK, Kinds, Answers
<1>6. ReportedInv'
  BY <1>1, <1>2, <1>3, <1>4 DEF IInv, ReportedInv, Answered, ShowsWhatWasReported
<1>7. QED
  BY <1>5, <1>6 DEF IInv

(* Another client changes the status, or the network comes or goes. *)
LEMMA OutsideStep ==
  ASSUME IInv, Other \/ Net
  PROVE  IInv'
<1>1. CASE Other
  <2>1. recording' \in Shows /\ reported' = reported \cup {recording'}
    BY <1>1 DEF Other
  <2>2. UNCHANGED <<req, shown, link, msg, net, clicks>> /\ others' \in 0 .. MaxOthers
    BY <1>1, WebAssumption DEF WebAssumption, IInv, TypeOK, Other
  <2>3. TypeOK'
    BY <2>1, <2>2 DEF IInv, TypeOK
  <2>4. ReportedInv'
    BY <2>1, <2>2 DEF IInv, ReportedInv, Answered, ShowsWhatWasReported
  <2>5. QED
    BY <2>3, <2>4 DEF IInv
<1>2. CASE Net
  <2>1. TypeOK'
    BY <1>2 DEF IInv, TypeOK, Net
  <2>2. ReportedInv'
    BY <1>2 DEF IInv, ReportedInv, Answered, ShowsWhatWasReported, Net
  <2>3. QED
    BY <2>1, <2>2 DEF IInv
<1>3. QED
  BY <1>1, <1>2
----------------------------------------------------------------------------
(* Together *)

(* The page shows nothing, and the server has reported what it has. *)
LEMMA InitInv == Init => IInv
<1> SUFFICES ASSUME Init PROVE IInv
  OBVIOUS
<1>1. PICK s \in Slots :
        req = [r \in Slots |-> IF r = s THEN [Free EXCEPT !.kind = "status"] ELSE Free]
  BY DEF Init
<1>2. /\ req \in [Slots -> [kind : Kinds, answer : Answers]]
      /\ \A r \in Slots : req[r].answer = "none"
  BY <1>1 DEF Free, Kinds, Answers
<1>3. TypeOK
  BY <1>2, WebAssumption DEF WebAssumption, Init, TypeOK, Kinds, Answers
<1>4. ReportedInv
  BY <1>2 DEF Init, ReportedInv, Answered, ShowsWhatWasReported
<1>5. QED
  BY <1>3, <1>4 DEF IInv

(* IInv is an invariant of the page and its server. *)
LEMMA Invariance == SafeSpec => []IInv
<1>1. IInv /\ [Next]_vars => IInv'
  <2> SUFFICES ASSUME IInv, [Next]_vars PROVE IInv'
    OBVIOUS
  <2>1. CASE UNCHANGED vars
    BY <2>1 DEF IInv, TypeOK, ReportedInv, Answered, ShowsWhatWasReported, vars
  <2>2. ASSUME NEW s \in Slots, Page(s) \/ Fail(s) \/ Serve(s) PROVE IInv'
    BY <2>2, AskStep, ApplyStatusStep, ApplyReplyStep, FailStep, ServeStep DEF Page
  <2>3. QED
    BY <2>1, <2>2, OutsideStep DEF Next
<1>2. QED
  BY <1>1, InitInv, PTL DEF SafeSpec

(* The state of the page and the answers under way is well typed; each       *)
(* answer fits the request it is given to.                                  *)
THEOREM WebTypeCorrect == SafeSpec => []TypeOK
<1>1. IInv => TypeOK
  BY DEF IInv
<1>2. QED
  BY <1>1, Invariance, PTL

(* Whatever is lost or overtaken, the page shows no status that the server   *)
(* has not had.                                                             *)
THEOREM PageShowsReported == SafeSpec => []ShowsWhatWasReported
<1>1. IInv => ShowsWhatWasReported
  BY DEF IInv, ReportedInv
<1>2. QED
  BY <1>1, Invariance, PTL
=============================================================================
