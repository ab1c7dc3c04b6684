------------------------------- MODULE WebUi -------------------------------
(***************************************************************************)
(* src/web/app.js against the HTTP server: the page asks for the status    *)
(* once a second and after each answered command, whatever is still under  *)
(* way.  Each request has a connection of its own, so answers arrive in    *)
(* any order; some never do.                                               *)
(*                                                                         *)
(* Of the status only the flag `recording` is kept, and of the four        *)
(* buttons the two that set it.                                            *)
(***************************************************************************)
EXTENDS Naturals

CONSTANTS Slots,      \* connections the browser has for the page
          MaxClicks,  \* bound: commands of one run
          MaxOthers   \* bound: changes of the status by other clients

ASSUME WebAssumption == MaxClicks \in Nat /\ MaxOthers \in Nat

Commands == {"start", "stop"}
Shows == {"on", "off"}

VARIABLES recording,  \* monitor.recording, as GET /status reports it
          req,        \* what each connection is used for, and its answer
          shown,      \* the text of the page's field "recording"
          link,       \* whether the page shows that it has lost the server
          msg,        \* the page's message line
          net,        \* whether requests get through
          clicks, others,
          reported    \* the statuses the server has had, for the properties only

vars == <<recording, req, shown, link, msg, net, clicks, others, reported>>

Free == [kind |-> "none", answer |-> "none"]

TypeOK ==
  /\ recording \in Shows
  /\ req \in [Slots -> [kind : {"none", "status"} \cup Commands,
                        answer : {"none", "ok", "error"} \cup Shows]]
  /\ \A s \in Slots :
       req[s].answer # "none" =>
         req[s].answer \in IF req[s].kind = "status" THEN Shows ELSE {"ok", "error"}
  /\ shown \in Shows \cup {"nothing"}
  /\ link \in {"unknown", "ok", "failed"}
  /\ msg \in {"none", "ok", "error", "failed"}
  /\ net \in BOOLEAN
  /\ clicks \in 0 .. MaxClicks /\ others \in 0 .. MaxOthers
  /\ reported \subseteq Shows

(* The page is loaded and asks for the status at once. *)
Init ==
  /\ recording \in Shows
  /\ \E s \in Slots :
       req = [r \in Slots |-> IF r = s THEN [Free EXCEPT !.kind = "status"] ELSE Free]
  /\ shown = "nothing"
  /\ link = "unknown"
  /\ msg = "none"
  /\ net = TRUE
  /\ clicks = 0 /\ others = 0
  /\ reported = {recording}

Send(s, kind) == req' = [req EXCEPT ![s] = [Free EXCEPT !.kind = kind]]

(* Faulty variant: the next poll only after a good answer to the last.       *)
PollsAfterAnswer(s) == req[s].kind = "none" /\ link # "failed"

MayPoll(s) == req[s].kind = "none"

(* setInterval(refreshStatus, 1000) *)
Tick(s) ==
  /\ MayPoll(s)
  /\ Send(s, "status")
  /\ UNCHANGED <<recording, shown, link, msg, net, clicks, others, reported>>

(* A button, postAction. *)
Click(s, c) ==
  /\ req[s].kind = "none"
  /\ clicks < MaxClicks
  /\ clicks' = clicks + 1
  /\ Send(s, c)
  /\ UNCHANGED <<recording, shown, link, msg, net, others, reported>>

(* refreshStatus with an answer *)
ApplyStatus(s) ==
  /\ req[s].kind = "status" /\ req[s].answer \in Shows
  /\ shown' = req[s].answer
  /\ link' = "ok"
  /\ req' = [req EXCEPT ![s] = Free]
  /\ UNCHANGED <<recording, msg, net, clicks, others, reported>>

(* postAction with an answer: the message, and another refreshStatus.        *)
ApplyReply(s) ==
  /\ req[s].kind \in Commands /\ req[s].answer \in {"ok", "error"}
  /\ msg' = req[s].answer
  /\ Send(s, "status")
  /\ UNCHANGED <<recording, shown, link, net, clicks, others, reported>>

(* Faulty variant: without an answer the page shows no recording. *)
FailShowsOff == shown' = "off"

FailKeepsFields == UNCHANGED shown

(* A request or its answer is lost: a status says so and leaves the other    *)
(* fields as they are, a command says so and does not refresh.              *)
Fail(s) ==
  /\ ~net /\ req[s].kind # "none"
  /\ IF req[s].kind = "status"
       THEN link' = "failed" /\ FailKeepsFields /\ UNCHANGED msg
       ELSE msg' = "failed" /\ UNCHANGED <<link, shown>>
  /\ req' = [req EXCEPT ![s] = Free]
  /\ UNCHANGED <<recording, net, clicks, others, reported>>
----------------------------------------------------------------------------
AnswerStatus == recording

(* handle_request, for one connection after the other.  A record command has *)
(* set the flag also when it fails (app_start_recording).                   *)
Serve(s) ==
  /\ net /\ req[s].kind # "none" /\ req[s].answer = "none"
  /\ \/ /\ req[s].kind = "status"
        /\ req' = [req EXCEPT ![s].answer = AnswerStatus]
        /\ UNCHANGED recording
     \/ /\ req[s].kind \in Commands
        /\ recording' = (IF req[s].kind = "start" THEN "on" ELSE "off")
        /\ \E a \in {"ok", "error"} : req' = [req EXCEPT ![s].answer = a]
  /\ reported' = reported \cup {recording'}
  /\ UNCHANGED <<shown, link, msg, net, clicks, others>>

(* Another page, or main at its end. *)
Other ==
  /\ others < MaxOthers
  /\ others' = others + 1
  /\ recording' \in Shows \ {recording}
  /\ reported' = reported \cup {recording'}
  /\ UNCHANGED <<req, shown, link, msg, net, clicks>>

Net == net' = ~net /\ UNCHANGED <<recording, req, shown, link, msg, clicks, others, reported>>

Page(s) == Tick(s) \/ (\E c \in Commands : Click(s, c)) \/ ApplyStatus(s) \/ ApplyReply(s)

Next == (\E s \in Slots : Page(s) \/ Fail(s) \/ Serve(s)) \/ Other \/ Net

(* The timer goes on; while requests get through, each is served and its     *)
(* answer arrives.  (A client that keeps the server waiting is in Lifecycle.) *)
Fairness ==
  /\ \A s \in Slots : WF_vars(Tick(s))
  /\ \A s \in Slots : WF_vars(ApplyStatus(s)) /\ WF_vars(ApplyReply(s)) /\ WF_vars(Serve(s))

SafeSpec == Init /\ [][Next]_vars
Spec == SafeSpec /\ Fairness
----------------------------------------------------------------------------
(* Properties *)

(* The page never shows a recording the server did not report: an answer to  *)
(* a command, a failure or a lost request are not taken for a status.       *)
ShowsWhatWasReported == shown # "nothing" => shown \in reported

(* However answers overtook each other and whatever was lost before: once    *)
(* the status stays the same and requests get through, the page shows it     *)
(* and keeps showing it.                                                    *)
CatchesUp ==
  \A v \in Shows : <>[](recording = v /\ net) => <>[](shown = v /\ link = "ok")
=============================================================================
