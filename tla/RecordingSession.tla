-------------------------- MODULE RecordingSession --------------------------
(***************************************************************************)
(* What the recorder promises to the rest of the program, with no lock, no *)
(* thread and no reference count in it.                                    *)
(*                                                                         *)
(* The output of the camera is a sequence of sessions.  At most one        *)
(* session runs at a time; what it feeds (an MP4 file, an RTSP push, or    *)
(* both) is fixed when it starts; a session that has ended never runs      *)
(* again.  The MP4 file of a session is completed while the session still  *)
(* runs, or it is lost with the session.                                   *)
(***************************************************************************)

CONSTANTS Sessions,  \* identities of sessions
          NoSession  \* no session is running

Outputs == {"record", "stream"}

VARIABLES current,  \* the running session, or NoSession
          outputs,  \* what each session feeds ({} before it starts)
          file      \* the fate of each session's MP4 file

vars == <<current, outputs, file>>

Init == /\ current = NoSession
        /\ outputs = [s \in Sessions |-> {}]
        /\ file = [s \in Sessions |-> "none"]

(* A session starts only when none is running. *)
Start(s, S, f) ==
  /\ current = NoSession
  /\ outputs[s] = {}
  /\ S # {}
  /\ f = "writing" => "record" \in S
  /\ current' = s
  /\ outputs' = [outputs EXCEPT ![s] = S]
  /\ file' = [file EXCEPT ![s] = f]

(* A start that fails: the session never runs, and may leave a file that    *)
(* was created and never completed.                                         *)
StartFails(s, S, f) ==
  /\ current = NoSession
  /\ outputs[s] = {}
  /\ S # {}
  /\ f = "broken" => "record" \in S
  /\ outputs' = [outputs EXCEPT ![s] = S]
  /\ file' = [file EXCEPT ![s] = f]
  /\ UNCHANGED current

(* The running session completes its file. *)
Complete(s) ==
  /\ current = s
  /\ file[s] = "writing"
  /\ file' = [file EXCEPT ![s] = "complete"]
  /\ UNCHANGED <<current, outputs>>

(* The running session ends; a file it has not completed is lost. *)
End(s) ==
  /\ current = s
  /\ current' = NoSession
  /\ file' = [file EXCEPT ![s] = IF @ = "writing" THEN "broken" ELSE @]
  /\ UNCHANGED outputs

Next ==
  \E s \in Sessions :
    \/ \E S \in SUBSET Outputs :
         \/ \E f \in {"none", "writing"} : Start(s, S, f)
         \/ \E f \in {"none", "broken"} : StartFails(s, S, f)
    \/ Complete(s)
    \/ End(s)

Spec == Init /\ [][Next]_vars
=============================================================================
