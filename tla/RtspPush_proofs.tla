-------------------------- MODULE RtspPush_proofs --------------------------
(***************************************************************************)
(* Proofs about RtspPush, for any number of signals, any tools and any     *)
(* faults: which child may be alive follows from the command the script is *)
(* at, and a child that is alive is known by its PID variable but for the  *)
(* moment between `&` and `$!`.                                            *)
(***************************************************************************)
EXTENDS RtspPush, TLAPS

(* The publishers: each is alive only around its own commands. *)
PublisherInv ==
  /\ Alive("ffmpeg") => place \in {"ffmpegPid", "ffmpegWait"}
  /\ Alive("gst") => place \in {"gstPid", "gstWait", "exit"}
  /\ place = "ffmpegWait" => PUBLISHER_PID = "ffmpeg"
  /\ Alive("gst") /\ place # "gstPid" => PUBLISHER_PID = "gst"
  /\ place = "ffmpegPid" => proc["ffmpeg"] # "unborn"
  /\ place = "gstPid" => proc["gst"] # "unborn"

(* The server. *)
ServerInv ==
  /\ Alive("mediamtx") =>
       /\ place \notin {"find", "launcher", "ensure", "probe", "pkill", "serve", "done"}
       /\ place # "servePid" => MEDIAMTX_PID = "mediamtx"
  /\ place = "servePid" => proc["mediamtx"] # "unborn"

(* How far cleanup has come, also once it has interrupted a wait. *)
CleanupInv ==
  /\ trap \in {"killMtx", "waitMtx"} => Waited(PUBLISHER_PID)
  /\ place = "ffmpegWait" /\ broken /\ trap = "no" => ~Alive("ffmpeg")

IInv == TypeOK /\ PublisherInv /\ ServerInv /\ CleanupInv
----------------------------------------------------------------------------
(* The steps that change little are taken together; one step per conjunct.   *)

(* Commands that neither start nor record a child. *)
LEMMA PlainStep ==
  ASSUME IInv, Find \/ Ensure \/ Probe \/ Pkill \/ Check \/ Exit
  PROVE  IInv'
<1> USE DEF IInv, Find, Ensure, Probe, Pkill, Check, Exit, At, Goto, pids, settings
<1>1. TypeOK'
  BY DEF TypeOK
<1>2. PublisherInv'
  BY DEF TypeOK, PublisherInv, Alive
<1>3. ServerInv'
  BY DEF TypeOK, ServerInv, Alive
<1>4. CleanupInv'
  BY DEF TypeOK, CleanupInv, Waited, Alive
<1>5. QED
  BY <1>1, <1>2, <1>3, <1>4

(* MediaMTX is started, then its PID kept. *)
LEMMA ServeStep ==
  ASSUME IInv, Serve \/ ServePid
  PROVE  IInv'
<1> USE DEF IInv, Serve, ServePid, Spawn, At, Goto, pids, settings
<1>1. TypeOK'
  BY DEF TypeOK, ServerInv, Children, Publishers
<1>2. PublisherInv'
  BY DEF TypeOK, PublisherInv, Alive, Children, Publishers
<1>3. ServerInv'
  BY DEF TypeOK, ServerInv, Alive, Children, Publishers
<1>4. CleanupInv'
  BY DEF TypeOK, CleanupInv, Waited, Alive, Children, Publishers
<1>5. QED
  BY <1>1, <1>2, <1>3, <1>4

(* A publisher is started, or passed over because it is not installed. *)
LEMMA ChooseStep ==
  ASSUME IInv, Choose("ffmpeg", "ffmpegPid", "gst") \/ Choose("gst", "gstPid", "exit")
  PROVE  IInv'
<1> USE DEF IInv, Choose, Spawn, At, Goto, pids, settings
<1>1. TypeOK'
  BY DEF TypeOK, Children, Publishers
<1>2. PublisherInv'
  BY DEF TypeOK, PublisherInv, Alive, Children, Publishers
<1>3. ServerInv'
  BY DEF TypeOK, ServerInv, Alive, Children, Publishers
<1>4. CleanupInv'
  BY DEF TypeOK, CleanupInv, Waited, Alive, Children, Publishers
<1>5. QED
  BY <1>1, <1>2, <1>3, <1>4

(* Its PID is kept, and it is waited for. *)
LEMMA PublisherPidStep ==
  ASSUME IInv,
         \/ PublisherPid("ffmpeg", "ffmpegPid", "ffmpegWait")
         \/ PublisherPid("gst", "gstPid", "gstWait")
  PROVE  IInv'
<1> USE DEF IInv, PublisherPid, Record, At, Goto, settings
<1>1. TypeOK'
  BY DEF TypeOK, PublisherInv, Children, Publishers
<1>2. PublisherInv'
  BY DEF TypeOK, PublisherInv, Alive
<1>3. ServerInv'
  BY DEF TypeOK, ServerInv, Alive
<1>4. CleanupInv'
  BY DEF TypeOK, CleanupInv, Waited, Alive
<1>5. QED
  BY <1>1, <1>2, <1>3, <1>4

(* A wait that is over, or was interrupted by a trap that has ended: either  *)
(* way ffmpeg has ended before the fallback is looked for.                  *)
LEMMA PublisherWaitStep ==
  ASSUME IInv,
         \/ PublisherWait("ffmpeg", "ffmpegWait", "gst")
         \/ PublisherWait("gst", "gstWait", "exit")
  PROVE  IInv'
<1> USE DEF IInv, PublisherWait, At, Goto, pids, settings
<1>1. TypeOK'
  BY DEF TypeOK
<1>2. PublisherInv'
  BY DEF TypeOK, PublisherInv, CleanupInv, Alive
<1>3. ServerInv'
  BY DEF TypeOK, ServerInv, Alive
<1>4. CleanupInv'
  BY DEF TypeOK, CleanupInv, Waited, Alive
<1>5. QED
  BY <1>1, <1>2, <1>3, <1>4

(* A signal sends cleanup back to its beginning. *)
LEMMA SignalStep ==
  ASSUME IInv, Signal
  PROVE  IInv'
<1> USE DEF IInv, Signal, pids, settings
<1>1. TypeOK'
  BY PushAssumption DEF PushAssumption, TypeOK
<1>2. PublisherInv'
  BY DEF TypeOK, PublisherInv, Alive
<1>3. ServerInv'
  BY DEF TypeOK, ServerInv, Alive
<1>4. CleanupInv'
  BY DEF CleanupInv
<1>5. QED
  BY <1>1, <1>2, <1>3, <1>4

(* No child comes to life by ending, and none loses its history. *)
LEMMA ProcFalls ==
  ASSUME TypeOK, (\E pid : Kill(pid)) \/ (\E c \in Children : Ends(c)) \/ UNCHANGED proc
  PROVE  /\ proc' \in [Children -> {"unborn", "running", "dying", "ok", "bad"}]
         /\ \A c \in Children : /\ Alive(c)' => Alive(c)
                                /\ proc[c] # "unborn" => proc'[c] # "unborn"
  BY DEF TypeOK, Kill, Ends, Alive

(* A child ends, a server of somebody else comes or goes. *)
LEMMA OutsideStep ==
  ASSUME IInv, (\E c \in Children : Ends(c)) \/ Foreign
  PROVE  IInv'
<1>1. /\ proc' \in [Children -> {"unborn", "running", "dying", "ok", "bad"}]
      /\ \A c \in Children : /\ Alive(c)' => Alive(c)
                             /\ proc[c] # "unborn" => proc'[c] # "unborn"
  BY ProcFalls DEF IInv, Foreign
<1>2. UNCHANGED <<place, trap, broken, sent, pids, settings>> /\ foreign' \in BOOLEAN
  BY DEF IInv, TypeOK, Ends, Foreign
<1>3. {"ffmpeg", "gst", "mediamtx"} = Children
  BY DEF Children, Publishers
<1> USE <1>1, <1>2, <1>3 DEF IInv, pids, settings
<1>4. TypeOK'
  BY DEF TypeOK, Publishers
<1>5. PublisherInv'
  BY DEF PublisherInv
<1>6. ServerInv'
  BY DEF ServerInv
<1>7. CleanupInv'
  BY DEF CleanupInv, Waited
<1>8. QED
  BY <1>4, <1>5, <1>6, <1>7

(* cleanup has ended what it waited for. *)
LEMMA CleanupStep ==
  ASSUME IInv, Cleanup
  PROVE  IInv'
<1>1. /\ proc' \in [Children -> {"unborn", "running", "dying", "ok", "bad"}]
      /\ \A c \in Children : /\ Alive(c)' => Alive(c)
                             /\ proc[c] # "unborn" => proc'[c] # "unborn"
  BY ProcFalls DEF IInv, Cleanup
<1>2. \/ trap = "killPub" /\ trap' = "waitPub" /\ UNCHANGED place
      \/ trap = "waitPub" /\ trap' = "killMtx" /\ UNCHANGED place /\ Waited(PUBLISHER_PID)
      \/ trap = "killMtx" /\ trap' = "waitMtx" /\ UNCHANGED place
      \/ /\ trap = "waitMtx" /\ trap' = "no" /\ Waited(MEDIAMTX_PID)
         /\ place' = IF place = "exit" THEN "done" ELSE place
  BY DEF Cleanup
<1>3. UNCHANGED <<broken, sent, pids, foreign, settings>>
  BY DEF Cleanup
<1>4. {"ffmpeg", "gst", "mediamtx"} = Children
  BY DEF Children, Publishers
<1> USE <1>1, <1>2, <1>3, <1>4 DEF IInv, pids, settings
<1>5. TypeOK'
  BY DEF TypeOK, Publishers
<1>6. PublisherInv'
  BY DEF PublisherInv, CleanupInv, Waited
<1>7. ServerInv'
  BY DEF ServerInv, Waited
<1>8. CleanupInv'
  BY DEF PublisherInv, CleanupInv, Waited
<1>9. QED
  BY <1>5, <1>6, <1>7, <1>8
----------------------------------------------------------------------------
(* Together *)

(* No child is started. *)
LEMMA InitInv == Init => IInv
<1> SUFFICES ASSUME Init PROVE IInv
  OBVIOUS
<1>1. \A c \in Children : ~Alive(c)
  BY DEF Init, Alive
<1>2. foreign \in BOOLEAN
  BY DEF Init
<1>3. sent \in 0 .. MaxSignals
  BY PushAssumption DEF PushAssumption, Init
<1>4. TypeOK
  BY <1>2, <1>3 DEF Init, PidsEmpty, TypeOK
<1>5. PublisherInv /\ ServerInv /\ CleanupInv
  BY <1>1 DEF Init, PublisherInv, ServerInv, CleanupInv, Children, Publishers
<1>6. QED
  BY <1>4, <1>5 DEF IInv

(* IInv is an invariant of the script. *)
LEMMA Invariance == SafeSpec => []IInv
<1>1. IInv /\ [Next]_vars => IInv'
  <2> SUFFICES ASSUME IInv, [Next]_vars PROVE IInv'
    OBVIOUS
  <2>1. CASE UNCHANGED vars
    BY <2>1
    DEF IInv, vars, TypeOK, PublisherInv, ServerInv, CleanupInv, Waited, Alive
  <2>2. QED
    BY <2>1, PlainStep, ServeStep, ChooseStep, PublisherPidStep, PublisherWaitStep, SignalStep,
       CleanupStep, OutsideStep DEF Next, Script
<1>2. QED
  BY <1>1, InitInv, PTL DEF SafeSpec

(* The state of the script is well typed; a PID variable that is set is that *)
(* of a child that was started.                                             *)
THEOREM PushTypeCorrect == SafeSpec => []TypeOK
<1>1. IInv => TypeOK
  BY DEF IInv
<1>2. QED
  BY <1>1, Invariance, PTL

(* However often and wherever the script is interrupted, no child of it is   *)
(* left when it has ended.                                                  *)
THEOREM NoChildLeft == SafeSpec => []ChildrenGone
<1>1. IInv => ChildrenGone
  BY DEF IInv, PublisherInv, ServerInv, ChildrenGone, Children, Publishers
<1>2. QED
  BY <1>1, Invariance, PTL

(* The camera and the RTSP path have one publisher at most. *)
THEOREM PublishersExclude == SafeSpec => []OnePublisher
<1>1. IInv => OnePublisher
  BY DEF IInv, PublisherInv, OnePublisher
<1>2. QED
  BY <1>1, Invariance, PTL

(* cleanup sends SIGTERM before each of its waits, and no step of the script *)
(* starts a child or changes a PID while cleanup runs.                       *)
THEOREM CleanupKillsFirst == SafeSpec => []CleanupWaitsForKilled
<1>1. Init => CleanupWaitsForKilled
  BY DEF Init, CleanupWaitsForKilled
<1>2. IInv /\ CleanupWaitsForKilled /\ [Next]_vars => CleanupWaitsForKilled'
  <2> SUFFICES ASSUME IInv, CleanupWaitsForKilled, [Next]_vars
               PROVE  CleanupWaitsForKilled'
    OBVIOUS
  <2> USE DEF CleanupWaitsForKilled
  <2>1. CASE Script
    <3>1. trap' \in {"no", "killPub"}
      BY <2>1 DEF Script, Find, Ensure, Probe, Pkill, Serve, ServePid, Check, Choose,
         PublisherPid, PublisherWait, Exit, At, Goto
    <3>2. QED
      BY <3>1
  <2>2. CASE Cleanup
    <3>1. PUBLISHER_PID \in Children \cup {NoPid} /\ MEDIAMTX_PID \in Children \cup {NoPid}
      BY DEF IInv, TypeOK, Children
    <3>2. QED
      BY <2>2, <3>1 DEF Cleanup, Kill, pids
  <2>3. CASE Signal
    BY <2>3 DEF Signal
  <2>4. CASE \E c \in Children : Ends(c)
    <3>1. PICK c \in Children : Ends(c)
      BY <2>4
    <3>2. UNCHANGED <<trap, PUBLISHER_PID, MEDIAMTX_PID>>
      BY <3>1 DEF Ends, pids
    <3>3. \A d \in Children : proc'[d] = "running" => proc[d] = "running"
      BY <3>1 DEF IInv, TypeOK, Ends
    <3>4. PUBLISHER_PID \in Children \cup {NoPid} /\ MEDIAMTX_PID \in Children \cup {NoPid}
      BY DEF IInv, TypeOK, Children
    <3>5. QED
      BY <3>2, <3>3, <3>4
  <2>5. CASE Foreign \/ UNCHANGED vars
    BY <2>5 DEF Foreign, vars, pids
  <2>6. QED
    BY <2>1, <2>2, <2>3, <2>4, <2>5 DEF Next
<1>3. QED
  BY <1>1, <1>2, Invariance, PTL DEF SafeSpec
=============================================================================
