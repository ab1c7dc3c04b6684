------------------------------ MODULE RtspPush ------------------------------
(***************************************************************************)
(* src/scripts/rtsp_push.sh: a server and a publisher as background        *)
(* children of the script, a second publisher as a fallback, and one       *)
(* cleanup function as the trap of EXIT, INT and TERM.                     *)
(*                                                                         *)
(* The shell runs a trap between two commands, or at once when the signal  *)
(* interrupts its `wait`, which then fails.  After the trap of INT or TERM *)
(* the script goes on where it was.  A signal during a trap runs cleanup   *)
(* once more, inside the one under way.                                    *)
(***************************************************************************)
EXTENDS Naturals

CONSTANTS NoPid,       \* an empty PID variable
          MaxSignals,  \* bound: signals of one run
          PushFaults   \* "reuse": a server is there from the start, "foreign":
                       \* servers come and go, "exit": children end by themselves

Publishers == {"ffmpeg", "gst"}
Children == Publishers \cup {"mediamtx"}
Tools == Publishers \cup {"mediamtx", "test-launch", "ss"}

ASSUME PushAssumption ==
  /\ NoPid \notin Children
  /\ MaxSignals \in Nat
  /\ PushFaults \subseteq {"reuse", "foreign", "exit"}

VARIABLES place,    \* the command the script is at
          trap,     \* the command of cleanup that runs, or "no"
          broken,   \* a signal has interrupted the wait the script was in
          sent,     \* signals received
          PUBLISHER_PID, MEDIAMTX_PID,
          proc,     \* the life of each child
          foreign,  \* a server the script did not start has the port
          tools,    \* what is installed
          force     \* RTSP_FORCE_MEDIAMTX

vars == <<place, trap, broken, sent, PUBLISHER_PID, MEDIAMTX_PID, proc, foreign, tools, force>>
pids == <<PUBLISHER_PID, MEDIAMTX_PID>>
settings == <<tools, force>>

Alive(c) == proc[c] \in {"running", "dying"}

(* The type invariant; a PID variable only names a child that was started.   *)
TypeOK ==
  /\ place \in {"find", "launcher", "ensure", "probe", "pkill", "serve", "servePid", "check",
                "ffmpeg", "ffmpegPid", "ffmpegWait", "gst", "gstPid", "gstWait", "exit", "done"}
  /\ trap \in {"no", "killPub", "waitPub", "killMtx", "waitMtx"}
  /\ broken \in BOOLEAN
  /\ sent \in 0 .. MaxSignals
  /\ PUBLISHER_PID \in Publishers \cup {NoPid}
  /\ MEDIAMTX_PID \in {"mediamtx", NoPid}
  /\ proc \in [Children -> {"unborn", "running", "dying", "ok", "bad"}]
  /\ \A c \in {PUBLISHER_PID, MEDIAMTX_PID} \ {NoPid} : proc[c] # "unborn"
  /\ foreign \in BOOLEAN
  /\ tools \subseteq Tools
  /\ force \in BOOLEAN

PidsEmpty == PUBLISHER_PID = NoPid /\ MEDIAMTX_PID = NoPid

Init ==
  /\ place = "find"
  /\ trap = "no"
  /\ broken = FALSE
  /\ sent = 0
  /\ PidsEmpty
  /\ proc = [c \in Children |-> "unborn"]
  /\ foreign \in {FALSE} \cup {f \in BOOLEAN : "reuse" \in PushFaults}
  /\ tools \in SUBSET Tools
  /\ force \in BOOLEAN

(* A command of the script itself runs while no trap does. *)
At(p) == place = p /\ trap = "no"
Goto(p) == place' = p /\ UNCHANGED <<trap, sent, settings>>

Spawn(c) == proc' = [proc EXCEPT ![c] = "running"]
----------------------------------------------------------------------------
(* find_test_launch, and the choice between its two ways: exec replaces the  *)
(* script by test-launch, without any trap.                                 *)
Find ==
  /\ At("find")
  /\ Goto(IF "test-launch" \in tools /\ ~force THEN "launcher" ELSE "ensure")
  /\ UNCHANGED <<broken, pids, proc, foreign>>

(* ensure_mediamtx, whose installation works or not. *)
Ensure ==
  /\ At("ensure")
  /\ \/ Goto("probe")
     \/ "mediamtx" \notin tools /\ Goto("exit")
  /\ UNCHANGED <<broken, pids, proc, foreign>>

(* start_mediamtx: a server on the port is used, if ss is there to tell.     *)
Probe ==
  /\ At("probe")
  /\ Goto(IF "ss" \in tools /\ foreign THEN "ffmpeg" ELSE "pkill")
  /\ MEDIAMTX_PID' = IF "ss" \in tools /\ foreign THEN NoPid ELSE MEDIAMTX_PID
  /\ UNCHANGED <<broken, PUBLISHER_PID, proc, foreign>>

(* pkill of every MediaMTX started from this directory, also one that got    *)
(* the port just now.                                                       *)
Pkill ==
  /\ At("pkill")
  /\ Goto("serve")
  /\ foreign' \in {FALSE, foreign}
  /\ UNCHANGED <<broken, pids, proc>>

Serve ==
  /\ At("serve")
  /\ Spawn("mediamtx")
  /\ Goto("servePid")
  /\ UNCHANGED <<broken, pids, foreign>>

ServePid ==
  /\ At("servePid")
  /\ MEDIAMTX_PID' = "mediamtx"
  /\ Goto("check")
  /\ UNCHANGED <<broken, PUBLISHER_PID, proc, foreign>>

(* kill -0, one second later. *)
Check ==
  /\ At("check")
  /\ Goto(IF Alive("mediamtx") THEN "ffmpeg" ELSE "exit")
  /\ UNCHANGED <<broken, pids, proc, foreign>>

(* run_ffmpeg_publisher if there is an ffmpeg, run_gst_publisher if there is *)
(* a GStreamer.                                                             *)
Choose(c, started, next) ==
  /\ At(c)
  /\ IF c \in tools
       THEN Spawn(c) /\ Goto(started)
       ELSE UNCHANGED proc /\ Goto(next)
  /\ UNCHANGED <<broken, pids, foreign>>

(* Faulty variant: the PID of the publisher is not kept. *)
RecordNothing(c) == UNCHANGED PUBLISHER_PID

Record(c) == PUBLISHER_PID' = c

PublisherPid(c, started, waiting) ==
  /\ At(started)
  /\ Record(c)
  /\ broken' = FALSE
  /\ Goto(waiting)
  /\ UNCHANGED <<MEDIAMTX_PID, proc, foreign>>

(* The wait ends with the publisher, or a trap has run in it.                *)
PublisherWait(c, waiting, next) ==
  /\ At(waiting)
  /\ broken \/ ~Alive(c)
  /\ Goto(IF ~broken /\ proc[c] = "ok" THEN "exit" ELSE next)
  /\ broken' = FALSE
  /\ UNCHANGED <<pids, proc, foreign>>

(* The script ends: the EXIT trap. *)
Exit ==
  /\ At("exit")
  /\ trap' = "killPub"
  /\ UNCHANGED <<place, broken, sent, pids, proc, foreign, settings>>

Script ==
  \/ Find \/ Ensure \/ Probe \/ Pkill \/ Serve \/ ServePid \/ Check
  \/ Choose("ffmpeg", "ffmpegPid", "gst") \/ Choose("gst", "gstPid", "exit")
  \/ PublisherPid("ffmpeg", "ffmpegPid", "ffmpegWait") \/ PublisherPid("gst", "gstPid", "gstWait")
  \/ PublisherWait("ffmpeg", "ffmpegWait", "gst") \/ PublisherWait("gst", "gstWait", "exit")
  \/ Exit
----------------------------------------------------------------------------
(* cleanup *)

(* Faulty variant: the server is waited for, but not killed. *)
KillsPublisherOnly(pid) ==
  proc' = [c \in Children |-> IF c = pid /\ c \in Publishers /\ proc[c] = "running"
                              THEN "dying" ELSE proc[c]]

(* kill of a PID: nothing happens if it is empty or has ended.               *)
Kill(pid) ==
  proc' = [c \in Children |-> IF c = pid /\ proc[c] = "running" THEN "dying" ELSE proc[c]]

(* Faulty variant: the wait is left out. *)
WaitNot(pid) == TRUE

Waited(pid) == pid \in Children => ~Alive(pid)

Cleanup ==
  /\ \/ /\ trap = "killPub" /\ Kill(PUBLISHER_PID)
        /\ trap' = "waitPub" /\ UNCHANGED place
     \/ /\ trap = "waitPub" /\ Waited(PUBLISHER_PID)
        /\ trap' = "killMtx" /\ UNCHANGED <<place, proc>>
     \/ /\ trap = "killMtx" /\ Kill(MEDIAMTX_PID)
        /\ trap' = "waitMtx" /\ UNCHANGED place
     \/ /\ trap = "waitMtx" /\ Waited(MEDIAMTX_PID)
        /\ trap' = "no"
        /\ place' = IF place = "exit" THEN "done" ELSE place
        /\ UNCHANGED proc
  /\ UNCHANGED <<broken, sent, pids, foreign, settings>>

(* INT or TERM.  One that comes during cleanup interrupts its wait and runs  *)
(* cleanup once more inside it; what the outer one still does after that     *)
(* finds no child alive.  Ctrl+C also ends what runs in the foreground: the  *)
(* subshell of ensure_mediamtx, which ends the script, or that of            *)
(* find_test_launch, which then seems not to be there.                      *)
Signal ==
  /\ place \notin {"launcher", "done"}
  /\ sent < MaxSignals
  /\ sent' = sent + 1
  /\ trap' = "killPub"
  /\ broken' = (broken \/ place \in {"ffmpegWait", "gstWait"})
  /\ \/ UNCHANGED place
     \/ trap = "no" /\ place = "find" /\ place' = "ensure"
     \/ trap = "no" /\ place = "ensure" /\ place' = "exit"
  /\ UNCHANGED <<pids, proc, foreign, settings>>
----------------------------------------------------------------------------
(* External: the children and other servers *)

Server == foreign \/ proc["mediamtx"] = "running"

(* A child ends: killed, by itself, or a publisher because it has no server. *)
Ends(c) ==
  /\ \/ proc[c] = "dying" /\ proc' = [proc EXCEPT ![c] = "bad"]
     \/ /\ proc[c] = "running" /\ "exit" \in PushFaults
        /\ \E how \in {"ok", "bad"} : proc' = [proc EXCEPT ![c] = how]
     \/ /\ proc[c] = "running" /\ c \in Publishers /\ ~Server
        /\ proc' = [proc EXCEPT ![c] = "bad"]
  /\ UNCHANGED <<place, trap, broken, sent, pids, foreign, settings>>

Foreign ==
  /\ "foreign" \in PushFaults /\ place \notin {"launcher", "done"}
  /\ foreign' = ~foreign
  /\ UNCHANGED <<place, trap, broken, sent, pids, proc, settings>>

Next == Script \/ Cleanup \/ Signal \/ (\E c \in Children : Ends(c)) \/ Foreign

(* The shell runs on; a child that is killed ends, and a publisher without a *)
(* server too.                                                              *)
Fairness ==
  /\ WF_vars(Script \/ Cleanup)
  /\ \A c \in Children : WF_vars(proc[c] = "dying" /\ Ends(c))
  /\ \A c \in Publishers : WF_vars(proc[c] = "running" /\ ~Server /\ Ends(c))

SafeSpec == Init /\ [][Next]_vars
Spec == SafeSpec /\ Fairness
----------------------------------------------------------------------------
(* Properties *)

(* Whatever the script was doing when it failed or was interrupted, none of  *)
(* its children outlives it.                                                *)
ChildrenGone == place = "done" => \A c \in Children : ~Alive(c)

(* The fallback does not start while the first publisher still has the       *)
(* camera, also when a signal has ended the wait for it.                    *)
OnePublisher == ~(Alive("ffmpeg") /\ Alive("gst"))

(* cleanup only waits for what it has killed, whichever of its waits a       *)
(* further signal interrupts; it never waits for a child that serves on.     *)
CleanupWaitsForKilled ==
  /\ trap = "waitPub" /\ PUBLISHER_PID # NoPid => proc[PUBLISHER_PID] # "running"
  /\ trap = "waitMtx" /\ MEDIAMTX_PID # NoPid => proc[MEDIAMTX_PID] # "running"

(* A script that has lost its publisher tries the other one or ends; it does *)
(* not hang in a wait or in its cleanup.                                    *)
ScriptEnds ==
  (\A c \in Publishers : ~Alive(c)) ~>
    place \in {"done", "launcher"} \/ \E c \in Publishers : proc[c] = "running"

(* One Ctrl+C while ffmpeg publishes only moves the script on to the          *)
(* fallback; one while the fallback publishes ends it.                      *)
FallbackStops == (place = "gstWait" /\ trap # "no") ~> place = "done"
=============================================================================
