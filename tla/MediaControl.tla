---------------------------- MODULE MediaControl ----------------------------
(***************************************************************************)
(* src/src/app_state.c with the callers of it in main.c and http_server.c: *)
(* the flags `recording` and `streaming` that GET /status reports, the     *)
(* commands that set them, and app_sync_media_pipeline, which makes the    *)
(* recorder follow them.  Composes GstRecorder and MediaMtx.               *)
(*                                                                         *)
(* All commands come from one thread at a time: main before it creates the *)
(* other threads (options -r and --stream), the HTTP thread while the      *)
(* program serves, main again once it has joined the others.  That control *)
(* thread is `ctl`.  The video thread pushes frames while the program      *)
(* serves.                                                                 *)
(***************************************************************************)
EXTENDS Naturals, FiniteSets

CONSTANTS ctl, Pushers, Pipes, NoPipe, NoThread, Faults,  \* of GstRecorder
          Children, NoChild, MtxFaults                    \* of MediaMtx

VARIABLES lock, rec, pc, held, goal, verdict,
          state, sinks, bus, refs, srcRefs, mp4,
          mgr, mpc, spawned, mret, child, foreign, calm,
          mon,    \* monitor.recording and monitor.streaming, as a set
          phase,  \* which part of main runs
          at,     \* where the control thread is in the command or the exit
          cmd,    \* the command under way, or the last one
          reply   \* what the last command returned

recVars == <<lock, rec, pc, held, goal, verdict, state, sinks, bus, refs, srcRefs, mp4>>
mtxVars == <<mgr, mpc, spawned, mret, child, foreign, calm>>
appVars == <<mon, phase, at, cmd, reply>>
vars == <<lock, rec, pc, held, goal, verdict, state, sinks, bus, refs, srcRefs, mp4,
          mgr, mpc, spawned, mret, child, foreign, calm, mon, phase, at, cmd, reply>>

(* The assumptions of the two components, with ctl as the only controller.   *)
ASSUME ControlAssumption ==
  /\ IsFiniteSet(Pushers)
  /\ ctl \notin Pushers /\ NoThread \notin {ctl} \cup Pushers
  /\ NoPipe \notin Pipes /\ NoChild \notin Children
  /\ Faults \subseteq {"build", "pipe", "eos", "frame"}
  /\ MtxFaults \subseteq {"fork", "boot", "slow", "crash", "foreign", "probe"}

R == INSTANCE GstRecorder WITH Controllers <- {ctl}
M == INSTANCE MediaMtx

Commands == {"recStart", "recStop", "streamStart", "streamStop"}
Starting == {"optRecord", "optStream"}

AppTypeOK ==
  /\ mon \in SUBSET {"record", "stream"}
  /\ phase \in Starting \cup {"serving", "failing", "closing", "exited"}
  /\ at \in {"ready", "begin", "mtx", "sync", "call", "stopRec", "stoppingRec",
             "stoppingMtx", "deinit", "deiniting"}
  /\ cmd \in Commands
  /\ reply \in {"ok", "fail"}

TypeOK == R!TypeOK /\ M!TypeOK /\ AppTypeOK

Init ==
  /\ R!Init
  /\ M!Init
  /\ mon = {}
  /\ phase = "optRecord"
  /\ at = "ready"
  /\ cmd = "recStop"
  /\ reply = "ok"

(* What the recorder says it does: gst_recorder_is_recording, _is_streaming. *)
Produces == (IF rec.recording THEN {"record"} ELSE {})
            \cup (IF rec.streaming THEN {"stream"} ELSE {})

App(next) == at' = next /\ UNCHANGED <<phase, cmd, reply>>

(* The end of a command.  While the program starts, main goes on to the next *)
(* option or, if the command failed, cleans up and exits.                   *)
Answer(v) ==
  /\ reply' = v
  /\ UNCHANGED cmd
  /\ LET failed == phase \in Starting /\ v = "fail"
     IN /\ phase' = CASE failed -> "failing"
                      [] ~failed /\ phase = "optRecord" -> "optStream"
                      [] ~failed /\ phase = "optStream" -> "serving"
                      [] phase = "serving" -> phase
        /\ at' = CASE failed /\ phase = "optRecord" -> "deinit"
                   [] failed /\ phase = "optStream" -> "stopRec"
                   [] OTHER -> "ready"
----------------------------------------------------------------------------
(* The bounds: a command is only given while there is a fresh pipeline for   *)
(* it, if it may need one, and a fresh process id, if it may need one.      *)
StopsAll(c) == (c = "recStop" /\ mon \subseteq {"record"})
               \/ (c = "streamStop" /\ mon \subseteq {"stream"})

Affordable(c) ==
  /\ StopsAll(c) \/ \E p \in Pipes : state[p] = "unborn"
  /\ c = "streamStart" => \E k \in Children : child[k] = "unborn"

(* main: -r starts a recording and --stream a stream before the threads      *)
(* exist; either may be absent.                                             *)
Option ==
  /\ phase \in Starting /\ at = "ready"
  /\ \/ /\ cmd' = IF phase = "optRecord" THEN "recStart" ELSE "streamStart"
        /\ at' = "begin"
        /\ UNCHANGED phase
     \/ /\ phase' = IF phase = "optRecord" THEN "optStream" ELSE "serving"
        /\ UNCHANGED <<at, cmd>>
  /\ UNCHANGED <<recVars, mtxVars, mon, reply>>

(* http_server.c, handle_request: one of the four POST requests.            *)
Request(c) ==
  /\ phase = "serving" /\ at = "ready"
  /\ Affordable(c)
  /\ cmd' = c
  /\ at' = "begin"
  /\ UNCHANGED <<recVars, mtxVars, mon, phase, reply>>

(* Faulty variants: the flag alone, or no early return at all. *)
AlreadyByFlag(x) == x \in mon
AlreadyNever(x) == FALSE

(* The early return of the start commands: the flag alone is not enough, the *)
(* recorder has to confirm it.                                              *)
Already(x) == x \in mon /\ x \in Produces

BeginRecStart ==
  /\ at = "begin" /\ cmd = "recStart"
  /\ lock = NoThread
  /\ IF Already("record")
       THEN Answer("ok") /\ UNCHANGED mon
       ELSE App("sync") /\ mon' = mon \cup {"record"}
  /\ UNCHANGED <<recVars, mtxVars>>

BeginStreamStart ==
  /\ at = "begin" /\ cmd = "streamStart"
  /\ lock = NoThread
  /\ IF Already("stream")
       THEN Answer("ok") /\ UNCHANGED mtxVars
       ELSE App("mtx") /\ M!CallStart
  /\ UNCHANGED <<recVars, mon>>

(* mediamtx_manager_start has returned; the flag is set only if it worked.   *)
FlagStreaming ==
  IF mret = "fail"
    THEN Answer("fail") /\ UNCHANGED mon
    ELSE App("sync") /\ mon' = mon \cup {"stream"}

EndMtxStart ==
  /\ at = "mtx" /\ mpc = "idle"
  /\ FlagStreaming
  /\ UNCHANGED <<recVars, mtxVars>>

BeginRecStop ==
  /\ at = "begin" /\ cmd = "recStop"
  /\ App("sync") /\ mon' = mon \ {"record"}
  /\ UNCHANGED <<recVars, mtxVars>>

BeginStreamStop ==
  /\ at = "begin" /\ cmd = "streamStop"
  /\ App("sync") /\ mon' = mon \ {"stream"}
  /\ UNCHANGED <<recVars, mtxVars>>

(* app_sync_media_pipeline *)
Sync ==
  /\ at = "sync"
  /\ IF mon = {} THEN R!CallStop(ctl) ELSE R!CallApply(ctl, mon)
  /\ App("call")
  /\ UNCHANGED <<mtxVars, mon>>

(* The value of gst_recorder_apply is the command's; that of the stop is not *)
(* looked at.                                                               *)
EndSync ==
  /\ at = "call" /\ pc[ctl] = "idle"
  /\ Answer(IF mon = {} THEN "ok" ELSE verdict[ctl])
  /\ UNCHANGED <<recVars, mtxVars, mon>>

(* Every step of a call under way in the recorder or the manager. *)
Callee ==
  \/ R!Control(ctl) /\ UNCHANGED <<mtxVars, appVars>>
  \/ M!Manager /\ UNCHANGED <<recVars, appVars>>
----------------------------------------------------------------------------
(* Faulty variant: the camera closed with the video thread still running. *)
CloseUnjoined ==
  /\ phase = "serving" /\ at = "ready"
  /\ phase' = "closing"
  /\ at' = "stopRec"
  /\ UNCHANGED <<recVars, mtxVars, mon, cmd, reply>>

(* Faulty variant: MediaMTX stopped under the stream. *)
CloseUnstopped ==
  /\ phase = "serving" /\ at = "ready"
  /\ \A u \in Pushers : pc[u] = "idle"
  /\ phase' = "closing"
  /\ at' = "stoppingRec"
  /\ UNCHANGED <<recVars, mtxVars, mon, cmd, reply>>

(* The end of main: it has joined the video thread, which finishes its       *)
(* frame, and the HTTP thread, which finishes its request.                  *)
Close ==
  /\ phase = "serving" /\ at = "ready"
  /\ \A u \in Pushers : pc[u] = "idle"
  /\ phase' = "closing"
  /\ at' = "stopRec"
  /\ UNCHANGED <<recVars, mtxVars, mon, cmd, reply>>

StopRec ==
  /\ at = "stopRec"
  /\ R!CallStop(ctl)
  /\ App("stoppingRec")
  /\ UNCHANGED <<mtxVars, mon>>

StopMtx ==
  /\ at = "stoppingRec" /\ pc[ctl] = "idle"
  /\ M!CallStop
  /\ App("stoppingMtx")
  /\ UNCHANGED <<recVars, mon>>

(* Only the regular end of main resets the flags, not that of a failed       *)
(* --stream.                                                                *)
ResetFlags ==
  /\ at = "stoppingMtx" /\ mpc = "exited"
  /\ mon' = IF phase = "closing" THEN {} ELSE mon
  /\ App("deinit")
  /\ UNCHANGED <<recVars, mtxVars>>

(* gst_recorder_deinit: a stop, then the mutex is destroyed. *)
Deinit ==
  /\ at = "deinit"
  /\ R!CallStop(ctl)
  /\ App("deiniting")
  /\ UNCHANGED <<mtxVars, mon>>

Exit ==
  /\ at = "deiniting" /\ pc[ctl] = "idle" /\ phase # "exited"
  /\ phase' = "exited"
  /\ UNCHANGED <<recVars, mtxVars, mon, at, cmd, reply>>
----------------------------------------------------------------------------
(* The control thread's own steps, once a command or the exit has begun.    *)
Work ==
  \/ BeginRecStart \/ BeginStreamStart \/ EndMtxStart \/ BeginRecStop
  \/ BeginStreamStop \/ Sync \/ EndSync \/ Callee
  \/ StopRec \/ StopMtx \/ ResetFlags \/ Deinit \/ Exit

Environment ==
  \/ \E u \in Pushers : phase = "serving" /\ R!Video(u) /\ UNCHANGED <<mtxVars, appVars>>
  \/ \E p \in Pipes : R!Stream(p) /\ UNCHANGED <<mtxVars, appVars>>
  \/ M!Processes /\ UNCHANGED <<recVars, appVars>>

Next == Option \/ (\E c \in Commands : Request(c)) \/ Close \/ Work \/ Environment

(* The control thread runs on; some pipeline or process of those that have    *)
(* something to do, of which there are finitely many, does it.               *)
Fairness ==
  /\ SF_vars(Work)
  /\ WF_vars(\E p \in Pipes :
               (R!FileComplete(p) \/ R!PostEos(p)) /\ UNCHANGED <<mtxVars, appVars>>)
  /\ WF_vars(\E k \in Children :
               /\ child[k] \in {"booting", "dying"}
               /\ M!ChildListens(k) \/ M!ChildExits(k)
               /\ UNCHANGED <<recVars, appVars>>)

SafeSpec == Init /\ [][Next]_vars
Spec == SafeSpec /\ Fairness
----------------------------------------------------------------------------
(* Properties *)

Idle == phase = "serving" /\ at = "ready"

(* Between two commands the recorder produces exactly what the flags say,    *)
(* unless the last command failed; then it may produce nothing at all.  In   *)
(* particular a command answered with "ok" has done what it was asked to.   *)
OutputsFollowFlags ==
  Idle => Produces = mon \/ (Produces = {} /\ reply = "fail")

(* Also while a command runs: the recorder only begins, from nothing, what    *)
(* the flags say by then, and one set of outputs never turns into another.  *)
(* A reader of its flags sees what was asked for, what was there before, or  *)
(* nothing.                                                                 *)
OutputsBegunAsAsked ==
  [][Produces' # Produces => Produces' = {} \/ (Produces = {} /\ Produces' = mon)]_vars

(* A child of the manager is only sent SIGTERM when no pipeline pushes to    *)
(* it: main stops the recorder before the manager on every way out, and a    *)
(* start that gives up the child it forked has no stream yet, whatever the    *)
(* commands before it left behind.                                          *)
ServerOutlivesStream ==
  [][ (\E k \in Children : child[k] # "dying" /\ child'[k] = "dying") =>
        \A p \in Pipes : "stream" \in sinks[p] => state[p] \in {"unborn", "null"} ]_vars

Commanding == at \in {"begin", "mtx", "sync", "call"}

(* The output a start command asks for. *)
Asked == CASE cmd = "recStart" -> {"record"}
           [] cmd = "streamStart" -> {"stream"}
           [] OTHER -> {}

(* A start for an output that is there already changes nothing: it never      *)
(* rebuilds the pipeline, which would cost the MP4 file being written, and    *)
(* an output that was missing is not begun twice in one command.             *)
RepeatedStartHarmless ==
  [][Commanding /\ Asked \cap Produces # {} => rec'.pipeline = rec.pipeline]_vars

(* Whatever main was doing when it gave up or was told to end: no pipeline   *)
(* is left alive or referenced, no thread is inside the recorder whose       *)
(* mutex is destroyed.                                                      *)
CleanExit ==
  phase = "exited" =>
    /\ \A p \in Pipes : state[p] \in {"unborn", "null"} /\ refs[p] = 0
    /\ \A t \in {ctl} \cup Pushers : pc[t] = "idle"
    /\ mpc \in {"idle", "exited"}

(* Every command is answered and every exit that has begun ends.            *)
CommandsAnswered == at # "ready" ~> at = "ready" \/ phase = "exited"

(* docs/architecture.md:68 says GET /status tells whether a recording runs.  *)
StatusTellsRecording ==
  Idle => ("record" \in mon <=> "record" \in Produces)

(* README.md:116 offers recording and streaming at once, and README.md:8 an  *)
(* MP4 as the result of a recording: with GStreamer working, a recording     *)
(* that has got frames is not ended before its file is complete.            *)
RecordingsEndComplete ==
  [][\A p \in Pipes :
       state[p] = "playing" /\ mp4[p] = "writing" => mp4'[p] # "broken"]_vars
=============================================================================
