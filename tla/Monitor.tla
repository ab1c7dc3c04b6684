------------------------------ MODULE Monitor ------------------------------
(***************************************************************************)
(* src/src/monitor.c: the video thread counts frames, the monitor thread   *)
(* takes the count of each second and judges whether the stream is lost.   *)
(* Both work on the counters under monitor.lock.  The tick is split where  *)
(* a count could be lost between its read and its reset, had the lock not  *)
(* kept the video thread out.                                              *)
(***************************************************************************)
EXTENDS Naturals

CONSTANTS NO_FRAME_THRESHOLD,  \* silent seconds that make a lost stream
          MaxFrames,           \* bound: frames of one run
          MaxQuiet             \* bound: silent seconds in a row

ASSUME MonitorAssumption ==
  /\ NO_FRAME_THRESHOLD \in Nat \ {0}
  /\ MaxFrames \in Nat
  /\ MaxQuiet \in Nat

VARIABLES frame_count,       \* frames since the last tick
          total_frames,      \* frames of the whole run
          fps,               \* frames of the last whole second
          no_frame_seconds,  \* silent seconds in a row
          stream_lost,
          running,           \* monitor.running
          mat,               \* where monitor_thread is
          camera,            \* whether the camera gives frames
          published          \* the sum of all fps values, for the properties only

counters == <<frame_count, total_frames, fps, no_frame_seconds, stream_lost, published>>
vars == <<frame_count, total_frames, fps, no_frame_seconds, stream_lost,
          running, mat, camera, published>>

TypeOK ==
  /\ frame_count \in 0 .. MaxFrames /\ total_frames \in 0 .. MaxFrames
  /\ fps \in 0 .. MaxFrames /\ published \in 0 .. MaxFrames
  /\ no_frame_seconds \in 0 .. MaxQuiet
  /\ stream_lost \in BOOLEAN /\ running \in BOOLEAN
  /\ mat \in {"loop", "sleep", "tick", "done"}
  /\ camera \in {"on", "off"}

(* monitor_init, then the threads. *)
Init ==
  /\ frame_count = 0 /\ total_frames = 0 /\ fps = 0
  /\ no_frame_seconds = 0 /\ published = 0
  /\ stream_lost = FALSE
  /\ running = TRUE
  /\ mat = "loop"
  /\ camera \in {"on", "off"}

(* monitor_thread holds monitor.lock from the read of the count to its end. *)
LockFree == mat # "tick"

(* Faulty variant: the video thread does not wait for the lock. *)
MayCountUnlocked == camera = "on"

MayCount == camera = "on" /\ LockFree

(* Faulty variant: a frame does not take the loss back. *)
KeepsLost == UNCHANGED stream_lost

FoundAgain == stream_lost' = FALSE

(* monitor_on_frame, by the video thread. *)
OnFrame ==
  /\ MayCount
  /\ total_frames < MaxFrames
  /\ frame_count' = frame_count + 1
  /\ total_frames' = total_frames + 1
  /\ no_frame_seconds' = 0
  /\ FoundAgain
  /\ UNCHANGED <<fps, running, mat, camera, published>>

(* The loop of monitor_thread looks at `running` before each second. *)
Loop ==
  /\ mat = "loop"
  /\ mat' = IF running THEN "sleep" ELSE "done"
  /\ UNCHANGED <<counters, running, camera>>

(* The second is over: the lock is taken and the count read. *)
TakeCount ==
  /\ mat = "sleep"
  /\ no_frame_seconds < MaxQuiet
  /\ fps' = frame_count
  /\ published' = published + frame_count
  /\ mat' = "tick"
  /\ UNCHANGED <<frame_count, total_frames, no_frame_seconds, stream_lost, running, camera>>

(* Faulty variant: the loss is judged one second late. *)
JudgeLate ==
  IF fps = 0
    THEN /\ no_frame_seconds' = no_frame_seconds + 1
         /\ stream_lost' = (stream_lost \/ no_frame_seconds >= NO_FRAME_THRESHOLD)
    ELSE UNCHANGED <<no_frame_seconds, stream_lost>>

(* Faulty variant: a loss is never found. *)
JudgeNever == no_frame_seconds' = no_frame_seconds + 1 /\ UNCHANGED stream_lost

Judge ==
  IF fps = 0
    THEN /\ no_frame_seconds' = no_frame_seconds + 1
         /\ stream_lost' = (stream_lost \/ no_frame_seconds' >= NO_FRAME_THRESHOLD)
    ELSE UNCHANGED <<no_frame_seconds, stream_lost>>

ResetCount == frame_count' = 0

(* The count is reset, the second judged and the lock released. *)
ResetAndJudge ==
  /\ mat = "tick"
  /\ ResetCount
  /\ Judge
  /\ mat' = "loop"
  /\ UNCHANGED <<total_frames, fps, running, camera, published>>

(* A signal, or main at the limit of frames. *)
StopRunning ==
  /\ running
  /\ running' = FALSE
  /\ UNCHANGED <<counters, mat, camera>>

(* Frames stop coming, or come again: unplugged, stalled, slow. *)
CameraChanges ==
  /\ camera' \in {"on", "off"} \ {camera}
  /\ UNCHANGED <<counters, running, mat>>

Tick == Loop \/ TakeCount \/ ResetAndJudge

Next == OnFrame \/ Tick \/ StopRunning \/ CameraChanges

SafeSpec == Init /\ [][Next]_vars

(* The monitor thread runs on; the video thread holds the lock for moments. *)
Spec == SafeSpec /\ WF_vars(Tick)
----------------------------------------------------------------------------
(* Properties *)

(* No frame is lost between two seconds or counted in both: the frames shown *)
(* so far and the ones of the current second are all that were counted.     *)
EveryFrameCounted ==
  total_frames = published + (IF mat = "tick" THEN 0 ELSE frame_count)

(* A stream shown as lost really stands still: the last second and the       *)
(* current one have no frame, and the silence is at least the threshold.    *)
LostMeansStill ==
  stream_lost => fps = 0 /\ frame_count = 0 /\ no_frame_seconds >= NO_FRAME_THRESHOLD

(* The counters behave as FrameWatch says, whatever the order of frames and  *)
(* ticks.  A second is over for FrameWatch when its count is read; the reset *)
(* and the judgement that follow under the lock are anticipated.            *)
F == INSTANCE FrameWatch WITH
       Threshold <- NO_FRAME_THRESHOLD,
       waiting <- IF mat = "tick" THEN 0 ELSE frame_count,
       quiet <- IF mat = "tick" /\ fps = 0 THEN no_frame_seconds + 1 ELSE no_frame_seconds,
       lost <- IF mat = "tick" /\ fps = 0
                 THEN no_frame_seconds + 1 >= NO_FRAME_THRESHOLD ELSE stream_lost

ImplementsFrameWatch == F!Spec

(* A camera that gives no frames any more is found out, unless it resumes or *)
(* the program ends.                                                        *)
SilenceReported == camera = "off" ~> stream_lost \/ camera = "on" \/ ~running
=============================================================================
