---------------------------- MODULE V4l2Capture ----------------------------
(***************************************************************************)
(* src/src/v4l2_capture.c with its callers in main.c: a V4L2 device opened *)
(* and started by main, read by the video thread while the program runs,   *)
(* and closed by main once it has joined that thread.                      *)
(*                                                                         *)
(* The driver owns the buffers that are queued with it and fills them in   *)
(* the background.  A frame that v4l2_capture_read_frame returns is lent,  *)
(* not copied: its buffer stays out of the queue until the next read.      *)
(*                                                                         *)
(* The calls run in one thread after the other, so they need one program   *)
(* counter only; the driver, the signal that ends the program and the      *)
(* device that may disappear run against them.                             *)
(***************************************************************************)
EXTENDS Naturals

CONSTANTS BufferCount,  \* V4L2_BUFFER_COUNT, the length of cap->buffers
          Grants,       \* numbers of buffers that VIDIOC_REQBUFS may grant
          NoBuffer,     \* held_index -1
          CapFaults     \* what the environment may do wrong

ASSUME CaptureAssumption ==
  /\ BufferCount \in Nat \ {0}
  /\ Grants \subseteq Nat
  /\ NoBuffer \notin Nat
  /\ CapFaults \subseteq {"open", "map", "start", "qbuf", "dqbuf", "unplug"}

VARIABLES cap,      \* the fields of v4l2_capture_t
          vpc,      \* where main, then the video thread, then main again is
          frame,    \* the buffer the local `frame` of the video thread is in
          maps,     \* the buffers that are mapped
          buf,      \* each buffer: the program has it, or it is queued, or filled
          on,       \* the driver streams
          device,   \* "there", or "gone", or "back" as another device
          running   \* g_running

vars == <<cap, vpc, frame, maps, buf, on, device, running>>

Buffers == 0 .. BufferCount - 1

TypeOK ==
  /\ cap \in [fd : BOOLEAN, buffer_count : Grants \cup {0}, streaming : BOOLEAN,
              held_index : Buffers \cup {NoBuffer}]
  /\ vpc \in {"open", "request", "map", "queue", "loop", "requeue", "dequeue", "use",
             "failed", "closed"}
  /\ frame \in Buffers \cup {NoBuffer}
  /\ maps \subseteq Buffers
  /\ buf \in [Buffers -> {"app", "queued", "filled"}]
  /\ on \in BOOLEAN
  /\ device \in {"there", "gone", "back"}
  /\ running \in BOOLEAN

Init ==
  /\ cap = [fd |-> FALSE, buffer_count |-> 0, streaming |-> FALSE, held_index |-> NoBuffer]
  /\ vpc = "open"
  /\ frame = NoBuffer
  /\ maps = {}
  /\ buf = [i \in Buffers |-> "app"]
  /\ on = FALSE
  /\ device = "there"
  /\ running = TRUE

(* An ioctl may fail where the environment is allowed to refuse it, and      *)
(* fails when the device it was opened on has gone.                         *)
MayFail(fault) == fault \in CapFaults \/ device # "there"
MayWork == device = "there"

Granted == {i \in Buffers : i < cap.buffer_count}

(* Faulty variant: an open that fails leaves its mappings. *)
UnmapOnlyStarted == maps' = IF cap.streaming THEN maps \ Granted ELSE maps

(* v4l2_capture_unmap *)
UnmapGranted == maps' = maps \ Granted

(* v4l2_capture_close: v4l2_capture_stop (whose failures are not looked at:  *)
(* STREAMOFF takes every buffer from the driver, and so does close), then    *)
(* v4l2_capture_unmap of the first buffer_count entries, then close.         *)
Close ==
  /\ cap' = [cap EXCEPT !.fd = FALSE, !.buffer_count = 0, !.streaming = FALSE,
                        !.held_index = IF cap.streaming THEN NoBuffer ELSE @]
  /\ UnmapGranted
  /\ buf' = [i \in Buffers |-> "app"]
  /\ on' = FALSE
----------------------------------------------------------------------------
(* v4l2_capture_open *)
Open ==
  /\ vpc = "open" /\ MayWork
  /\ cap' = [cap EXCEPT !.fd = TRUE]
  /\ vpc' = "request"
  /\ UNCHANGED <<frame, maps, buf, on, device, running>>

OpenFails ==
  /\ vpc = "open" /\ MayFail("open")
  /\ vpc' = "failed"
  /\ UNCHANGED <<cap, frame, maps, buf, on, device, running>>

(* VIDIOC_REQBUFS: the driver may grant less or more than it is asked for.  *)
Request(n) ==
  /\ vpc = "request" /\ MayWork
  /\ n >= 2
  /\ cap' = [cap EXCEPT !.buffer_count = n]
  /\ vpc' = "map"
  /\ UNCHANGED <<frame, maps, buf, on, device, running>>

(* The device is none that captures, or the format, the buffers or all but   *)
(* one of them are refused.                                                 *)
RequestFails ==
  /\ vpc = "request"
  /\ MayFail("open") \/ \E n \in Grants : n < 2
  /\ Close
  /\ vpc' = "failed"
  /\ UNCHANGED <<frame, device, running>>

(* One round of the loop of VIDIOC_QUERYBUF and mmap, in order.  Past the     *)
(* end of cap->buffers its effect is undefined, and the model stops.        *)
MapOne(i) ==
  /\ vpc = "map" /\ MayWork
  /\ i \in Granted \ maps
  /\ \A j \in Granted \ maps : i <= j
  /\ maps' = maps \cup {i}
  /\ vpc' = IF i + 1 = cap.buffer_count THEN "queue" ELSE "map"
  /\ UNCHANGED <<cap, frame, buf, on, device, running>>

MapFails ==
  /\ vpc = "map" /\ MayFail("map")
  /\ Close
  /\ vpc' = "failed"
  /\ UNCHANGED <<frame, device, running>>
----------------------------------------------------------------------------
(* v4l2_capture_start: queue every buffer, then STREAMON.  When it fails,     *)
(* main closes the device again.                                            *)
StartAll ==
  /\ vpc = "queue" /\ MayWork
  /\ buf' = [i \in Buffers |-> IF i \in Granted THEN "queued" ELSE "app"]
  /\ on' = TRUE
  /\ cap' = [cap EXCEPT !.streaming = TRUE]
  /\ vpc' = "loop"
  /\ UNCHANGED <<frame, maps, device, running>>

StartFails ==
  /\ vpc = "queue" /\ MayFail("start")
  /\ Close
  /\ vpc' = "failed"
  /\ UNCHANGED <<frame, device, running>>
----------------------------------------------------------------------------
(* The loop of video_pipeline_thread *)
Loop ==
  /\ vpc = "loop" /\ running
  /\ vpc' = "requeue"
  /\ UNCHANGED <<cap, frame, maps, buf, on, device, running>>

(* Faulty variant: a held buffer that is not given back. *)
RequeueNever ==
  /\ vpc = "requeue" /\ MayWork
  /\ cap' = [cap EXCEPT !.held_index = NoBuffer]
  /\ vpc' = "dequeue"
  /\ UNCHANGED <<frame, maps, buf, on, device, running>>

(* v4l2_capture_requeue_held gives the frame of the last read back.          *)
Requeue ==
  /\ vpc = "requeue"
  /\ cap.held_index # NoBuffer => MayWork
  /\ buf' = [i \in Buffers |-> IF i = cap.held_index THEN "queued" ELSE buf[i]]
  /\ cap' = [cap EXCEPT !.held_index = NoBuffer]
  /\ vpc' = "dequeue"
  /\ UNCHANGED <<frame, maps, on, device, running>>

(* Faulty variant: the held index cleared though QBUF failed. *)
ForgetsHeld == cap' = [cap EXCEPT !.held_index = NoBuffer]

KeepsHeld == UNCHANGED cap

(* QBUF fails: the buffer stays held and the next read tries again.          *)
RequeueFails ==
  /\ vpc = "requeue" /\ cap.held_index # NoBuffer /\ MayFail("qbuf")
  /\ KeepsHeld
  /\ vpc' = "loop"
  /\ UNCHANGED <<frame, maps, buf, on, device, running>>

(* Faulty variant: the driver may fill the buffer that is lent out. *)
LendQueued(i) == buf' = [buf EXCEPT ![i] = "queued"]

Lend(i) == buf' = [buf EXCEPT ![i] = "app"]

(* v4l2_capture_read_frame lends the buffer that VIDIOC_DQBUF returned.      *)
Dequeue(i) ==
  /\ vpc = "dequeue" /\ MayWork
  /\ buf[i] = "filled"
  /\ Lend(i)
  /\ cap' = [cap EXCEPT !.held_index = i]
  /\ frame' = i
  /\ vpc' = "use"
  /\ UNCHANGED <<maps, on, device, running>>

(* EAGAIN when no buffer is filled, or an error: the loop waits and retries. *)
DequeueFails ==
  /\ vpc = "dequeue"
  /\ (\A i \in Buffers : buf[i] # "filled") \/ MayFail("dqbuf")
  /\ vpc' = "loop"
  /\ UNCHANGED <<cap, frame, maps, buf, on, device, running>>

(* The frame goes to the recorder and to the YUV file.                       *)
Use ==
  /\ vpc = "use"
  /\ vpc' = "loop"
  /\ UNCHANGED <<cap, frame, maps, buf, on, device, running>>

(* g_running is 0: the thread ends, main joins it and closes the device.     *)
Finish ==
  /\ vpc = "loop" /\ ~running
  /\ Close
  /\ vpc' = "closed"
  /\ UNCHANGED <<frame, device, running>>
----------------------------------------------------------------------------
(* The driver fills a queued buffer; when, and which one, is its affair.     *)
Fill(i) ==
  /\ on /\ MayWork
  /\ buf[i] = "queued"
  /\ buf' = [buf EXCEPT ![i] = "filled"]
  /\ UNCHANGED <<cap, vpc, frame, maps, on, device, running>>

(* A signal, or main at the limit of frames. *)
StopRunning ==
  /\ running
  /\ running' = FALSE
  /\ UNCHANGED <<cap, vpc, frame, maps, buf, on, device>>

(* The camera is unplugged; plugged in again it is another device, which an  *)
(* open would find, while the old descriptor stays dead.                    *)
Unplug ==
  /\ "unplug" \in CapFaults /\ device = "there"
  /\ device' = "gone"
  /\ UNCHANGED <<cap, vpc, frame, maps, buf, on, running>>

Replug ==
  /\ device = "gone"
  /\ device' = "back"
  /\ UNCHANGED <<cap, vpc, frame, maps, buf, on, running>>
----------------------------------------------------------------------------
OpenAndStart ==
  \/ Open \/ OpenFails \/ (\E n \in Grants : Request(n)) \/ RequestFails
  \/ (\E i \in Buffers : MapOne(i)) \/ MapFails \/ StartAll \/ StartFails

Read ==
  \/ Loop \/ Requeue \/ RequeueFails \/ (\E i \in Buffers : Dequeue(i))
  \/ DequeueFails \/ Use \/ Finish

Next ==
  \/ OpenAndStart \/ Read
  \/ \E i \in Buffers : Fill(i)
  \/ StopRunning \/ Unplug \/ Replug

(* The program runs on, the driver fills what it is given, and neither QBUF  *)
(* nor DQBUF is refused for ever by a device that is there.                  *)
Fairness ==
  /\ WF_vars(OpenAndStart)
  /\ WF_vars(Read)
  /\ SF_vars(Requeue)
  /\ SF_vars(\E i \in Buffers : Dequeue(i))
  /\ WF_vars(\E i \in Buffers : Fill(i))

SafeSpec == Init /\ [][Next]_vars
Spec == SafeSpec /\ Fairness
----------------------------------------------------------------------------
(* Properties *)

Capturing == vpc \in {"loop", "requeue", "dequeue", "use"}

(* The pixels the video thread reads are stable: while it uses a frame, the  *)
(* buffer is mapped and is not with the driver, which could be filling it.   *)
FrameStable == vpc = "use" => frame \in maps /\ buf[frame] = "app"

(* No buffer is ever lost: through every order of reads, failed QBUFs and    *)
(* retries the driver has all the buffers it granted except the held one.    *)
NoBufferLost ==
  Capturing => \A i \in Granted : buf[i] = "app" <=> i = cap.held_index

(* Wherever the opening failed, and after a regular end, nothing is left     *)
(* mapped, open or streaming.                                               *)
AllReleased ==
  vpc \in {"failed", "closed"} => maps = {} /\ ~cap.fd /\ ~cap.streaming /\ ~on

(* The retry of the loop is enough while the device is there: the next frame *)
(* comes, unless the program is told to end or the device disappears.        *)
FramesFlow ==
  vpc = "loop" ~> vpc \in {"use", "closed"} \/ device # "there"
=============================================================================
