------------------------- MODULE V4l2Capture_proofs -------------------------
(***************************************************************************)
(* V4l2Capture, proved for every length of the buffer array, every number  *)
(* of buffers a driver may grant and every fault.                          *)
(***************************************************************************)
EXTENDS V4l2Capture, TLAPS

(* What is mapped: nothing but granted buffers, all of them once capturing.  *)
MapInv ==
  /\ maps \subseteq Granted
  /\ vpc \in {"queue", "loop", "requeue", "dequeue", "use"} => Granted \subseteq maps
  /\ vpc \in {"open", "request", "failed", "closed"} => maps = {}

(* The driver streams, and buffers are out of the program's hands, only      *)
(* while the video thread captures.                                         *)
StreamInv ==
  /\ Capturing <=> cap.streaming
  /\ on <=> cap.streaming
  /\ cap.fd => vpc \notin {"open", "failed", "closed"}
  /\ \A i \in Buffers : buf[i] # "app" => Capturing /\ i \in Granted

(* The held buffer is the frame in use, and none is held before a dequeue or *)
(* outside the capture.                                                     *)
HeldInv ==
  /\ cap.held_index # NoBuffer => cap.held_index \in Granted
  /\ vpc \notin {"loop", "requeue", "use"} => cap.held_index = NoBuffer
  /\ vpc = "use" => frame = cap.held_index /\ frame # NoBuffer

IInv == TypeOK /\ MapInv /\ StreamInv /\ HeldInv /\ NoBufferLost

LEMMA BufferFacts == NoBuffer \notin Buffers /\ Buffers \subseteq Nat
  BY CaptureAssumption DEF CaptureAssumption, Buffers

LEMMA InitIInv == Init => IInv
<1> SUFFICES ASSUME Init PROVE IInv
  OBVIOUS
<1> USE BufferFacts DEF Init
<1>1. TypeOK
  BY DEF TypeOK
<1>2. MapInv
  BY DEF MapInv, Granted
<1>3. StreamInv
  BY DEF StreamInv, Capturing
<1>4. HeldInv /\ NoBufferLost
  BY DEF HeldInv, NoBufferLost, Capturing
<1> QED
  BY <1>1, <1>2, <1>3, <1>4 DEF IInv

(* v4l2_capture_close, wherever it is called from, leaves nothing behind.     *)
LEMMA CloseIInv ==
  ASSUME IInv, Close, vpc' \in {"failed", "closed"}, frame' = frame, device' = device,
         running' = running
  PROVE  IInv'
<1> USE BufferFacts DEF Close, UnmapGranted, IInv
<1>1. TypeOK'
  BY DEF TypeOK
<1>2. MapInv'
  BY DEF MapInv, Granted
<1>3. StreamInv'
  BY DEF TypeOK, StreamInv, Capturing
<1>4. HeldInv'
  BY DEF TypeOK, HeldInv, StreamInv, Capturing
<1>5. NoBufferLost'
  BY DEF NoBufferLost, Capturing
<1> QED
  BY <1>1, <1>2, <1>3, <1>4, <1>5

LEMMA OpenIInv == IInv /\ (Open \/ OpenFails) => IInv'
<1> SUFFICES ASSUME IInv, (Open \/ OpenFails) PROVE IInv'
  OBVIOUS
<1> USE BufferFacts DEF Open, OpenFails, IInv
<1>1. TypeOK'
  BY DEF TypeOK
<1>2. MapInv'
  BY DEF TypeOK, MapInv, Granted
<1>3. StreamInv'
  BY DEF TypeOK, StreamInv, Capturing, Granted
<1>4. HeldInv'
  BY DEF TypeOK, HeldInv, Granted
<1>5. NoBufferLost'
  BY DEF TypeOK, NoBufferLost, StreamInv, HeldInv, Capturing, Granted
<1> QED
  BY <1>1, <1>2, <1>3, <1>4, <1>5

LEMMA RequestIInv == ASSUME IInv, NEW n \in Grants, Request(n) PROVE IInv'
<1> USE BufferFacts, CaptureAssumption DEF CaptureAssumption, Request, IInv
<1>1. TypeOK'
  BY DEF TypeOK
<1>2. MapInv'
  BY DEF TypeOK, MapInv, Granted
<1>3. StreamInv'
  BY DEF TypeOK, StreamInv, Capturing, Granted
<1>4. HeldInv'
  BY DEF TypeOK, HeldInv, Granted
<1>5. NoBufferLost'
  BY DEF NoBufferLost, Capturing
<1> QED
  BY <1>1, <1>2, <1>3, <1>4, <1>5

LEMMA MapOneIInv == ASSUME IInv, NEW i \in Buffers, MapOne(i) PROVE IInv'
<1> USE BufferFacts, CaptureAssumption DEF CaptureAssumption, MapOne, IInv
<1>1. TypeOK'
  BY DEF TypeOK
<1>2. MapInv'
  <2>1. maps' \subseteq Granted'
    BY DEF MapInv, Granted
  <2>2. i + 1 = cap.buffer_count => Granted' \subseteq maps'
    BY DEF TypeOK, Granted, Buffers
  <2> QED
    BY <2>1, <2>2 DEF MapInv
<1>3. StreamInv'
  BY DEF TypeOK, StreamInv, Capturing, Granted
<1>4. HeldInv'
  BY DEF TypeOK, HeldInv, Granted
<1>5. NoBufferLost'
  BY DEF NoBufferLost, Capturing
<1> QED
  BY <1>1, <1>2, <1>3, <1>4, <1>5

LEMMA StartIInv == IInv /\ StartAll => IInv'
<1> SUFFICES ASSUME IInv, StartAll PROVE IInv'
  OBVIOUS
<1> USE BufferFacts DEF StartAll, IInv
<1>1. TypeOK'
  BY DEF TypeOK
<1>2. MapInv'
  BY DEF TypeOK, MapInv, Granted
<1>3. StreamInv'
  BY DEF TypeOK, StreamInv, Capturing, Granted
<1>4. HeldInv'
  BY DEF TypeOK, HeldInv, Granted
<1>5. NoBufferLost'
  BY DEF TypeOK, NoBufferLost, StreamInv, HeldInv, Capturing, Granted
<1> QED
  BY <1>1, <1>2, <1>3, <1>4, <1>5

LEMMA LoopIInv == IInv /\ (Loop \/ Use \/ DequeueFails) => IInv'
<1> SUFFICES ASSUME IInv, (Loop \/ Use \/ DequeueFails) PROVE IInv'
  OBVIOUS
<1> USE BufferFacts DEF Loop, Use, DequeueFails, IInv
<1>1. TypeOK'
  BY DEF TypeOK
<1>2. MapInv'
  BY DEF TypeOK, MapInv, Granted
<1>3. StreamInv'
  BY DEF TypeOK, StreamInv, Capturing, Granted
<1>4. HeldInv'
  BY DEF TypeOK, HeldInv, Granted
<1>5. NoBufferLost'
  BY DEF TypeOK, NoBufferLost, StreamInv, HeldInv, Capturing, Granted
<1> QED
  BY <1>1, <1>2, <1>3, <1>4, <1>5

LEMMA RequeueIInv == IInv /\ (Requeue \/ RequeueFails) => IInv'
<1> SUFFICES ASSUME IInv, (Requeue \/ RequeueFails) PROVE IInv'
  OBVIOUS
<1> USE BufferFacts DEF Requeue, RequeueFails, KeepsHeld, IInv
<1>1. TypeOK'
  BY DEF TypeOK
<1>2. MapInv'
  BY DEF TypeOK, MapInv, Granted
<1>3. StreamInv'
  <2>1. cap' = cap \/ cap' = [cap EXCEPT !.held_index = NoBuffer]
    OBVIOUS
  <2>2. UNCHANGED <<cap.fd, cap.streaming, cap.buffer_count>> /\ on' = on
    BY <2>1 DEF TypeOK
  <2>3. Capturing /\ Capturing' /\ vpc' \notin {"open", "failed", "closed"}
    BY DEF Capturing
  <2>4. ASSUME NEW i \in Buffers, buf'[i] # "app" PROVE i \in Granted'
    <3>1. buf[i] # "app" \/ i = cap.held_index
      BY <2>4 DEF TypeOK
    <3> QED
      BY <3>1, <2>2 DEF StreamInv, HeldInv, Granted
  <2> QED
    BY <2>2, <2>3, <2>4 DEF StreamInv
<1>4. HeldInv'
  BY DEF TypeOK, HeldInv, Granted
<1>5. NoBufferLost'
  BY DEF TypeOK, NoBufferLost, StreamInv, HeldInv, Capturing, Granted
<1> QED
  BY <1>1, <1>2, <1>3, <1>4, <1>5

LEMMA DequeueIInv == ASSUME IInv, NEW i \in Buffers, Dequeue(i) PROVE IInv'
<1> USE BufferFacts DEF Dequeue, Lend, IInv
<1>1. TypeOK'
  BY DEF TypeOK
<1>2. MapInv'
  BY DEF TypeOK, MapInv, Granted
<1>3. StreamInv'
  BY DEF TypeOK, StreamInv, Capturing, Granted
<1>4. HeldInv'
  BY DEF TypeOK, HeldInv, StreamInv, Granted
<1>5. NoBufferLost'
  BY DEF TypeOK, NoBufferLost, HeldInv, Capturing, Granted
<1> QED
  BY <1>1, <1>2, <1>3, <1>4, <1>5

LEMMA FillIInv == ASSUME IInv, NEW i \in Buffers, Fill(i) PROVE IInv'
<1> USE BufferFacts DEF Fill, IInv
<1>1. TypeOK'
  BY DEF TypeOK
<1>2. MapInv'
  BY DEF TypeOK, MapInv, Granted
<1>3. StreamInv'
  BY DEF TypeOK, StreamInv, Capturing, Granted
<1>4. HeldInv'
  BY DEF TypeOK, HeldInv, Granted
<1>5. NoBufferLost'
  BY DEF TypeOK, NoBufferLost, Capturing, Granted
<1> QED
  BY <1>1, <1>2, <1>3, <1>4, <1>5

LEMMA OutsideIInv == IInv /\ (StopRunning \/ Unplug \/ Replug \/ UNCHANGED vars) => IInv'
<1> SUFFICES ASSUME IInv, StopRunning \/ Unplug \/ Replug \/ UNCHANGED vars PROVE IInv'
  OBVIOUS
<1>1. UNCHANGED <<cap, vpc, frame, maps, buf, on>>
  BY DEF StopRunning, Unplug, Replug, vars
<1>2. running' \in BOOLEAN /\ device' \in {"there", "gone", "back"}
  <2>1. CASE StopRunning
    BY <2>1 DEF StopRunning, IInv, TypeOK
  <2>2. CASE Unplug \/ Replug
    BY <2>2 DEF Unplug, Replug, IInv, TypeOK
  <2>3. CASE UNCHANGED vars
    BY <2>3 DEF vars, IInv, TypeOK
  <2> QED
    BY <2>1, <2>2, <2>3
<1>3. TypeOK'
  BY <1>1, <1>2, Zenon DEF IInv, TypeOK
<1>4. (MapInv /\ StreamInv /\ HeldInv /\ NoBufferLost)'
  BY <1>1 DEF IInv, MapInv, StreamInv, HeldInv, NoBufferLost, Capturing, Granted
<1> QED
  BY <1>3, <1>4 DEF IInv

LEMMA StepIInv == IInv /\ [Next]_vars => IInv'
<1> SUFFICES ASSUME IInv, [Next]_vars PROVE IInv'
  OBVIOUS
<1>1. CASE OpenAndStart
  <2>1. CASE Open \/ OpenFails
    BY <2>1, OpenIInv
  <2>2. CASE \E n \in Grants : Request(n)
    BY <2>2, RequestIInv
  <2>3. CASE \E i \in Buffers : MapOne(i)
    BY <2>3, MapOneIInv
  <2>4. CASE RequestFails \/ MapFails \/ StartFails
    BY <2>4, CloseIInv DEF RequestFails, MapFails, StartFails
  <2>5. CASE StartAll
    BY <2>5, StartIInv
  <2> QED
    BY <1>1, <2>1, <2>2, <2>3, <2>4, <2>5 DEF OpenAndStart
<1>2. CASE Read
  <2>1. CASE Loop \/ Use \/ DequeueFails
    BY <2>1, LoopIInv
  <2>2. CASE Requeue \/ RequeueFails
    BY <2>2, RequeueIInv
  <2>3. CASE \E i \in Buffers : Dequeue(i)
    BY <2>3, DequeueIInv
  <2>4. CASE Finish
    BY <2>4, CloseIInv DEF Finish
  <2> QED
    BY <1>2, <2>1, <2>2, <2>3, <2>4 DEF Read
<1>3. CASE \E i \in Buffers : Fill(i)
  BY <1>3, FillIInv
<1>4. CASE StopRunning \/ Unplug \/ Replug \/ UNCHANGED vars
  BY <1>4, OutsideIInv
<1> QED
  BY <1>1, <1>2, <1>3, <1>4 DEF Next

LEMMA Invariant == SafeSpec => []IInv
<1>1. Init => IInv
  BY InitIInv
<1>2. IInv /\ [Next]_vars => IInv'
  BY StepIInv
<1> QED
  BY <1>1, <1>2, PTL DEF SafeSpec

(* The type invariant of the capture: no buffer index leaves the array.       *)
THEOREM CaptureTypeCorrect == SafeSpec => []TypeOK
<1>1. IInv => TypeOK
  BY DEF IInv
<1> QED
  BY <1>1, Invariant, PTL

(* The frame in use is mapped and not with the driver.                      *)
THEOREM FramesAreStable == SafeSpec => []FrameStable
<1>1. IInv => FrameStable
  BY DEF IInv, MapInv, HeldInv, NoBufferLost, FrameStable, Capturing
<1> QED
  BY <1>1, Invariant, PTL

(* The driver has every granted buffer except the held one.                  *)
THEOREM BuffersAreKept == SafeSpec => []NoBufferLost
<1>1. IInv => NoBufferLost
  BY DEF IInv
<1> QED
  BY <1>1, Invariant, PTL

(* After every failed opening and every end nothing is mapped or open.        *)
THEOREM EverythingReleased == SafeSpec => []AllReleased
<1>1. IInv => AllReleased
  BY DEF IInv, TypeOK, MapInv, StreamInv, AllReleased, Capturing
<1> QED
  BY <1>1, Invariant, PTL
=============================================================================
