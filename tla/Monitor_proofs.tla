--------------------------- MODULE Monitor_proofs ---------------------------
(***************************************************************************)
(* Monitor, proved for every threshold and every bound of its counters.    *)
(***************************************************************************)
EXTENDS Monitor, TLAPS

(* What the tick keeps from its read of the count to its end. *)
TickInv ==
  mat = "tick" => fps = frame_count /\ no_frame_seconds < MaxQuiet

(* A silence excludes frames, and it is lost exactly from the threshold on. *)
SilenceInv ==
  /\ no_frame_seconds > 0 => fps = 0 /\ frame_count = 0
  /\ stream_lost <=> no_frame_seconds >= NO_FRAME_THRESHOLD

IInv == TypeOK /\ EveryFrameCounted /\ TickInv /\ SilenceInv

LEMMA InitIInv == Init => IInv
<1> SUFFICES ASSUME Init PROVE IInv
  OBVIOUS
<1> USE MonitorAssumption DEF MonitorAssumption, Init
<1>1. TypeOK
  <2>1. 0 \in 0 .. MaxFrames /\ 0 \in 0 .. MaxQuiet
    OBVIOUS
  <2> QED
    BY <2>1, Zenon DEF TypeOK
<1>2. EveryFrameCounted /\ TickInv
  BY DEF EveryFrameCounted, TickInv
<1>3. SilenceInv
  BY DEF SilenceInv
<1> QED
  BY <1>1, <1>2, <1>3 DEF IInv

LEMMA OnFrameIInv == IInv /\ OnFrame => IInv'
<1> SUFFICES ASSUME IInv, OnFrame PROVE IInv'
  OBVIOUS
<1> USE MonitorAssumption DEF MonitorAssumption, OnFrame, MayCount, LockFree, FoundAgain
<1>1. frame_count <= total_frames
  BY DEF IInv, TypeOK, EveryFrameCounted
<1>2. frame_count + 1 \in 0 .. MaxFrames /\ total_frames + 1 \in 0 .. MaxFrames
  BY <1>1 DEF IInv, TypeOK
<1>3. TypeOK'
  <2>1. 0 \in 0 .. MaxQuiet
    OBVIOUS
  <2> QED
    BY <1>2, <2>1, Zenon DEF IInv, TypeOK
<1>4. EveryFrameCounted'
  BY DEF IInv, TypeOK, EveryFrameCounted
<1>5. TickInv' /\ SilenceInv'
  BY DEF IInv, TypeOK, TickInv, SilenceInv
<1> QED
  BY <1>3, <1>4, <1>5 DEF IInv

LEMMA TickIInv == IInv /\ Tick => IInv'
<1> SUFFICES ASSUME IInv, Tick PROVE IInv'
  OBVIOUS
<1> USE MonitorAssumption DEF MonitorAssumption, counters
<1>1. CASE Loop
  <2>1. mat' \in {"sleep", "done"} /\ mat = "loop"
    BY <1>1 DEF Loop
  <2>2. UNCHANGED counters /\ running' = running /\ camera' = camera
    BY <1>1 DEF Loop
  <2> QED
    BY <2>1, <2>2 DEF IInv, TypeOK, EveryFrameCounted, TickInv, SilenceInv
<1>2. CASE TakeCount
  <2>1. published + frame_count \in 0 .. MaxFrames
    BY <1>2 DEF TakeCount, IInv, TypeOK, EveryFrameCounted
  <2>2. TypeOK'
    BY <1>2, <2>1 DEF TakeCount, IInv, TypeOK
  <2>3. EveryFrameCounted'
    BY <1>2 DEF TakeCount, IInv, TypeOK, EveryFrameCounted
  <2>4. TickInv'
    BY <1>2 DEF TakeCount, IInv, TypeOK, TickInv
  <2>5. SilenceInv'
    BY <1>2 DEF TakeCount, IInv, TypeOK, SilenceInv
  <2> QED
    BY <2>2, <2>3, <2>4, <2>5 DEF IInv
<1>3. CASE ResetAndJudge
  <2> USE <1>3 DEF ResetAndJudge, ResetCount
  <2>1. no_frame_seconds' \in 0 .. MaxQuiet
    BY DEF Judge, IInv, TypeOK, TickInv
  <2>2. stream_lost' \in BOOLEAN
    BY DEF Judge, IInv, TypeOK
  <2>3. TypeOK'
    BY <2>1, <2>2 DEF IInv, TypeOK
  <2>4. EveryFrameCounted' /\ TickInv'
    BY DEF IInv, TypeOK, EveryFrameCounted, TickInv
  <2>5. SilenceInv'
    <3>1. CASE fps = 0
      <4>1. /\ no_frame_seconds' = no_frame_seconds + 1
            /\ stream_lost' = (stream_lost \/ no_frame_seconds' >= NO_FRAME_THRESHOLD)
        BY <3>1 DEF Judge
      <4>2. stream_lost <=> no_frame_seconds >= NO_FRAME_THRESHOLD
        BY DEF IInv, SilenceInv
      <4>3. no_frame_seconds >= NO_FRAME_THRESHOLD => no_frame_seconds' >= NO_FRAME_THRESHOLD
        BY <4>1 DEF IInv, TypeOK
      <4>4. stream_lost' <=> no_frame_seconds' >= NO_FRAME_THRESHOLD
        BY <4>1, <4>2, <4>3, Zenon
      <4> QED
        BY <3>1, <4>4 DEF SilenceInv
    <3>2. CASE fps # 0
      BY <3>2 DEF Judge, IInv, TypeOK, TickInv, SilenceInv
    <3> QED
      BY <3>1, <3>2
  <2> QED
    BY <2>3, <2>4, <2>5 DEF IInv
<1> QED
  BY <1>1, <1>2, <1>3 DEF Tick

LEMMA StepIInv == IInv /\ [Next]_vars => IInv'
<1> SUFFICES ASSUME IInv, [Next]_vars PROVE IInv'
  OBVIOUS
<1>1. CASE OnFrame
  BY <1>1, OnFrameIInv
<1>2. CASE Tick
  BY <1>2, TickIInv
<1>3. CASE StopRunning \/ CameraChanges \/ UNCHANGED vars
  <2>1. UNCHANGED <<counters, mat>>
    BY <1>3 DEF StopRunning, CameraChanges, vars, counters
  <2>2. running' \in BOOLEAN
    BY <1>3, Zenon DEF StopRunning, CameraChanges, vars, IInv, TypeOK
  <2>3. camera' \in {"on", "off"}
    BY <1>3 DEF StopRunning, CameraChanges, vars, IInv, TypeOK
  <2>4. TypeOK'
    BY <2>1, <2>2, <2>3, Zenon DEF IInv, TypeOK, counters
  <2>5. EveryFrameCounted' /\ TickInv' /\ SilenceInv'
    BY <2>1 DEF IInv, EveryFrameCounted, TickInv, SilenceInv, counters
  <2> QED
    BY <2>4, <2>5 DEF IInv
<1> QED
  BY <1>1, <1>2, <1>3 DEF Next

LEMMA Invariant == SafeSpec => []IInv
<1>1. Init => IInv
  BY InitIInv
<1>2. IInv /\ [Next]_vars => IInv'
  BY StepIInv
<1> QED
  BY <1>1, <1>2, PTL DEF SafeSpec

(* The counters keep their types, and stay within the frames of the run. *)
THEOREM MonitorTypeCorrect == SafeSpec => []TypeOK
<1>1. IInv => TypeOK
  BY DEF IInv
<1> QED
  BY <1>1, Invariant, PTL

(* Every frame counted is shown in exactly one second. *)
THEOREM NoFrameMiscounted == SafeSpec => []EveryFrameCounted
<1>1. IInv => EveryFrameCounted
  BY DEF IInv
<1> QED
  BY <1>1, Invariant, PTL

(* A stream shown as lost has no frames in the last and the current second. *)
THEOREM LossIsReal == SafeSpec => []LostMeansStill
<1>1. IInv => LostMeansStill
  BY MonitorAssumption DEF MonitorAssumption, IInv, TypeOK, SilenceInv, LostMeansStill
<1> QED
  BY <1>1, Invariant, PTL

(* monitor.c implements FrameWatch: a frame is Frame, the read of the count  *)
(* is Second, and no other step is seen.                                    *)
THEOREM MonitorImplementsFrameWatch == SafeSpec => ImplementsFrameWatch
<1>1. Init => F!Init
  BY MonitorAssumption DEF MonitorAssumption, Init, F!Init
<1>2. IInv /\ [Next]_vars => [F!Next]_(F!vars)
  <2> SUFFICES ASSUME IInv, [Next]_vars PROVE [F!Next]_(F!vars)
    OBVIOUS
  <2> USE MonitorAssumption DEF MonitorAssumption, F!Next, F!vars, counters
  <2>1. CASE OnFrame
    BY <2>1 DEF OnFrame, MayCount, LockFree, FoundAgain, F!Frame
  <2>2. CASE Loop
    BY <2>2 DEF Loop
  <2>3. CASE TakeCount
    <3>1. CASE frame_count = 0
      BY <2>3, <3>1 DEF TakeCount, F!Second, IInv, TypeOK, SilenceInv
    <3>2. CASE frame_count # 0
      BY <2>3, <3>2 DEF TakeCount, F!Second, IInv, TypeOK, SilenceInv
    <3> QED
      BY <3>1, <3>2
  <2>4. CASE ResetAndJudge
    <3>1. CASE fps = 0
      BY <2>4, <3>1 DEF ResetAndJudge, ResetCount, Judge, IInv, TypeOK, TickInv, SilenceInv
    <3>2. CASE fps # 0
      BY <2>4, <3>2 DEF ResetAndJudge, ResetCount, Judge, IInv, TypeOK, TickInv, SilenceInv
    <3> QED
      BY <3>1, <3>2
  <2>5. CASE StopRunning \/ CameraChanges \/ UNCHANGED vars
    BY <2>5 DEF StopRunning, CameraChanges, vars
  <2> QED
    BY <2>1, <2>2, <2>3, <2>4, <2>5 DEF Next, Tick
<1> QED
  BY <1>1, <1>2, Invariant, PTL DEF SafeSpec, ImplementsFrameWatch, F!Spec
=============================================================================
