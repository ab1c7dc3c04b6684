------------------------ MODULE MediaControl_proofs ------------------------
(***************************************************************************)
(* Proofs about MediaControl, for any number of pipelines, pushers and     *)
(* forks and every choice of faults.  They use what is proved about its    *)
(* two components: each step of the composition is, for each of them, a    *)
(* step of its own or none.                                                *)
(***************************************************************************)
EXTENDS MediaControl, FiniteSetTheorems, TLAPS

RP == INSTANCE GstRecorder_proofs WITH Controllers <- {ctl}
MP == INSTANCE MediaMtx_proofs

(* Commands run in the phases that answer them, the calls of the recorder    *)
(* and the manager at the places that wait for their return.                *)
PlaceInv ==
  /\ phase \in Starting \cup {"serving"} <=> at \in {"ready", "begin", "mtx", "sync", "call"}
  /\ phase # "serving" => \A u \in Pushers : pc[u] = "idle"
  /\ phase = "exited" => at = "deiniting" /\ pc[ctl] = "idle"
  /\ pc[ctl] # "idle" => at \in {"call", "stoppingRec", "deiniting"}
  /\ mpc \notin {"idle", "exited"} => at \in {"mtx", "stoppingMtx"}

(* A gst_recorder_apply for the outputs of mon, and what it leaves.          *)
ApplyRun ==
  /\ pc[ctl] \in {"apply", "build", "await", "idle"}
  /\ pc[ctl] # "idle" => goal[ctl] = mon
  /\ pc[ctl] = "idle" => Produces = IF verdict[ctl] = "ok" THEN mon ELSE {}

(* A gst_recorder_stop, which nobody overtakes: the pipeline it waits for    *)
(* stays the current one, and once cleared there is none.                   *)
StopRun ==
  /\ pc[ctl] \in {"stop", "waitEos", "stopClear", "stopUnref", "idle"}
  /\ pc[ctl] \in {"waitEos", "stopClear"} => held[ctl] = rec.pipeline
  /\ pc[ctl] \in {"stopUnref", "idle"} => rec.pipeline = NoPipe

Between == Produces = mon \/ (Produces = {} /\ reply = "fail")

RunInv ==
  /\ at \in {"ready", "begin", "mtx"} => Between
  /\ at = "call" /\ mon # {} => ApplyRun
  /\ at \in {"stoppingRec", "deiniting"} \/ (at = "call" /\ mon = {}) => StopRun
  /\ at = "stoppingMtx" => rec.pipeline = NoPipe

(* A start command that has come as far as a call is for an output whose flag *)
(* is set, and until the recorder has the lock it produces none such.        *)
StartInv ==
  /\ at = "mtx" => cmd = "streamStart"
  /\ at \in {"sync", "call"} => Asked \subseteq mon
  /\ at \in {"mtx", "sync"} \/ (at = "call" /\ pc[ctl] = "apply") => Asked \cap Produces = {}

IInv == RP!IInv /\ MP!IInv /\ AppTypeOK /\ PlaceInv /\ RunInv /\ StartInv
----------------------------------------------------------------------------
(* The components under their two names *)

(* IsFiniteSet is the same operator in the proofs of the recorder. *)
LEMMA SameFinite == ASSUME NEW S PROVE IsFiniteSet(S) <=> RP!IsFiniteSet(S)
  BY DEF IsFiniteSet, RP!IsFiniteSet

(* One control thread and any pushers satisfy what the recorder assumes. *)
LEMMA RecorderAssumed == RP!RecorderAssumption
<1>1. IsFiniteSet({ctl})
  BY FS_Singleton
<1>2. QED
  BY <1>1, SameFinite, ControlAssumption DEF ControlAssumption, RP!RecorderAssumption

(* The manager's assumption is one of the composition's. *)
LEMMA ManagerAssumed == MP!MtxAssumption
  BY ControlAssumption DEF ControlAssumption, MP!MtxAssumption

(* The initial states of the composition are initial for both. *)
LEMMA SameInit == Init => RP!Init /\ MP!Init
  BY DEF Init, R!Init, R!Threads, RP!Init, RP!Threads, M!Init, MP!Init

(* A step of the control thread inside the recorder. *)
LEMMA SameControl == R!Control(ctl) => RP!Control(ctl)
  BY DEF R!Control, R!ApplyLock, R!Build, R!ParseFails, R!LaunchFails, R!Launch, R!AwaitOk,
         R!AwaitFail, R!StopInactive, R!StopBegin, R!WaitEos, R!StopClear, R!StopUnref, R!Goto,
         R!Return, R!ClearLocked, R!ClearedRec, R!ReplacesActive, R!Accepts, R!TakeRef,
         R!VerdictOf, R!StillCurrent, R!NewPipe, R!Fresh, R!pipeVars,
         RP!Control, RP!ApplyLock, RP!Build, RP!ParseFails, RP!LaunchFails, RP!Launch, RP!AwaitOk,
         RP!AwaitFail, RP!StopInactive, RP!StopBegin, RP!WaitEos, RP!StopClear, RP!StopUnref,
         RP!Goto, RP!Return, RP!ClearLocked, RP!ClearedRec, RP!ReplacesActive, RP!Accepts,
         RP!TakeRef, RP!VerdictOf, RP!StillCurrent, RP!NewPipe, RP!Fresh, RP!pipeVars

(* A call of the recorder. *)
LEMMA SameCalls ==
  /\ R!CallStop(ctl) => RP!CallStop(ctl)
  /\ \A S \in SUBSET RP!Sinks : R!CallApply(ctl, S) => RP!CallApply(ctl, S)
  BY DEF R!CallStop, R!CallApply, R!Goto, R!pipeVars,
         RP!CallStop, RP!CallApply, RP!Goto, RP!pipeVars

(* A step of a pusher or of a pipeline. *)
LEMMA SameOthers ==
  /\ \A u \in Pushers : R!Video(u) => RP!Video(u)
  /\ \A p \in Pipes : R!Stream(p) => RP!Stream(p)
  BY DEF R!Video, R!SeeActive, R!PushRefused, R!PushBegin, R!PushEnd, R!Goto, R!pipeVars, R!Stream,
         R!FileComplete, R!PostEos, R!PostError, R!callVars,
         RP!Video, RP!SeeActive, RP!PushRefused, RP!PushBegin, RP!PushEnd, RP!Goto, RP!pipeVars,
         RP!Stream, RP!FileComplete, RP!PostEos, RP!PostError, RP!callVars

(* A call of the manager, a step of it or one of the processes. *)
LEMMA SameManager ==
  /\ M!CallStart => MP!CallStart
  /\ M!CallStop => MP!CallStop
  /\ M!Manager => MP!Manager
  /\ M!Processes => MP!Processes
  BY DEF M!CallStart, M!CallStop, M!Manager, M!Probe, M!ProbeOrReuse, M!ForkFails, M!Fork,
         M!LookGone, M!LookAlive, M!ReprobeListening, M!ReprobeSilent, M!Reap, M!StopNothing,
         M!StopKill, M!StopReap, M!Processes, M!ForeignChanges, M!ChildListens, M!ChildExits,
         M!PortListening, M!PortTaken, M!Running, M!Returns, M!Exited, M!RecordChild, M!Terminated,
         MP!CallStart, MP!CallStop, MP!Manager, MP!Probe, MP!ProbeOrReuse, MP!ForkFails, MP!Fork,
         MP!LookGone, MP!LookAlive, MP!ReprobeListening, MP!ReprobeSilent, MP!Reap, MP!StopNothing,
         MP!StopKill, MP!StopReap, MP!Processes, MP!ForeignChanges, MP!ChildListens, MP!ChildExits,
         MP!PortListening, MP!PortTaken, MP!Running, MP!Returns, MP!Exited, MP!RecordChild,
         MP!Terminated
----------------------------------------------------------------------------
(* What a step of one component is to the other two parts *)

(* Every step is, for the recorder, a call by ctl, a step inside a call, a   *)
(* step of a pusher or a pipeline, or none.                                 *)
LEMMA RecorderSteps ==
  ASSUME IInv, [Next]_vars
  PROVE  \/ RP!CallStop(ctl)
         \/ \E S \in SUBSET RP!Sinks : RP!CallApply(ctl, S)
         \/ RP!Control(ctl)
         \/ \E u \in Pushers : RP!Video(u)
         \/ \E p \in Pipes : RP!Stream(p)
         \/ UNCHANGED RP!vars
<1>1. CASE Option \/ (\E c \in Commands : Request(c)) \/ Close \/ UNCHANGED vars
  BY <1>1 DEF Option, Request, Close, vars, recVars, RP!vars
<1>2. CASE Work
  <2>1. CASE Sync
    <3>1. mon \in SUBSET RP!Sinks
      BY DEF IInv, AppTypeOK, RP!Sinks
    <3>2. QED
      BY <2>1, <3>1, SameCalls DEF Sync
  <2>2. CASE StopRec \/ Deinit
    BY <2>2, SameCalls DEF StopRec, Deinit
  <2>3. CASE Callee
    BY <2>3, SameControl DEF Callee, recVars, RP!vars
  <2>4. CASE BeginRecStart \/ BeginStreamStart \/ EndMtxStart \/ BeginRecStop \/ BeginStreamStop
    BY <2>4 DEF BeginRecStart, BeginStreamStart, EndMtxStart, BeginRecStop, BeginStreamStop,
                recVars, RP!vars
  <2>5. CASE EndSync \/ StopMtx \/ ResetFlags \/ Exit
    BY <2>5 DEF EndSync, StopMtx, ResetFlags, Exit, recVars, RP!vars
  <2>6. QED
    BY <1>2, <2>1, <2>2, <2>3, <2>4, <2>5 DEF Work
<1>3. CASE Environment
  BY <1>3, SameOthers DEF Environment, recVars, RP!vars
<1>4. QED
  BY <1>1, <1>2, <1>3 DEF Next

(* Hence what is proved of the recorder holds of it here. *)
LEMMA RecorderKept == IInv /\ [Next]_vars => RP!IInv'
<1> SUFFICES ASSUME IInv, [Next]_vars PROVE RP!IInv'
  OBVIOUS
<1>1. RP!IInv /\ ctl \in {ctl}
  BY DEF IInv
<1>2. CASE RP!CallStop(ctl)
  BY <1>1, <1>2, RP!CallStopStep, RecorderAssumed
<1>3. CASE \E S \in SUBSET RP!Sinks : RP!CallApply(ctl, S)
  BY <1>1, <1>3, RP!CallApplyStep, RecorderAssumed
<1>4. CASE RP!Control(ctl)
  BY <1>1, <1>4, RP!ControlInv, RecorderAssumed
<1>5. CASE \E u \in Pushers : RP!Video(u)
  BY <1>1, <1>5, RP!SeeActiveStep, RP!PushRefusedStep, RP!PushBeginStep, RP!PushEndStep,
     RecorderAssumed DEF RP!Video
<1>6. CASE \E p \in Pipes : RP!Stream(p)
  BY <1>1, <1>6, RP!FileCompleteStep, RP!PostEosStep, RP!PostErrorStep, RecorderAssumed
  DEF RP!Stream
<1>7. CASE UNCHANGED RP!vars
  BY <1>1, <1>7, RP!StutterInv, RecorderAssumed
<1>8. QED
  BY <1>2, <1>3, <1>4, <1>5, <1>6, <1>7, RecorderSteps

(* Every step is, for the manager, a step of its own or none. *)
LEMMA ManagerSteps == [Next]_vars => [MP!Next]_(MP!vars)
<1> SUFFICES ASSUME [Next]_vars PROVE [MP!Next]_(MP!vars)
  OBVIOUS
<1>1. CASE Option \/ (\E c \in Commands : Request(c)) \/ Close \/ UNCHANGED vars
  BY <1>1 DEF Option, Request, Close, vars, mtxVars, MP!vars
<1>2. CASE Work
  <2>1. CASE BeginStreamStart \/ StopMtx
    BY <2>1, SameManager DEF BeginStreamStart, StopMtx, mtxVars, MP!vars, MP!Next, MP!Calls
  <2>2. CASE Callee
    BY <2>2, SameManager DEF Callee, mtxVars, MP!vars, MP!Next
  <2>3. CASE BeginRecStart \/ EndMtxStart \/ BeginRecStop \/ BeginStreamStop
    BY <2>3 DEF BeginRecStart, EndMtxStart, BeginRecStop, BeginStreamStop, mtxVars, MP!vars
  <2>4. CASE Sync \/ EndSync \/ StopRec \/ ResetFlags \/ Deinit \/ Exit
    BY <2>4 DEF Sync, EndSync, StopRec, ResetFlags, Deinit, Exit, mtxVars, MP!vars
  <2>5. QED
    BY <1>2, <2>1, <2>2, <2>3, <2>4 DEF Work
<1>3. CASE Environment
  BY <1>3, SameManager DEF Environment, mtxVars, MP!vars, MP!Next
<1>4. QED
  BY <1>1, <1>2, <1>3 DEF Next

(* Hence what is proved of the manager holds of it here. *)
LEMMA ManagerKept == IInv /\ [Next]_vars => MP!IInv'
  BY ManagerSteps, MP!StepIInv, ManagerAssumed DEF IInv

(* The recorder has work only inside a call, and no pusher moves with it. *)
LEMMA ControlMoves ==
  ASSUME RP!IInv, RP!Control(ctl)
  PROVE  pc[ctl] # "idle" /\ \A u \in Pushers : pc'[u] = pc[u]
<1>1. ctl \notin Pushers
  BY ControlAssumption DEF ControlAssumption
<1>2. QED
  BY <1>1
  DEF RP!IInv, RP!TypeOK, RP!Threads, RP!Control, RP!ApplyLock, RP!Build, RP!ParseFails,
      RP!LaunchFails, RP!Launch, RP!AwaitOk, RP!AwaitFail, RP!StopInactive, RP!StopBegin,
      RP!WaitEos, RP!StopClear, RP!StopUnref, RP!Goto, RP!Return

(* The pushers and GStreamer leave the control thread and rec alone. *)
LEMMA OthersKeep ==
  ASSUME RP!IInv,
         (\E u \in Pushers : RP!Video(u)) \/ (\E p \in Pipes : RP!Stream(p))
  PROVE  UNCHANGED <<pc[ctl], held[ctl], rec, goal, verdict>>
<1>1. ctl \notin Pushers
  BY ControlAssumption DEF ControlAssumption
<1>2. QED
  BY <1>1
  DEF RP!IInv, RP!TypeOK, RP!Threads, RP!Video, RP!SeeActive, RP!PushRefused, RP!PushBegin,
      RP!PushEnd, RP!Goto, RP!pipeVars, RP!Stream, RP!FileComplete, RP!PostEos, RP!PostError,
      RP!callVars

(* Neither does the manager do anything but in a call. *)
LEMMA ManagerMoves == MP!Manager => mpc \notin {"idle", "exited"}
  BY DEF MP!Manager, MP!Probe, MP!ProbeOrReuse, MP!ForkFails, MP!Fork, MP!LookGone, MP!LookAlive,
         MP!ReprobeListening, MP!ReprobeSilent, MP!Reap, MP!StopNothing, MP!StopKill, MP!StopReap

(* No process moves the manager. *)
LEMMA ProcessesKeep == MP!Processes => UNCHANGED <<mgr, mpc, spawned, mret>>
  BY DEF MP!Processes, MP!ForeignChanges, MP!ChildListens, MP!ChildExits
----------------------------------------------------------------------------
(* The calls of the recorder *)

(* With no pipeline the recorder produces nothing. *)
LEMMA NothingProduced == RP!IInv /\ rec.pipeline = NoPipe => Produces = {}
  BY DEF RP!IInv, RP!RecInv, Produces

(* A gst_recorder_apply builds for the outputs it was called with. *)
LEMMA ApplyRunKept ==
  ASSUME RP!IInv, RP!IInv', AppTypeOK, ApplyRun, RP!Control(ctl), UNCHANGED mon
  PROVE  ApplyRun'
<1> USE DEF RP!IInv, RP!TypeOK, RP!Threads
<1>1. CASE RP!ApplyLock(ctl)
  BY <1>1 DEF ApplyRun, RP!ApplyLock, RP!Goto
<1>2. CASE RP!ParseFails(ctl)
  <2>1. rec'.pipeline = NoPipe
    BY <1>2, ControlAssumption DEF ControlAssumption, RP!LockInv, RP!RecInv, RP!ParseFails
  <2>2. Produces' = {}
    BY <2>1 DEF RP!RecInv, Produces
  <2>3. QED
    BY <1>2, <2>2 DEF ApplyRun, RP!ParseFails, RP!Goto, RP!Return
<1>3. ASSUME NEW p, NEW f, RP!LaunchFails(ctl, p, f) PROVE ApplyRun'
  <2>1. Produces' = {}
    BY <1>3 DEF Produces, RP!LaunchFails, RP!ClearedRec
  <2>2. QED
    BY <1>3, <2>1 DEF ApplyRun, RP!LaunchFails, RP!Goto, RP!Return
<1>4. ASSUME NEW p, NEW s, NEW f, RP!Launch(ctl, p, s, f) PROVE ApplyRun'
  BY <1>4 DEF ApplyRun, RP!Launch, RP!Goto
<1>5. CASE RP!AwaitOk(ctl)
  <2>1. rec'.recording = ("record" \in mon) /\ rec'.streaming = ("stream" \in mon)
    BY <1>5 DEF ApplyRun, RP!AwaitOk
  <2>2. Produces' = mon
    BY <2>1 DEF Produces, AppTypeOK
  <2>3. QED
    BY <1>5, <2>2 DEF ApplyRun, RP!AwaitOk, RP!Goto, RP!Return
<1>6. CASE RP!AwaitFail(ctl)
  <2>1. Produces' = {}
    BY <1>6 DEF Produces, RP!AwaitFail, RP!ClearLocked, RP!ClearedRec
  <2>2. QED
    BY <1>6, <2>1 DEF ApplyRun, RP!AwaitFail, RP!Goto, RP!Return
<1>7. QED
  BY <1>1, <1>2, <1>3, <1>4, <1>5, <1>6
  DEF ApplyRun, RP!Control, RP!Build, RP!StopInactive, RP!StopBegin, RP!WaitEos, RP!StopClear,
      RP!StopUnref

(* A gst_recorder_stop clears what it waited for. *)
LEMMA StopRunKept ==
  ASSUME RP!IInv, StopRun, RP!Control(ctl)
  PROVE  StopRun'
<1> USE DEF RP!IInv, RP!TypeOK, RP!Threads
<1>1. CASE RP!StopInactive(ctl)
  <2>1. rec.pipeline = NoPipe
    BY <1>1 DEF RP!RecInv, RP!StopInactive
  <2>2. QED
    BY <1>1, <2>1 DEF StopRun, RP!StopInactive, RP!Goto, RP!Return
<1>2. CASE RP!StopBegin(ctl)
  BY <1>2 DEF StopRun, RP!StopBegin, RP!Goto
<1>3. CASE RP!WaitEos(ctl)
  BY <1>3 DEF StopRun, RP!WaitEos, RP!Goto
<1>4. CASE RP!StopClear(ctl)
  <2>1. rec'.pipeline = NoPipe
    BY <1>4 DEF StopRun, RP!StopClear, RP!StillCurrent, RP!ClearLocked, RP!ClearedRec
  <2>2. QED
    BY <1>4, <2>1 DEF StopRun, RP!StopClear, RP!Goto
<1>5. CASE RP!StopUnref(ctl)
  BY <1>5 DEF StopRun, RP!StopUnref, RP!Goto
<1>6. QED
  BY <1>1, <1>2, <1>3, <1>4, <1>5
  DEF StopRun, RP!Control, RP!ApplyLock, RP!Build, RP!ParseFails, RP!LaunchFails, RP!Launch,
      RP!AwaitOk, RP!AwaitFail
----------------------------------------------------------------------------
(* Each action preserves IInv: one lemma per kind of action, one step per    *)
(* conjunct of the control thread's.                                        *)

(* An option, a request or the end of main begins where nothing is running. *)
LEMMA AskingStep ==
  ASSUME IInv, Option \/ (\E c \in Commands : Request(c)) \/ Close
  PROVE  AppTypeOK' /\ PlaceInv' /\ RunInv'
<1> USE DEF IInv, Option, Request, Close, recVars, mtxVars, Starting
<1>1. AppTypeOK'
  BY DEF AppTypeOK, Commands
<1>2. PlaceInv'
  BY DEF AppTypeOK, PlaceInv
<1>3. RunInv'
  BY DEF AppTypeOK, RunInv, Between, Produces
<1>4. QED
  BY <1>1, <1>2, <1>3

(* A stutter. *)
LEMMA StutterStep ==
  ASSUME IInv, UNCHANGED vars
  PROVE  AppTypeOK' /\ PlaceInv' /\ RunInv'
  BY DEF IInv, vars, AppTypeOK, PlaceInv, RunInv, Between, ApplyRun, StopRun, Produces

(* A command sets its flag and goes on to the sync, or is answered at once.  *)
LEMMA BeginStep ==
  ASSUME IInv, BeginRecStart \/ BeginStreamStart \/ BeginRecStop \/ BeginStreamStop
  PROVE  AppTypeOK' /\ PlaceInv' /\ RunInv'
<1> USE DEF IInv, BeginRecStart, BeginStreamStart, BeginRecStop, BeginStreamStop, App, Answer,
            Already, M!CallStart, recVars, mtxVars, Starting
<1>1. AppTypeOK'
  BY DEF AppTypeOK, PlaceInv
<1>2. PlaceInv'
  BY DEF AppTypeOK, PlaceInv
<1>3. RunInv'
  BY DEF AppTypeOK, PlaceInv, RunInv, Between, Produces
<1>4. QED
  BY <1>1, <1>2, <1>3

(* The flag `streaming` once mediamtx_manager_start has returned. *)
LEMMA EndMtxStartStep ==
  ASSUME IInv, EndMtxStart
  PROVE  AppTypeOK' /\ PlaceInv' /\ RunInv'
<1> USE DEF IInv, EndMtxStart, FlagStreaming, App, Answer, recVars, mtxVars, Starting
<1>1. AppTypeOK'
  BY DEF AppTypeOK, PlaceInv
<1>2. PlaceInv'
  BY DEF AppTypeOK, PlaceInv
<1>3. RunInv'
  BY DEF AppTypeOK, PlaceInv, RunInv, Between, Produces
<1>4. QED
  BY <1>1, <1>2, <1>3

(* app_sync_media_pipeline calls the recorder. *)
LEMMA SyncStep ==
  ASSUME IInv, Sync
  PROVE  AppTypeOK' /\ PlaceInv' /\ RunInv'
<1>1. /\ pc[ctl] = "idle"
      /\ pc' = [pc EXCEPT ![ctl] = IF mon = {} THEN "stop" ELSE "apply"]
      /\ mon # {} => goal' = [goal EXCEPT ![ctl] = mon]
  BY DEF Sync, R!CallStop, R!CallApply, R!Goto
<1>2. pc'[ctl] = (IF mon = {} THEN "stop" ELSE "apply") /\ \A u \in Pushers : pc'[u] = pc[u]
  BY <1>1, ControlAssumption DEF ControlAssumption, IInv, RP!IInv, RP!TypeOK, RP!Threads
<1>3. mon # {} => goal'[ctl] = mon
  BY <1>1 DEF IInv, RP!IInv, RP!TypeOK
<1> USE DEF IInv, Sync, App, mtxVars, Starting
<1>4. AppTypeOK'
  BY DEF AppTypeOK
<1>5. PlaceInv'
  BY <1>1, <1>2 DEF AppTypeOK, PlaceInv
<1>6. RunInv'
  BY <1>2, <1>3 DEF AppTypeOK, RunInv, ApplyRun, StopRun
<1>7. QED
  BY <1>4, <1>5, <1>6

(* Its value is the command's. *)
LEMMA EndSyncStep ==
  ASSUME IInv, EndSync
  PROVE  AppTypeOK' /\ PlaceInv' /\ RunInv'
<1>1. mon = {} => Produces = {}
  BY NothingProduced DEF IInv, RunInv, StopRun, EndSync
<1>2. verdict[ctl] \in {"ok", "fail"}
  BY DEF IInv, RP!IInv, RP!TypeOK
<1> USE DEF IInv, EndSync, Answer, recVars, mtxVars, Starting
<1>3. AppTypeOK'
  BY <1>2 DEF AppTypeOK, PlaceInv
<1>4. PlaceInv'
  BY DEF AppTypeOK, PlaceInv
<1>5. RunInv'
  BY <1>1, <1>2 DEF AppTypeOK, PlaceInv, RunInv, ApplyRun, Between, Produces
<1>6. QED
  BY <1>3, <1>4, <1>5

(* The exit: the recorder, the manager, the flags, the recorder again. *)
LEMMA ExitStep ==
  ASSUME IInv, StopRec \/ StopMtx \/ ResetFlags \/ Deinit \/ Exit
  PROVE  AppTypeOK' /\ PlaceInv' /\ RunInv'
<1>1. CASE StopRec \/ Deinit
  <2>1. pc[ctl] = "idle" /\ pc' = [pc EXCEPT ![ctl] = "stop"]
    BY <1>1 DEF StopRec, Deinit, R!CallStop, R!Goto
  <2>2. pc'[ctl] = "stop" /\ \A u \in Pushers : pc'[u] = pc[u]
    BY <2>1, ControlAssumption DEF ControlAssumption, IInv, RP!IInv, RP!TypeOK, RP!Threads
  <2> USE DEF IInv, StopRec, Deinit, App, mtxVars, Starting
  <2>3. AppTypeOK'
    BY <1>1 DEF AppTypeOK
  <2>4. PlaceInv'
    BY <1>1, <2>1, <2>2 DEF AppTypeOK, PlaceInv
  <2>5. RunInv'
    BY <1>1, <2>2 DEF RunInv, StopRun
  <2>6. QED
    BY <2>3, <2>4, <2>5
<1>2. CASE StopMtx \/ ResetFlags \/ Exit
  <2> USE DEF IInv, StopMtx, M!CallStop, ResetFlags, Exit, App, recVars, mtxVars, Starting
  <2>1. AppTypeOK'
    BY <1>2 DEF AppTypeOK
  <2>2. PlaceInv'
    BY <1>2 DEF AppTypeOK, PlaceInv
  <2>3. RunInv'
    BY <1>2 DEF RunInv, StopRun
  <2>4. QED
    BY <2>1, <2>2, <2>3
<1>3. QED
  BY <1>1, <1>2

(* A call under way. *)
LEMMA CalleeStep ==
  ASSUME IInv, RP!IInv', Callee
  PROVE  AppTypeOK' /\ PlaceInv' /\ RunInv'
<1>1. CASE R!Control(ctl) /\ UNCHANGED <<mtxVars, appVars>>
  <2>1. RP!Control(ctl) /\ pc[ctl] # "idle" /\ \A u \in Pushers : pc'[u] = pc[u]
    BY <1>1, SameControl, ControlMoves DEF IInv
  <2>2. at \in {"call", "stoppingRec", "deiniting"} /\ phase # "exited"
    BY <2>1 DEF IInv, PlaceInv
  <2> USE <1>1 DEF IInv, mtxVars, appVars
  <2>3. AppTypeOK'
    BY DEF AppTypeOK
  <2>4. PlaceInv'
    BY <2>1, <2>2 DEF PlaceInv
  <2>5. RunInv'
    BY <2>1, <2>2, ApplyRunKept, StopRunKept DEF RunInv
  <2>6. QED
    BY <2>3, <2>4, <2>5
<1>2. CASE M!Manager /\ UNCHANGED <<recVars, appVars>>
  <2>1. mpc \notin {"idle", "exited"}
    BY <1>2, SameManager, ManagerMoves
  <2> USE <1>2 DEF IInv, recVars, appVars
  <2>2. AppTypeOK'
    BY DEF AppTypeOK
  <2>3. PlaceInv'
    BY <2>1 DEF PlaceInv
  <2>4. RunInv'
    BY DEF RunInv, Between, ApplyRun, StopRun, Produces
  <2>5. QED
    BY <2>2, <2>3, <2>4
<1>3. QED
  BY <1>1, <1>2 DEF Callee

(* Frames, GStreamer and processes go on below all that. *)
LEMMA EnvironmentStep ==
  ASSUME IInv, Environment
  PROVE  AppTypeOK' /\ PlaceInv' /\ RunInv'
<1>1. CASE \/ \E u \in Pushers : phase = "serving" /\ R!Video(u) /\ UNCHANGED <<mtxVars, appVars>>
           \/ \E p \in Pipes : R!Stream(p) /\ UNCHANGED <<mtxVars, appVars>>
  <2>1. UNCHANGED <<pc[ctl], held[ctl], rec, goal, verdict>>
    BY <1>1, SameOthers, OthersKeep DEF IInv
  <2>2. phase # "serving" => UNCHANGED pc
    BY <1>1 DEF R!Stream, R!FileComplete, R!PostEos, R!PostError, R!callVars
  <2>3. UNCHANGED <<mtxVars, appVars>>
    BY <1>1
  <2> USE <2>3 DEF IInv, mtxVars, appVars
  <2>4. AppTypeOK'
    BY DEF AppTypeOK
  <2>5. PlaceInv'
    BY <2>1, <2>2 DEF PlaceInv
  <2>6. RunInv'
    BY <2>1 DEF RunInv, Between, ApplyRun, StopRun, Produces
  <2>7. QED
    BY <2>4, <2>5, <2>6
<1>2. CASE M!Processes /\ UNCHANGED <<recVars, appVars>>
  <2>1. UNCHANGED mpc
    BY <1>2, SameManager, ProcessesKeep
  <2> USE <1>2 DEF IInv, recVars, appVars
  <2>2. AppTypeOK'
    BY DEF AppTypeOK
  <2>3. PlaceInv'
    BY <2>1 DEF PlaceInv
  <2>4. RunInv'
    BY DEF RunInv, Between, ApplyRun, StopRun, Produces
  <2>5. QED
    BY <2>2, <2>3, <2>4
<1>3. QED
  BY <1>1, <1>2 DEF Environment
(* The starts. *)
LEMMA StartKept ==
  ASSUME IInv, [Next]_vars
  PROVE  StartInv'
<1> USE DEF IInv, StartInv, Asked
<1>1. CASE Option \/ (\E c \in Commands : Request(c)) \/ Close
  BY <1>1 DEF Option, Request, Close, PlaceInv
<1>2. CASE UNCHANGED vars
  BY <1>2 DEF vars, Produces
<1>3. CASE BeginRecStart \/ BeginStreamStart
  <2>1. Between
    BY <1>3 DEF RunInv, BeginRecStart, BeginStreamStart
  <2>2. Produces' = Produces
    BY <1>3 DEF Produces, BeginRecStart, BeginStreamStart, recVars
  <2>3. CASE BeginRecStart
    BY <2>1, <2>2, <2>3 DEF BeginRecStart, Between, Already, App, Answer
  <2>4. CASE BeginStreamStart
    BY <2>1, <2>2, <2>4 DEF BeginStreamStart, Between, Already, App, Answer
  <2>5. QED
    BY <1>3, <2>3, <2>4
<1>4. CASE BeginRecStop \/ BeginStreamStop
  BY <1>4 DEF BeginRecStop, BeginStreamStop, App
<1>5. CASE EndMtxStart
  BY <1>5 DEF EndMtxStart, FlagStreaming, App, Answer, Produces, recVars
<1>6. CASE Sync
  BY <1>6 DEF Sync, App, Produces, R!CallStop, R!CallApply
<1>7. CASE EndSync
  BY <1>7 DEF EndSync, Answer
<1>8. CASE StopRec \/ StopMtx \/ ResetFlags \/ Deinit \/ Exit
  BY <1>8 DEF StopRec, StopMtx, ResetFlags, Deinit, Exit, App
<1>9. CASE R!Control(ctl) /\ UNCHANGED <<mtxVars, appVars>>
  <2>1. RP!Control(ctl) /\ at \notin {"mtx", "sync"}
    BY <1>9, SameControl, ControlMoves DEF PlaceInv
  <2>2. pc'[ctl] # "apply"
    BY <2>1
    DEF RP!IInv, RP!TypeOK, RP!Threads, RP!Control, RP!ApplyLock, RP!Build, RP!ParseFails,
        RP!LaunchFails, RP!Launch, RP!AwaitOk, RP!AwaitFail, RP!StopInactive, RP!StopBegin,
        RP!WaitEos, RP!StopClear, RP!StopUnref, RP!Goto, RP!Return
  <2>3. QED
    BY <1>9, <2>1, <2>2 DEF appVars
<1>10. CASE M!Manager /\ UNCHANGED <<recVars, appVars>>
  BY <1>10 DEF recVars, appVars, Produces
<1>11. CASE Environment
  <2>1. UNCHANGED <<pc[ctl], rec>>
    BY <1>11, SameOthers, OthersKeep DEF Environment, recVars
  <2>2. UNCHANGED appVars
    BY <1>11 DEF Environment
  <2>3. QED
    BY <2>1, <2>2 DEF appVars, Produces
<1>12. QED
  BY <1>1, <1>2, <1>3, <1>4, <1>5, <1>6, <1>7, <1>8, <1>9, <1>10, <1>11 DEF Next, Work, Callee
----------------------------------------------------------------------------
(* Together *)

(* Nothing is asked for and nothing is produced. *)
LEMMA InitInv == Init => IInv
<1> SUFFICES ASSUME Init PROVE IInv
  OBVIOUS
<1>1. RP!IInv
  BY SameInit, RP!InitInv, RecorderAssumed
<1>2. MP!IInv
  BY SameInit, MP!InitIInv, ManagerAssumed
<1>3. pc[ctl] = "idle" /\ (\A u \in Pushers : pc[u] = "idle") /\ mpc = "idle"
  BY SameInit DEF RP!Init, RP!Threads, MP!Init
<1>4. Produces = {}
  BY SameInit DEF RP!Init, Produces
<1>5. AppTypeOK /\ PlaceInv /\ RunInv /\ StartInv
  BY <1>3, <1>4 DEF Init, AppTypeOK, Starting, Commands, PlaceInv, RunInv, Between, StartInv
<1>6. QED
  BY <1>1, <1>2, <1>5 DEF IInv

(* Every step of the program preserves IInv. *)
LEMMA NextInv == IInv /\ [Next]_vars => IInv'
<1> SUFFICES ASSUME IInv, [Next]_vars PROVE IInv'
  OBVIOUS
<1>1. RP!IInv' /\ MP!IInv'
  BY RecorderKept, ManagerKept
<1>2. AppTypeOK' /\ PlaceInv' /\ RunInv'
  BY <1>1, AskingStep, StutterStep, BeginStep, EndMtxStartStep, SyncStep, EndSyncStep, ExitStep,
     CalleeStep, EnvironmentStep DEF Next, Work
<1>3. QED
  BY <1>1, <1>2, StartKept DEF IInv

(* IInv is an invariant of the program's control. *)
LEMMA Invariance == SafeSpec => []IInv
  BY InitInv, NextInv, PTL DEF SafeSpec

(* The state of the program and of its two components is well typed. *)
THEOREM ControlTypeCorrect == SafeSpec => []TypeOK
<1>1. IInv => TypeOK
  BY DEF IInv, TypeOK, RP!IInv, RP!TypeOK, RP!Threads, RP!Sinks, RP!States, R!TypeOK, R!Threads,
         R!Sinks, R!States, MP!IInv, MP!TypeOK, M!TypeOK
<1>2. QED
  BY <1>1, Invariance, PTL

(* A command answered with "ok" has done what it was asked to, and one that  *)
(* failed has left all outputs as the flags say or none at all.             *)
THEOREM OutputsMatchFlags == SafeSpec => []OutputsFollowFlags
<1>1. IInv => OutputsFollowFlags
  BY DEF IInv, RunInv, Between, OutputsFollowFlags, Idle
<1>2. QED
  BY <1>1, Invariance, PTL

(* What the recorder produces changes in three places: an apply clears what  *)
(* was there, its success begins what it was called for, a stop ends all.    *)
THEOREM OutputsBeginAsAsked == SafeSpec => OutputsBegunAsAsked
<1> DEFINE Begun == Produces' # Produces => Produces' = {} \/ (Produces = {} /\ Produces' = mon)
<1>1. IInv /\ [Next]_vars => Begun
  <2> SUFFICES ASSUME IInv, [Next]_vars, rec' # rec
               PROVE  Produces' = Produces \/ Produces' = {} \/ (Produces = {} /\ Produces' = mon)
    BY DEF Produces
  <2>1. RP!Control(ctl)
    BY RecorderSteps, OthersKeep DEF IInv, RP!CallStop, RP!CallApply, RP!vars
  <2>2. pc[ctl] # "idle" /\ at \in {"call", "stoppingRec", "deiniting"}
    BY <2>1, ControlMoves DEF IInv, PlaceInv
  <2>3. CASE RP!ApplyLock(ctl) \/ RP!AwaitFail(ctl) \/ RP!StopClear(ctl)
    BY <2>3 DEF Produces, RP!ApplyLock, RP!AwaitFail, RP!StopClear, RP!ClearLocked, RP!ClearedRec
  <2>4. CASE RP!AwaitOk(ctl)
    <3>1. lock = ctl /\ ctl # NoThread
      BY <2>4, ControlAssumption
      DEF ControlAssumption, IInv, RP!IInv, RP!LockInv, RP!AwaitOk
    <3>2. Produces = {}
      BY <3>1 DEF Produces, IInv, RP!IInv, RP!RecInv
    <3>3. goal[ctl] = mon
      BY <2>2, <2>4 DEF IInv, RunInv, ApplyRun, StopRun, RP!AwaitOk
    <3>4. rec'.recording = ("record" \in mon) /\ rec'.streaming = ("stream" \in mon)
      BY <2>4, <3>3 DEF IInv, RP!IInv, RP!TypeOK, RP!AwaitOk
    <3>5. Produces' = mon
      BY <3>4 DEF Produces, IInv, AppTypeOK
    <3>6. QED
      BY <3>2, <3>5
  <2>5. CASE RP!Build(ctl)
    <3>1. ASSUME NEW p, NEW f, RP!LaunchFails(ctl, p, f) PROVE Produces' = {}
      BY <3>1 DEF Produces, RP!LaunchFails, RP!ClearedRec
    <3>2. ASSUME NEW p, NEW s, NEW f, RP!Launch(ctl, p, s, f) PROVE Produces' = Produces
      BY <3>2 DEF Produces, RP!Launch, IInv, RP!IInv, RP!TypeOK
    <3>3. QED
      BY <2>5, <3>1, <3>2 DEF RP!Build, RP!ParseFails
  <2>6. CASE RP!StopInactive(ctl) \/ RP!StopBegin(ctl) \/ RP!WaitEos(ctl) \/ RP!StopUnref(ctl)
    BY <2>6 DEF RP!StopInactive, RP!StopBegin, RP!WaitEos, RP!StopUnref
  <2>7. QED
    BY <2>1, <2>3, <2>4, <2>5, <2>6 DEF RP!Control
<1>2. QED
  BY <1>1, Invariance, PTL DEF SafeSpec, OutputsBegunAsAsked

(* Once main has ended, whichever way, the recorder is empty and unused. *)
THEOREM ExitIsClean == SafeSpec => []CleanExit
<1>1. IInv => CleanExit
  <2> SUFFICES ASSUME IInv, phase = "exited" PROVE CleanExit
    BY DEF CleanExit
  <2>1. /\ at = "deiniting" /\ pc[ctl] = "idle" /\ rec.pipeline = NoPipe
        /\ \A u \in Pushers : pc[u] = "idle"
        /\ mpc \in {"idle", "exited"}
    BY DEF IInv, PlaceInv, RunInv, StopRun
  <2>2. ASSUME NEW p \in Pipes PROVE state[p] \in {"unborn", "null"} /\ refs[p] = 0
    <3>1. rec.pipeline # p /\ held[ctl] = NoPipe
      BY <2>1, ControlAssumption DEF ControlAssumption, IInv, RP!IInv, RP!HeldInv
    <3>2. state[p] \in {"unborn", "null"}
      BY <3>1 DEF IInv, RP!IInv, RP!PipeInv
    <3>3. RP!Stoppers(p) = {}
      BY <3>1, ControlAssumption DEF ControlAssumption, RP!Stoppers
    <3>4. RP!Cardinality({}) = 0
      BY RP!FS_EmptySet, RecorderAssumed
    <3>5. refs[p] = 0
      BY <3>1, <3>3, <3>4 DEF IInv, RP!IInv, RP!RefsExact
    <3>6. QED
      BY <3>2, <3>5
  <2>3. QED
    BY <2>1, <2>2 DEF CleanExit
<1>2. QED
  BY <1>1, Invariance, PTL

(* The manager kills where no stream can be alive: in the start of one, which *)
(* is only made while the recorder does not stream, and at the end of main,   *)
(* which has emptied the recorder.                                           *)
THEOREM StreamEndsFirst == SafeSpec => ServerOutlivesStream
<1> DEFINE Killed == \E k \in Children : child[k] # "dying" /\ child'[k] = "dying"
           NoStream == \A p \in Pipes : "stream" \in sinks[p] => state[p] \in {"unborn", "null"}
<1>1. IInv /\ [Next]_vars => (Killed => NoStream)
  <2> SUFFICES ASSUME IInv, [Next]_vars, NEW k \in Children, child[k] # "dying",
                      child'[k] = "dying", NEW p \in Pipes, "stream" \in sinks[p],
                      state[p] \notin {"unborn", "null"}
               PROVE  FALSE
    OBVIOUS
  <2> USE DEF IInv, RP!IInv, MP!IInv
  <2>1. mpc \in {"reprobe", "stop"}
    BY ManagerSteps
    DEF MP!TypeOK, MP!vars, MP!Next, MP!Calls, MP!CallStart, MP!CallStop, MP!Manager, MP!Probe,
        MP!ProbeOrReuse, MP!ForkFails, MP!Fork, MP!LookGone, MP!LookAlive, MP!ReprobeListening,
        MP!ReprobeSilent, MP!Reap, MP!StopNothing, MP!StopKill, MP!StopReap, MP!Processes,
        MP!ForeignChanges, MP!ChildListens, MP!ChildExits
  <2>2. at \in {"mtx", "stoppingMtx"} /\ pc[ctl] = "idle"
    BY <2>1 DEF PlaceInv
  <2>3. rec.pipeline = p /\ p # NoPipe
    BY ControlAssumption DEF ControlAssumption, RP!PipeInv
  <2>4. at = "mtx" /\ "stream" \notin Produces
    BY <2>2, <2>3 DEF RunInv, StartInv, Asked
  <2>5. lock = NoThread
    BY <2>2 DEF RP!LockInv
  <2>6. rec.active /\ rec.streaming
    BY <2>3, <2>5 DEF RP!RecInv
  <2>7. QED
    BY <2>4, <2>6 DEF Produces
<1>2. QED
  BY <1>1, Invariance, PTL DEF SafeSpec, ServerOutlivesStream

(* A start for an output that runs is answered without a call, and one that   *)
(* makes a call finds the output missing until the new pipeline plays.       *)
THEOREM RepeatedStartKeeps == SafeSpec => RepeatedStartHarmless
<1> DEFINE Harmless == Commanding /\ Asked \cap Produces # {} => rec'.pipeline = rec.pipeline
<1>1. IInv /\ [Next]_vars => Harmless
  <2> SUFFICES ASSUME IInv, [Next]_vars, Commanding, Asked \cap Produces # {}, rec' # rec
               PROVE  rec'.pipeline = rec.pipeline
    OBVIOUS
  <2> USE DEF IInv, RP!IInv
  <2>1. RP!Control(ctl)
    BY RecorderSteps, OthersKeep DEF RP!CallStop, RP!CallApply, RP!vars
  <2>2. at = "call" /\ pc[ctl] # "idle"
    BY <2>1, ControlMoves DEF PlaceInv, Commanding
  <2>3. mon # {} /\ ApplyRun /\ pc[ctl] # "apply"
    BY <2>2 DEF StartInv, RunInv
  <2>4. pc[ctl] \in {"build", "await"}
    BY <2>2, <2>3 DEF ApplyRun
  <2>5. lock = ctl /\ lock # NoThread
    BY <2>4, ControlAssumption DEF ControlAssumption, RP!LockInv
  <2>6. Produces = {}
    BY <2>5 DEF RP!RecInv, Produces
  <2>7. QED
    BY <2>6
<1>2. QED
  BY <1>1, Invariance, PTL DEF SafeSpec, RepeatedStartHarmless
----------------------------------------------------------------------------
(* What the components promise holds in the program *)

(* The program calls the manager as its specification expects: with no call  *)
(* inside another.                                                          *)
THEOREM ManagerInProgram == SafeSpec => M!SafeSpec
<1>1. Init => M!Init
  BY DEF Init
<1>2. [Next]_vars => [M!Next]_(M!vars)
  <2>1. [MP!Next]_(MP!vars) => [M!Next]_(M!vars)
    BY DEF MP!Next, MP!Calls, MP!vars, M!Next, M!Calls, M!vars,
         M!CallStart, M!CallStop, M!Manager, M!Probe, M!ProbeOrReuse, M!ForkFails, M!Fork,
         M!LookGone, M!LookAlive, M!ReprobeListening, M!ReprobeSilent, M!Reap, M!StopNothing,
         M!StopKill, M!StopReap, M!Processes, M!ForeignChanges, M!ChildListens, M!ChildExits,
         M!PortListening, M!PortTaken, M!Running, M!Returns, M!Exited, M!RecordChild, M!Terminated,
         MP!CallStart, MP!CallStop, MP!Manager, MP!Probe, MP!ProbeOrReuse, MP!ForkFails, MP!Fork,
         MP!LookGone, MP!LookAlive, MP!ReprobeListening, MP!ReprobeSilent, MP!Reap, MP!StopNothing,
         MP!StopKill, MP!StopReap, MP!Processes, MP!ForeignChanges, MP!ChildListens, MP!ChildExits,
         MP!PortListening, MP!PortTaken, MP!Running, MP!Returns, MP!Exited, MP!RecordChild,
         MP!Terminated
  <2>2. QED
    BY <2>1, ManagerSteps
<1>3. QED
  BY <1>1, <1>2, PTL DEF SafeSpec, M!SafeSpec

(* Commands, frames and the exit together still make one session after the   *)
(* other: no two pipelines overlap, no ended one is taken up again.         *)
THEOREM ProgramImplementsSession == SafeSpec => R!ImplementsSession
<1>1. Init => R!Session!Init
  BY DEF Init, R!Init, R!Session!Init
<1>2. IInv /\ [Next]_vars => [RP!Session!Next]_(RP!Session!vars)
  <2> SUFFICES ASSUME IInv, [Next]_vars PROVE [RP!Session!Next]_(RP!Session!vars)
    OBVIOUS
  <2> USE DEF IInv, RP!IInv
  <2>1. CASE RP!CallStop(ctl) \/ \E S \in SUBSET RP!Sinks : RP!CallApply(ctl, S)
    BY <2>1 DEF RP!CallStop, RP!CallApply, RP!pipeVars, RP!Session!vars
  <2>2. CASE RP!Control(ctl)
    BY <2>2, RP!ControlRefines, RecorderAssumed DEF IInv
  <2>3. CASE \E u \in Pushers : RP!Video(u)
    BY <2>3 DEF RP!Video, RP!SeeActive, RP!PushRefused, RP!PushBegin, RP!PushEnd, RP!pipeVars,
                RP!Session!vars
  <2>4. ASSUME NEW p \in Pipes, RP!Stream(p) PROVE [RP!Session!Next]_(RP!Session!vars)
    <3>1. CASE RP!FileComplete(p)
      <4>1. RP!Session!Complete(p)
        BY <3>1 DEF RP!PipeInv, RP!FileComplete, RP!Session!Complete
      <4>2. QED
        BY <4>1 DEF RP!Session!Next
    <3>2. CASE RP!PostEos(p) \/ RP!PostError(p)
      BY <3>2 DEF RP!PostEos, RP!PostError, RP!Session!vars
    <3>3. QED
      BY <2>4, <3>1, <3>2 DEF RP!Stream
  <2>5. CASE UNCHANGED RP!vars
    BY <2>5 DEF RP!vars, RP!Session!vars
  <2>6. QED
    BY <2>1, <2>2, <2>3, <2>4, <2>5, RecorderSteps
<1>3. [RP!Session!Next]_(RP!Session!vars) => [R!Session!Next]_(R!Session!vars)
  BY DEF RP!Session!Next, RP!Session!Start, RP!Session!StartFails, RP!Session!Complete,
         RP!Session!End, RP!Session!Outputs, RP!Session!vars, R!Session!Next, R!Session!Start,
         R!Session!StartFails, R!Session!Complete, R!Session!End, R!Session!Outputs, R!Session!vars
<1>4. QED
  BY <1>1, <1>2, <1>3, Invariance, PTL DEF SafeSpec, R!ImplementsSession, R!Session!Spec

(* What the recorder's own theorems say of it is also true in the program,   *)
(* whose calls come from one thread and while pushers feed it: the fields of *)
(* gst_recorder_t agree, one pipeline lives, a stop that returns 0 has a     *)
(* complete file.                                                           *)
THEOREM RecorderInProgram ==
  SafeSpec => [](R!FieldsAgree /\ R!OneLivePipeline /\ R!EosBeforeTeardown)
<1>1. RP!IInv => RP!FieldsAgree
  BY RP!FieldsFollow, RecorderAssumed
<1>2. RP!FieldsAgree => R!FieldsAgree
  BY DEF RP!FieldsAgree, RP!Sinks, R!FieldsAgree, R!Sinks
<1>3. RP!IInv => R!OneLivePipeline /\ R!EosBeforeTeardown
  BY DEF RP!IInv, RP!PipeInv, RP!StopInv, R!OneLivePipeline, R!EosBeforeTeardown
<1>4. IInv => R!FieldsAgree /\ R!OneLivePipeline /\ R!EosBeforeTeardown
  BY <1>1, <1>2, <1>3 DEF IInv
<1>5. QED
  BY <1>4, Invariance, PTL

(* The manager's promises hold in the program: it kills no process but its   *)
(* own children, and repeated stream commands pile up no servers.           *)
THEOREM ServersInProgram == SafeSpec => [](M!KillsOwnChild /\ M!OneServerAtMost)
<1>1. SafeSpec => MP!SafeSpec
  <2>1. Init => MP!Init
    BY SameInit
  <2>2. QED
    BY <2>1, ManagerSteps, PTL DEF SafeSpec, MP!SafeSpec
<1>2. MP!SafeSpec => []MP!KillsOwnChild /\ []MP!OneServerAtMost
  BY MP!OnlyOwnChildrenKilled, MP!ServersDoNotPileUp, ManagerAssumed
<1>3. MP!KillsOwnChild /\ MP!OneServerAtMost => M!KillsOwnChild /\ M!OneServerAtMost
  BY DEF MP!KillsOwnChild, MP!OneServerAtMost, MP!Running, M!KillsOwnChild, M!OneServerAtMost,
         M!Running
<1>4. QED
  BY <1>1, <1>2, <1>3, PTL
=============================================================================
