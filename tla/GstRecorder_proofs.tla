-------------------------- MODULE GstRecorder_proofs --------------------------
(***************************************************************************)
(* Proofs about GstRecorder for every number of control threads, pushers   *)
(* and pipelines and every choice of faults.  The conjuncts of IInv are    *)
(* what a thread may rely on while it holds rec->lock, while it waits      *)
(* without it, and what GStreamer does to a pipeline meanwhile.            *)
(***************************************************************************)
EXTENDS GstRecorder, FiniteSetTheorems, TLAPS

(* Only gst_recorder_apply keeps the lock from one step to the next, and it *)
(* has outputs to build a pipeline for.                                     *)
LockInv ==
  /\ \A c \in Controllers :
       /\ pc[c] \in {"idle", "apply", "build", "await", "stop", "waitEos", "stopClear", "stopUnref"}
       /\ pc[c] \in {"build", "await"} <=> lock = c
       /\ pc[c] \in {"apply", "build", "await"} => goal[c] # {}
  /\ \A u \in Pushers : pc[u] \in {"idle", "push", "copy"}
  /\ lock \in Controllers \cup {NoThread}

(* A thread has a pipeline in its local variable exactly where it has a     *)
(* reference to it.                                                         *)
HeldInv ==
  /\ \A c \in Controllers : held[c] # NoPipe <=> pc[c] \in {"waitEos", "stopClear", "stopUnref"}
  /\ \A u \in Pushers : held[u] # NoPipe <=> pc[u] = "copy"
  /\ \A t \in Threads : held[t] # NoPipe => state[held[t]] # "unborn"

(* The fields of rec, free or in the middle of an apply. *)
RecInv ==
  /\ rec.appsrc = rec.pipeline
  /\ rec.active => rec.pipeline # NoPipe
  /\ rec.pipeline # NoPipe /\ ~rec.active => lock # NoThread /\ pc[lock] = "await"
  /\ lock # NoThread => /\ ~rec.active
                        /\ pc[lock] = "build" => rec.pipeline = NoPipe
                        /\ pc[lock] = "await" => /\ rec.pipeline # NoPipe
                                                 /\ sinks[rec.pipeline] = goal[lock]
  /\ ~rec.active => ~rec.recording /\ ~rec.streaming
  /\ rec.active => /\ rec.recording <=> "record" \in sinks[rec.pipeline]
                   /\ rec.streaming <=> "stream" \in sinks[rec.pipeline]

(* The life of a pipeline: only the current one is alive, and the file is   *)
(* decided before the end of stream shows on the bus.                       *)
PipeInv ==
  \A p \in Pipes :
    /\ rec.pipeline = p <=> state[p] \notin {"unborn", "null"}
    /\ state[p] = "unborn" => /\ refs[p] = 0 /\ sinks[p] = {}
                              /\ mp4[p] = "none" /\ bus[p] = "none"
    /\ mp4[p] = "broken" => state[p] = "null"
    /\ bus[p] = "eos" => mp4[p] # "writing"
    /\ bus[p] # "none" => state[p] \notin {"unborn", "null"}

(* A stop that has seen the end of stream. *)
StopInv ==
  \A c \in Controllers :
    pc[c] = "stopClear" /\ verdict[c] = "ok" => mp4[held[c]] \in {"none", "complete"}

IInv == TypeOK /\ LockInv /\ HeldInv /\ RecInv /\ PipeInv /\ StopInv /\ RefsExact
----------------------------------------------------------------------------
(* The threads that hold a pipeline can be counted. *)
LEMMA Counts ==
  ASSUME NEW p \in Pipes
  PROVE  /\ IsFiniteSet(Stoppers(p)) /\ Cardinality(Stoppers(p)) \in Nat
         /\ IsFiniteSet(Feeders(p)) /\ Cardinality(Feeders(p)) \in Nat
<1>1. Stoppers(p) \in SUBSET Controllers /\ Feeders(p) \in SUBSET Pushers
  BY DEF Stoppers, Feeders
<1>2. IsFiniteSet(Stoppers(p)) /\ IsFiniteSet(Feeders(p))
  BY <1>1, FS_Subset, RecorderAssumption DEF RecorderAssumption
<1>3. QED
  BY <1>2, FS_CardinalityType

(* A stop that takes a reference is one more holder of that pipeline only. *)
LEMMA StopperTakes ==
  ASSUME TypeOK, NEW c \in Controllers, NEW p \in Pipes,
         held[c] = NoPipe, held' = [held EXCEPT ![c] = p]
  PROVE  /\ Cardinality(Stoppers(p)') = Cardinality(Stoppers(p)) + 1
         /\ \A q \in Pipes : q # p => Stoppers(q)' = Stoppers(q)
         /\ \A q \in Pipes : Feeders(q)' = Feeders(q)
<1>1. c \notin Stoppers(p) /\ Stoppers(p)' = Stoppers(p) \cup {c}
  BY RecorderAssumption DEF TypeOK, Threads, Stoppers, RecorderAssumption
<1>2. Cardinality(Stoppers(p)') = Cardinality(Stoppers(p)) + 1
  BY <1>1, Counts, FS_AddElement
<1>3. \A q \in Pipes : (q # p => Stoppers(q)' = Stoppers(q)) /\ Feeders(q)' = Feeders(q)
  BY RecorderAssumption DEF TypeOK, Threads, Stoppers, Feeders, RecorderAssumption
<1>4. QED
  BY <1>2, <1>3

(* A stop that drops its reference is one holder less of that pipeline only. *)
LEMMA StopperDrops ==
  ASSUME TypeOK, NEW c \in Controllers, NEW p \in Pipes,
         held[c] = p, held' = [held EXCEPT ![c] = NoPipe]
  PROVE  /\ Cardinality(Stoppers(p)) = Cardinality(Stoppers(p)') + 1
         /\ Cardinality(Stoppers(p)') \in Nat
         /\ \A q \in Pipes : q # p => Stoppers(q)' = Stoppers(q)
         /\ \A q \in Pipes : Feeders(q)' = Feeders(q)
<1>1. c \in Stoppers(p) /\ Stoppers(p)' = Stoppers(p) \ {c}
  BY RecorderAssumption DEF TypeOK, Threads, Stoppers, RecorderAssumption
<1>2. /\ Cardinality(Stoppers(p)') = Cardinality(Stoppers(p)) - 1
      /\ Cardinality(Stoppers(p)') \in Nat
  BY <1>1, Counts, FS_RemoveElement, FS_CardinalityType
<1>3. \A q \in Pipes : (q # p => Stoppers(q)' = Stoppers(q)) /\ Feeders(q)' = Feeders(q)
  BY RecorderAssumption DEF TypeOK, Threads, Stoppers, Feeders, RecorderAssumption
<1>4. QED
  BY <1>2, <1>3, Counts

(* A pusher that takes an appsrc is one more feeder of that pipeline only. *)
LEMMA FeederTakes ==
  ASSUME TypeOK, NEW u \in Pushers, NEW p \in Pipes,
         held[u] = NoPipe, held' = [held EXCEPT ![u] = p]
  PROVE  /\ Cardinality(Feeders(p)') = Cardinality(Feeders(p)) + 1
         /\ \A q \in Pipes : q # p => Feeders(q)' = Feeders(q)
         /\ \A q \in Pipes : Stoppers(q)' = Stoppers(q)
<1>1. u \notin Feeders(p) /\ Feeders(p)' = Feeders(p) \cup {u}
  BY RecorderAssumption DEF TypeOK, Threads, Feeders, RecorderAssumption
<1>2. Cardinality(Feeders(p)') = Cardinality(Feeders(p)) + 1
  BY <1>1, Counts, FS_AddElement
<1>3. \A q \in Pipes : (q # p => Feeders(q)' = Feeders(q)) /\ Stoppers(q)' = Stoppers(q)
  BY RecorderAssumption DEF TypeOK, Threads, Stoppers, Feeders, RecorderAssumption
<1>4. QED
  BY <1>2, <1>3

(* A pusher that drops its appsrc is one feeder less of that pipeline only. *)
LEMMA FeederDrops ==
  ASSUME TypeOK, NEW u \in Pushers, NEW p \in Pipes,
         held[u] = p, held' = [held EXCEPT ![u] = NoPipe]
  PROVE  /\ Cardinality(Feeders(p)) = Cardinality(Feeders(p)') + 1
         /\ Cardinality(Feeders(p)') \in Nat
         /\ Feeders(p) # {}
         /\ \A q \in Pipes : q # p => Feeders(q)' = Feeders(q)
         /\ \A q \in Pipes : Stoppers(q)' = Stoppers(q)
<1>1. u \in Feeders(p) /\ Feeders(p)' = Feeders(p) \ {u}
  BY RecorderAssumption DEF TypeOK, Threads, Feeders, RecorderAssumption
<1>2. /\ Cardinality(Feeders(p)') = Cardinality(Feeders(p)) - 1
      /\ Cardinality(Feeders(p)') \in Nat
  BY <1>1, Counts, FS_RemoveElement, FS_CardinalityType
<1>3. \A q \in Pipes : (q # p => Feeders(q)' = Feeders(q)) /\ Stoppers(q)' = Stoppers(q)
  BY RecorderAssumption DEF TypeOK, Threads, Stoppers, Feeders, RecorderAssumption
<1>4. QED
  BY <1>1, <1>2, <1>3, Counts
----------------------------------------------------------------------------
(* The counts stay exact while nobody takes or drops a reference. *)
LEMMA RefsUndisturbed ==
  ASSUME RefsExact, UNCHANGED <<held, refs, srcRefs>>,
         rec'.pipeline = rec.pipeline, rec'.appsrc = rec.appsrc
  PROVE  RefsExact'
<1>1. \A p \in Pipes : Stoppers(p)' = Stoppers(p) /\ Feeders(p)' = Feeders(p)
  BY DEF Stoppers, Feeders
<1>2. QED
  BY <1>1 DEF RefsExact

(* They stay exact when rec drops its own reference. *)
LEMMA RefsCleared ==
  ASSUME TypeOK, RefsExact, rec.pipeline \in Pipes, rec.appsrc = rec.pipeline,
         ClearLocked(rec.pipeline), UNCHANGED <<held, srcRefs>>
  PROVE  RefsExact' /\ refs' \in [Pipes -> Nat]
<1>1. \A p \in Pipes : /\ Stoppers(p)' = Stoppers(p) /\ Feeders(p)' = Feeders(p)
                        /\ Cardinality(Stoppers(p)) \in Nat
  BY Counts DEF Stoppers, Feeders
<1>2. rec'.pipeline = NoPipe /\ rec'.appsrc = NoPipe
  BY DEF ClearLocked, ClearedRec
<1>3. refs[rec.pipeline] = Cardinality(Stoppers(rec.pipeline)) + 1
  BY DEF RefsExact
<1>4. refs' \in [Pipes -> Nat]
  BY <1>1, <1>3 DEF TypeOK, ClearLocked
<1>5. \A p \in Pipes : refs'[p] = Cardinality(Stoppers(p)')
  BY <1>1, <1>3, <1>4 DEF TypeOK, ClearLocked, RefsExact
<1>6. RefsExact'
  BY <1>1, <1>2, <1>5, RecorderAssumption DEF RefsExact, RecorderAssumption
<1>7. QED
  BY <1>4, <1>6
----------------------------------------------------------------------------
(* Each action preserves IInv: one lemma per action, one step per conjunct. *)

(* A caller of gst_recorder_start disturbs nothing by calling. *)
LEMMA CallApplyStep ==
  ASSUME IInv, NEW c \in Controllers, NEW S \in SUBSET Sinks, CallApply(c, S)
  PROVE  IInv'
<1>1. TypeOK'
  BY DEF IInv, TypeOK, pipeVars, Goto, CallApply
<1>2. LockInv'
  BY RecorderAssumption DEF IInv, TypeOK, LockInv, pipeVars, Goto, CallApply
<1>3. HeldInv'
  BY DEF IInv, TypeOK, HeldInv, pipeVars, Goto, CallApply
<1>4. RecInv'
  BY DEF IInv, TypeOK, RecInv, pipeVars, Goto, CallApply
<1>5. PipeInv'
  BY DEF IInv, TypeOK, PipeInv, pipeVars, Goto, CallApply
<1>6. StopInv'
  BY DEF IInv, TypeOK, StopInv, pipeVars, Goto, CallApply
<1>7. RefsExact'
  BY RefsUndisturbed DEF IInv, pipeVars, Goto, CallApply
<1>8. QED
  BY <1>1, <1>2, <1>3, <1>4, <1>5, <1>6, <1>7 DEF IInv

(* A caller of gst_recorder_stop disturbs nothing by calling. *)
LEMMA CallStopStep ==
  ASSUME IInv, NEW c \in Controllers, CallStop(c)
  PROVE  IInv'
<1>1. TypeOK'
  BY DEF IInv, TypeOK, pipeVars, Goto, CallStop
<1>2. LockInv'
  BY RecorderAssumption DEF IInv, TypeOK, LockInv, pipeVars, Goto, CallStop
<1>3. HeldInv'
  BY DEF IInv, TypeOK, HeldInv, pipeVars, Goto, CallStop
<1>4. RecInv'
  BY DEF IInv, TypeOK, RecInv, pipeVars, Goto, CallStop
<1>5. PipeInv'
  BY DEF IInv, TypeOK, PipeInv, pipeVars, Goto, CallStop
<1>6. StopInv'
  BY DEF IInv, TypeOK, StopInv, pipeVars, Goto, CallStop
<1>7. RefsExact'
  BY RefsUndisturbed DEF IInv, pipeVars, Goto, CallStop
<1>8. QED
  BY <1>1, <1>2, <1>3, <1>4, <1>5, <1>6, <1>7 DEF IInv

(* Taking rec->lock for a start, the active pipeline cleared if there is one:
   the reference rec held goes with it. *)
LEMMA ApplyLockStep ==
  ASSUME IInv, NEW c \in Controllers, ApplyLock(c)
  PROVE  IInv'
<1>1. RefsExact' /\ refs' \in [Pipes -> Nat]
  <2>1. CASE rec.active
    BY <2>1, RefsCleared DEF IInv, TypeOK, RecInv, ApplyLock, ReplacesActive
  <2>2. CASE ~rec.active
    BY <2>2, RefsUndisturbed DEF IInv, TypeOK, ApplyLock, ReplacesActive
  <2>3. QED
    BY <2>1, <2>2
<1>2. \/ rec' = rec /\ state' = state /\ bus' = bus /\ mp4' = mp4
      \/ /\ rec.pipeline \in Pipes
         /\ rec' = ClearedRec
         /\ state' = [state EXCEPT ![rec.pipeline] = "null"]
         /\ bus' = [bus EXCEPT ![rec.pipeline] = "none"]
         /\ mp4' = [mp4 EXCEPT ![rec.pipeline] = IF @ = "writing" THEN "broken" ELSE @]
  BY DEF IInv, TypeOK, RecInv, ClearLocked, ReplacesActive, ApplyLock
<1>3. TypeOK'
  <2>1. rec' \in [pipeline : Pipes \cup {NoPipe}, appsrc : Pipes \cup {NoPipe},
                  active : BOOLEAN, recording : BOOLEAN, streaming : BOOLEAN]
    <3>1. ClearedRec \in [pipeline : Pipes \cup {NoPipe}, appsrc : Pipes \cup {NoPipe},
                          active : BOOLEAN, recording : BOOLEAN, streaming : BOOLEAN]
      BY DEF ClearedRec
    <3>2. QED
      BY <1>2, <3>1 DEF IInv, TypeOK
  <2>2. /\ state' \in [Pipes -> States]
        /\ bus' \in [Pipes -> {"none", "error", "eos"}]
        /\ mp4' \in [Pipes -> {"none", "writing", "complete", "broken"}]
    BY <1>2 DEF IInv, TypeOK, States
  <2>3. QED
    BY <1>1, <2>1, <2>2 DEF IInv, TypeOK, Threads, Goto, ApplyLock
<1>4. LockInv'
  BY RecorderAssumption DEF IInv, TypeOK, LockInv, Threads, Goto, ApplyLock
<1>5. HeldInv'
  BY DEF IInv, TypeOK, HeldInv, Goto, ClearLocked, ApplyLock
<1>6. RecInv'
  BY DEF IInv, TypeOK, RecInv, Goto, ClearLocked, ClearedRec, ReplacesActive, ApplyLock
<1>7. PipeInv'
  BY RecorderAssumption DEF IInv, TypeOK, PipeInv, Goto, ClearLocked, ClearedRec, ApplyLock
<1>8. StopInv'
  BY DEF IInv, TypeOK, HeldInv, StopInv, Threads, Goto, ClearLocked, ApplyLock
<1>9. QED
  BY <1>1, <1>3, <1>4, <1>5, <1>6, <1>7, <1>8 DEF IInv

(* gst_parse_launch returned no pipeline: the lock is given back. *)
LEMMA ParseFailsStep ==
  ASSUME IInv, NEW c \in Controllers, ParseFails(c)
  PROVE  IInv'
<1>1. TypeOK'
  BY DEF IInv, TypeOK, pipeVars, Return, Goto, ParseFails
<1>2. LockInv'
  BY RecorderAssumption DEF IInv, TypeOK, LockInv, pipeVars, Return, Goto, ParseFails
<1>3. HeldInv'
  BY DEF IInv, TypeOK, HeldInv, pipeVars, Return, Goto, ParseFails
<1>4. RecInv'
  BY DEF IInv, TypeOK, LockInv, RecInv, pipeVars, Return, Goto, ParseFails
<1>5. PipeInv'
  BY DEF IInv, TypeOK, PipeInv, pipeVars, Return, Goto, ParseFails
<1>6. StopInv'
  BY DEF IInv, TypeOK, StopInv, pipeVars, Return, Goto, ParseFails
<1>7. RefsExact'
  BY RefsUndisturbed DEF IInv, pipeVars, Return, Goto, ParseFails
<1>8. QED
  BY <1>1, <1>2, <1>3, <1>4, <1>5, <1>6, <1>7 DEF IInv

(* The state change was refused: the pipeline is gone before the call returns. *)
LEMMA LaunchFailsStep ==
  ASSUME IInv, NEW c \in Controllers, NEW p \in Pipes, NEW f \in {"none", "broken"},
         LaunchFails(c, p, f)
  PROVE  IInv'
<1>1. TypeOK'
  BY DEF IInv, TypeOK, Threads, States, Return, Goto, ClearedRec, LaunchFails
<1>2. LockInv'
  BY RecorderAssumption DEF IInv, TypeOK, LockInv, Return, Goto, LaunchFails
<1>3. HeldInv'
  BY DEF IInv, TypeOK, HeldInv, Return, Goto, LaunchFails
<1>4. RecInv'
  BY DEF TypeOK, RecInv, Return, Goto, ClearedRec, LaunchFails
<1>5. PipeInv'
  BY RecorderAssumption
  DEF IInv, TypeOK, LockInv, RecInv, PipeInv, Return, Goto, ClearedRec, LaunchFails
<1>6. StopInv'
  BY DEF IInv, TypeOK, HeldInv, StopInv, Threads, Return, Goto, LaunchFails
<1>7. RefsExact'
  <2>1. \A q \in Pipes : Stoppers(q)' = Stoppers(q) /\ Feeders(q)' = Feeders(q)
    BY DEF Stoppers, Feeders, LaunchFails
  <2>2. Stoppers(p) = {} /\ Feeders(p) = {}
    BY RecorderAssumption DEF IInv, HeldInv, Threads, Stoppers, Feeders, LaunchFails
  <2>3. rec.pipeline = NoPipe /\ rec.appsrc = NoPipe
    BY RecorderAssumption DEF IInv, LockInv, RecInv, LaunchFails
  <2>4. QED
    BY <2>1, <2>2, <2>3, FS_EmptySet
    DEF IInv, TypeOK, RefsExact, LaunchFails, ClearedRec, PipeInv
<1>8. QED
  BY <1>1, <1>2, <1>3, <1>4, <1>5, <1>6, <1>7 DEF IInv

(* The pipeline is born with one reference and one of its appsrc, both held by
   rec, and the lock stays with the starter. *)
LEMMA LaunchStep ==
  ASSUME IInv, NEW c \in Controllers, NEW p \in Pipes, NEW s \in {"ready", "paused"},
         NEW f \in {"none", "writing"}, Launch(c, p, s, f)
  PROVE  IInv'
<1>1. TypeOK'
  BY DEF IInv, TypeOK, States, Goto, Launch
<1>2. LockInv'
  BY DEF IInv, TypeOK, LockInv, Goto, Launch
<1>3. HeldInv'
  BY DEF IInv, TypeOK, HeldInv, Goto, Launch
<1>4. RecInv'
  BY RecorderAssumption DEF IInv, TypeOK, LockInv, RecInv, Goto, Launch
<1>5. PipeInv'
  BY RecorderAssumption DEF IInv, TypeOK, LockInv, RecInv, PipeInv, Goto, Launch
<1>6. StopInv'
  BY DEF IInv, TypeOK, HeldInv, StopInv, Threads, Goto, Launch
<1>7. RefsExact'
  <2>1. \A q \in Pipes : Stoppers(q)' = Stoppers(q) /\ Feeders(q)' = Feeders(q)
    BY DEF Stoppers, Feeders, Launch
  <2>2. Stoppers(p) = {} /\ Feeders(p) = {}
    BY RecorderAssumption DEF IInv, HeldInv, Threads, Stoppers, Feeders, Launch
  <2>3. rec.pipeline = NoPipe /\ rec.appsrc = NoPipe
    BY RecorderAssumption DEF IInv, LockInv, RecInv, Launch
  <2>4. /\ rec'.pipeline = p /\ rec'.appsrc = p
        /\ refs' = [refs EXCEPT ![p] = 1] /\ srcRefs' = [srcRefs EXCEPT ![p] = 1]
    BY DEF Launch
  <2>5. ASSUME NEW q \in Pipes \ {p}
        PROVE  /\ refs'[q] = Cardinality(Stoppers(q)')
               /\ Feeders(q)' # {} => srcRefs'[q] = Cardinality(Feeders(q)') + 1
    BY <2>1, <2>3, <2>4, Counts, RecorderAssumption DEF IInv, TypeOK, RefsExact
  <2>6. /\ refs'[p] = Cardinality(Stoppers(p)') + 1
        /\ srcRefs'[p] = Cardinality(Feeders(p)') + 1
    <3>1. Cardinality(Stoppers(p)') = 0 /\ Cardinality(Feeders(p)') = 0
      BY <2>1, <2>2, FS_EmptySet
    <3>2. QED
      BY <2>4, <3>1 DEF IInv, TypeOK
  <2>7. QED
    BY <2>1, <2>4, <2>5, <2>6, Counts DEF RefsExact
<1>8. QED
  BY <1>1, <1>2, <1>3, <1>4, <1>5, <1>6, <1>7 DEF IInv

(* The starter accepts the pipeline: the three flags agree with its sinks. *)
LEMMA AwaitOkStep ==
  ASSUME IInv, NEW c \in Controllers, AwaitOk(c)
  PROVE  IInv'
<1>1. PICK r \in BOOLEAN, s \in BOOLEAN :
        /\ r <=> "record" \in goal[c]
        /\ s <=> "stream" \in goal[c]
        /\ rec' = [rec EXCEPT !.recording = r, !.streaming = s, !.active = TRUE]
  <2>1. ("record" \in goal[c]) \in BOOLEAN /\ ("stream" \in goal[c]) \in BOOLEAN
    OBVIOUS
  <2>2. QED
    BY <2>1, Zenon DEF AwaitOk
<1>2. TypeOK'
  BY <1>1 DEF IInv, TypeOK, pipeVars, Return, Goto, AwaitOk
<1>3. LockInv'
  BY RecorderAssumption DEF IInv, TypeOK, LockInv, pipeVars, Return, Goto, AwaitOk
<1>4. HeldInv'
  BY DEF IInv, TypeOK, HeldInv, pipeVars, Return, Goto, AwaitOk
<1>5. RecInv'
  BY <1>1, RecorderAssumption
  DEF IInv, TypeOK, LockInv, RecInv, pipeVars, Return, Goto, AwaitOk
<1>6. PipeInv'
  BY DEF IInv, TypeOK, PipeInv, pipeVars, Return, Goto, AwaitOk
<1>7. StopInv'
  BY DEF IInv, TypeOK, StopInv, pipeVars, Return, Goto, AwaitOk
<1>8. RefsExact'
  BY RefsUndisturbed DEF IInv, pipeVars, Return, Goto, AwaitOk
<1>9. QED
  BY <1>2, <1>3, <1>4, <1>5, <1>6, <1>7, <1>8 DEF IInv

(* The starter gives the pipeline up and clears it under the lock it still has. *)
LEMMA AwaitFailStep ==
  ASSUME IInv, NEW c \in Controllers, AwaitFail(c)
  PROVE  IInv'
<1>1. RefsExact' /\ refs' \in [Pipes -> Nat]
  <2>1. rec.pipeline \in Pipes
    BY RecorderAssumption DEF IInv, TypeOK, LockInv, RecInv, AwaitFail
  <2>2. QED
    BY <2>1, RefsCleared DEF IInv, RecInv, AwaitFail
<1>2. TypeOK'
  BY <1>1 DEF IInv, TypeOK, States, Return, Goto, ClearLocked, ClearedRec, AwaitFail
<1>3. LockInv'
  BY RecorderAssumption DEF IInv, TypeOK, LockInv, Return, Goto, AwaitFail
<1>4. HeldInv'
  BY DEF IInv, TypeOK, HeldInv, Return, Goto, ClearLocked, AwaitFail
<1>5. RecInv'
  BY DEF TypeOK, RecInv, Return, Goto, ClearLocked, ClearedRec, AwaitFail
<1>6. PipeInv'
  BY RecorderAssumption
  DEF IInv, TypeOK, PipeInv, Return, Goto, ClearLocked, ClearedRec, AwaitFail
<1>7. StopInv'
  BY DEF IInv, TypeOK, StopInv, Return, Goto, ClearLocked, AwaitFail
<1>8. QED
  BY <1>1, <1>2, <1>3, <1>4, <1>5, <1>6, <1>7 DEF IInv

(* A stop that finds nothing active leaves everything as it is. *)
LEMMA StopInactiveStep ==
  ASSUME IInv, NEW c \in Controllers, StopInactive(c)
  PROVE  IInv'
<1>1. TypeOK'
  BY DEF IInv, TypeOK, pipeVars, Return, Goto, StopInactive
<1>2. LockInv'
  BY DEF IInv, TypeOK, LockInv, pipeVars, Return, Goto, StopInactive
<1>3. HeldInv'
  BY DEF IInv, TypeOK, HeldInv, pipeVars, Return, Goto, StopInactive
<1>4. RecInv'
  BY DEF IInv, TypeOK, RecInv, pipeVars, Return, Goto, StopInactive
<1>5. PipeInv'
  BY DEF IInv, TypeOK, PipeInv, pipeVars, Return, Goto, StopInactive
<1>6. StopInv'
  BY DEF IInv, TypeOK, StopInv, pipeVars, Return, Goto, StopInactive
<1>7. RefsExact'
  BY RefsUndisturbed DEF IInv, pipeVars, Return, Goto, StopInactive
<1>8. QED
  BY <1>1, <1>2, <1>3, <1>4, <1>5, <1>6, <1>7 DEF IInv

(* A stop takes a reference of its own before it gives the lock back. *)
LEMMA StopBeginStep ==
  ASSUME IInv, NEW c \in Controllers, StopBegin(c)
  PROVE  IInv'
<1>1. TypeOK'
  BY DEF IInv, TypeOK, Threads, States, Goto, TakeRef, StopBegin
<1>2. LockInv'
  BY DEF IInv, TypeOK, LockInv, Goto, StopBegin
<1>3. HeldInv'
  BY RecorderAssumption DEF IInv, TypeOK, HeldInv, PipeInv, Goto, StopBegin
<1>4. RecInv'
  BY DEF IInv, TypeOK, RecInv, Goto, StopBegin
<1>5. PipeInv'
  BY DEF IInv, TypeOK, PipeInv, Goto, TakeRef, StopBegin
<1>6. StopInv'
  BY DEF IInv, TypeOK, StopInv, Goto, StopBegin
<1>7. RefsExact'
  <2>1. PICK p \in Pipes : rec.pipeline = p /\ held[c] = NoPipe /\ held' = [held EXCEPT ![c] = p]
    BY DEF IInv, TypeOK, HeldInv, StopBegin
  <2>2. /\ Cardinality(Stoppers(p)') = Cardinality(Stoppers(p)) + 1
        /\ Cardinality(Stoppers(p)) \in Nat
        /\ \A q \in Pipes : q # p => Stoppers(q)' = Stoppers(q)
        /\ \A q \in Pipes : Feeders(q)' = Feeders(q)
    BY <2>1, StopperTakes, Counts DEF IInv
  <2>3. QED
    BY <2>1, <2>2 DEF IInv, TypeOK, RefsExact, StopBegin, TakeRef
<1>8. QED
  BY <1>1, <1>2, <1>3, <1>4, <1>5, <1>6, <1>7 DEF IInv

(* What the bus answered is remembered with the state the file was in. *)
LEMMA WaitEosStep ==
  ASSUME IInv, NEW c \in Controllers, WaitEos(c)
  PROVE  IInv'
<1>1. TypeOK'
  BY DEF IInv, TypeOK, Goto, VerdictOf, WaitEos
<1>2. LockInv'
  BY DEF IInv, TypeOK, LockInv, Goto, WaitEos
<1>3. HeldInv'
  BY DEF IInv, TypeOK, HeldInv, Goto, WaitEos
<1>4. RecInv'
  BY DEF IInv, TypeOK, RecInv, Goto, WaitEos
<1>5. PipeInv'
  BY DEF IInv, TypeOK, PipeInv, Goto, WaitEos
<1>6. StopInv'
  BY DEF IInv, TypeOK, HeldInv, PipeInv, StopInv, Goto, VerdictOf, WaitEos
<1>7. RefsExact'
  BY RefsUndisturbed DEF IInv, WaitEos
<1>8. QED
  BY <1>1, <1>2, <1>3, <1>4, <1>5, <1>6, <1>7 DEF IInv

(* A stop clears the pipeline it waited for if it is still the current one. *)
LEMMA StopClearStep ==
  ASSUME IInv, NEW c \in Controllers, StopClear(c)
  PROVE  IInv'
<1>1. RefsExact' /\ refs' \in [Pipes -> Nat]
  <2>1. CASE rec.pipeline = held[c]
    <3>1. rec.pipeline \in Pipes /\ ClearLocked(rec.pipeline)
      BY <2>1 DEF IInv, TypeOK, HeldInv, StopClear, StillCurrent
    <3>2. QED
      BY <3>1, RefsCleared DEF IInv, RecInv, StopClear
  <2>2. CASE rec.pipeline # held[c]
    BY <2>2, RefsUndisturbed DEF IInv, TypeOK, StopClear, StillCurrent
  <2>3. QED
    BY <2>1, <2>2
<1>2. \/ rec' = rec /\ state' = state /\ bus' = bus /\ mp4' = mp4
      \/ /\ rec.pipeline \in Pipes
         /\ rec' = ClearedRec
         /\ state' = [state EXCEPT ![rec.pipeline] = "null"]
         /\ bus' = [bus EXCEPT ![rec.pipeline] = "none"]
         /\ mp4' = [mp4 EXCEPT ![rec.pipeline] = IF @ = "writing" THEN "broken" ELSE @]
  BY DEF IInv, TypeOK, HeldInv, ClearLocked, StillCurrent, StopClear
<1>3. TypeOK'
  <2>1. rec' \in [pipeline : Pipes \cup {NoPipe}, appsrc : Pipes \cup {NoPipe},
                  active : BOOLEAN, recording : BOOLEAN, streaming : BOOLEAN]
    <3>1. ClearedRec \in [pipeline : Pipes \cup {NoPipe}, appsrc : Pipes \cup {NoPipe},
                          active : BOOLEAN, recording : BOOLEAN, streaming : BOOLEAN]
      BY DEF ClearedRec
    <3>2. QED
      BY <1>2, <3>1 DEF IInv, TypeOK
  <2>2. /\ state' \in [Pipes -> States]
        /\ bus' \in [Pipes -> {"none", "error", "eos"}]
        /\ mp4' \in [Pipes -> {"none", "writing", "complete", "broken"}]
    BY <1>2 DEF IInv, TypeOK, States
  <2>3. QED
    BY <1>1, <2>1, <2>2 DEF IInv, TypeOK, Goto, StopClear
<1>4. LockInv'
  BY DEF IInv, TypeOK, LockInv, Goto, StopClear
<1>5. HeldInv'
  BY DEF IInv, TypeOK, HeldInv, Goto, ClearLocked, StopClear
<1>6. RecInv'
  BY DEF IInv, TypeOK, RecInv, Goto, ClearLocked, ClearedRec, StopClear
<1>7. PipeInv'
  BY RecorderAssumption DEF IInv, TypeOK, PipeInv, Goto, ClearLocked, ClearedRec, StopClear
<1>8. StopInv'
  BY DEF IInv, TypeOK, HeldInv, StopInv, Threads, Goto, ClearLocked, StopClear
<1>9. QED
  BY <1>1, <1>3, <1>4, <1>5, <1>6, <1>7, <1>8 DEF IInv

(* A stop drops the reference it took. *)
LEMMA StopUnrefStep ==
  ASSUME IInv, NEW c \in Controllers, StopUnref(c)
  PROVE  IInv'
<1>1. RefsExact' /\ refs' \in [Pipes -> Nat]
  <2>1. PICK p \in Pipes : held[c] = p /\ held' = [held EXCEPT ![c] = NoPipe]
    BY DEF IInv, TypeOK, HeldInv, Threads, StopUnref
  <2>2. /\ Cardinality(Stoppers(p)) = Cardinality(Stoppers(p)') + 1
        /\ Cardinality(Stoppers(p)') \in Nat
        /\ \A q \in Pipes : q # p => Stoppers(q)' = Stoppers(q)
        /\ \A q \in Pipes : Feeders(q)' = Feeders(q)
    BY <2>1, StopperDrops DEF IInv
  <2>3. refs[p] = Cardinality(Stoppers(p)) + (IF rec.pipeline = p THEN 1 ELSE 0)
    BY <2>1 DEF IInv, RefsExact
  <2>4. refs' \in [Pipes -> Nat]
    BY <2>1, <2>2, <2>3 DEF IInv, TypeOK, StopUnref
  <2>5. QED
    BY <2>1, <2>2, <2>3, <2>4 DEF IInv, RefsExact, StopUnref
<1>2. TypeOK'
  BY <1>1 DEF IInv, TypeOK, Goto, StopUnref
<1>3. LockInv'
  BY DEF IInv, TypeOK, LockInv, Goto, StopUnref
<1>4. HeldInv'
  BY DEF IInv, TypeOK, HeldInv, Goto, StopUnref
<1>5. RecInv'
  BY DEF IInv, TypeOK, RecInv, Goto, StopUnref
<1>6. PipeInv'
  BY DEF IInv, TypeOK, HeldInv, PipeInv, Threads, Goto, StopUnref
<1>7. StopInv'
  BY DEF IInv, TypeOK, StopInv, Goto, StopUnref
<1>8. QED
  BY <1>1, <1>2, <1>3, <1>4, <1>5, <1>6, <1>7 DEF IInv

(* A pusher reads rec->active without the lock. *)
LEMMA SeeActiveStep ==
  ASSUME IInv, NEW u \in Pushers, SeeActive(u)
  PROVE  IInv'
<1>1. TypeOK'
  BY DEF IInv, TypeOK, pipeVars, Goto, SeeActive
<1>2. LockInv'
  BY RecorderAssumption DEF IInv, TypeOK, LockInv, pipeVars, Goto, SeeActive
<1>3. HeldInv'
  BY DEF IInv, TypeOK, HeldInv, pipeVars, Goto, SeeActive
<1>4. RecInv'
  BY DEF IInv, TypeOK, RecInv, pipeVars, Goto, SeeActive
<1>5. PipeInv'
  BY DEF IInv, TypeOK, PipeInv, pipeVars, Goto, SeeActive
<1>6. StopInv'
  BY DEF IInv, TypeOK, StopInv, pipeVars, Goto, SeeActive
<1>7. RefsExact'
  BY RefsUndisturbed DEF IInv, pipeVars, Goto, SeeActive
<1>8. QED
  BY <1>1, <1>2, <1>3, <1>4, <1>5, <1>6, <1>7 DEF IInv

(* A pusher finds nothing to feed. *)
LEMMA PushRefusedStep ==
  ASSUME IInv, NEW u \in Pushers, PushRefused(u)
  PROVE  IInv'
<1>1. TypeOK'
  BY DEF IInv, TypeOK, pipeVars, Goto, PushRefused
<1>2. LockInv'
  BY DEF IInv, TypeOK, LockInv, pipeVars, Goto, PushRefused
<1>3. HeldInv'
  BY DEF IInv, TypeOK, HeldInv, pipeVars, Goto, PushRefused
<1>4. RecInv'
  BY DEF IInv, TypeOK, RecInv, pipeVars, Goto, PushRefused
<1>5. PipeInv'
  BY DEF IInv, TypeOK, PipeInv, pipeVars, Goto, PushRefused
<1>6. StopInv'
  BY DEF IInv, TypeOK, StopInv, pipeVars, Goto, PushRefused
<1>7. RefsExact'
  BY RefsUndisturbed DEF IInv, pipeVars, Goto, PushRefused
<1>8. QED
  BY <1>1, <1>2, <1>3, <1>4, <1>5, <1>6, <1>7 DEF IInv

(* A pusher takes a reference of the appsrc under the lock. *)
LEMMA PushBeginStep ==
  ASSUME IInv, NEW u \in Pushers, PushBegin(u)
  PROVE  IInv'
<1>1. TypeOK'
  BY DEF IInv, TypeOK, Threads, Goto, PushBegin
<1>2. LockInv'
  BY DEF IInv, TypeOK, LockInv, Goto, PushBegin
<1>3. HeldInv'
  BY RecorderAssumption DEF IInv, TypeOK, HeldInv, RecInv, PipeInv, Goto, PushBegin
<1>4. RecInv'
  BY DEF IInv, TypeOK, RecInv, Goto, PushBegin
<1>5. PipeInv'
  BY DEF IInv, TypeOK, PipeInv, Goto, PushBegin
<1>6. StopInv'
  BY DEF IInv, TypeOK, StopInv, Goto, PushBegin
<1>7. RefsExact'
  <2>1. PICK p \in Pipes : rec.appsrc = p /\ held[u] = NoPipe /\ held' = [held EXCEPT ![u] = p]
    BY DEF IInv, TypeOK, HeldInv, PushBegin
  <2>2. /\ Cardinality(Feeders(p)') = Cardinality(Feeders(p)) + 1
        /\ Cardinality(Feeders(p)) \in Nat
        /\ \A q \in Pipes : q # p => Feeders(q)' = Feeders(q)
        /\ \A q \in Pipes : Stoppers(q)' = Stoppers(q)
    BY <2>1, FeederTakes, Counts DEF IInv
  <2>3. QED
    BY <2>1, <2>2 DEF IInv, TypeOK, RefsExact, PushBegin
<1>8. QED
  BY <1>1, <1>2, <1>3, <1>4, <1>5, <1>6, <1>7 DEF IInv

(* A pusher drops the reference of the appsrc it fed. *)
LEMMA PushEndStep ==
  ASSUME IInv, NEW u \in Pushers, NEW taken \in BOOLEAN, PushEnd(u, taken)
  PROVE  IInv'
<1>1. RefsExact' /\ srcRefs' \in [Pipes -> Nat]
  <2>1. PICK p \in Pipes : held[u] = p /\ held' = [held EXCEPT ![u] = NoPipe]
    BY DEF IInv, TypeOK, HeldInv, Threads, PushEnd
  <2>2. /\ Cardinality(Feeders(p)) = Cardinality(Feeders(p)') + 1
        /\ Cardinality(Feeders(p)') \in Nat
        /\ Feeders(p) # {}
        /\ \A q \in Pipes : q # p => Feeders(q)' = Feeders(q)
        /\ \A q \in Pipes : Stoppers(q)' = Stoppers(q)
    BY <2>1, FeederDrops DEF IInv
  <2>3. srcRefs[p] = Cardinality(Feeders(p)) + 1
    BY <2>1, <2>2 DEF IInv, RefsExact
  <2>4. srcRefs' \in [Pipes -> Nat]
    BY <2>1, <2>2, <2>3 DEF IInv, TypeOK, PushEnd
  <2>5. QED
    BY <2>1, <2>2, <2>3, <2>4 DEF IInv, RefsExact, PushEnd
<1>2. TypeOK'
  BY <1>1 DEF IInv, TypeOK, States, Goto, PushEnd
<1>3. LockInv'
  BY DEF IInv, TypeOK, LockInv, Goto, PushEnd
<1>4. HeldInv'
  BY DEF IInv, TypeOK, HeldInv, Goto, PushEnd
<1>5. RecInv'
  BY DEF IInv, TypeOK, RecInv, Goto, PushEnd
<1>6. PipeInv'
  BY DEF IInv, TypeOK, PipeInv, Goto, PushEnd
<1>7. StopInv'
  BY DEF IInv, TypeOK, StopInv, Goto, PushEnd
<1>8. QED
  BY <1>1, <1>2, <1>3, <1>4, <1>5, <1>6, <1>7 DEF IInv

(* The muxer finishes the file of a pipeline that saw end of stream. *)
LEMMA FileCompleteStep ==
  ASSUME IInv, NEW p \in Pipes, FileComplete(p)
  PROVE  IInv'
<1>1. TypeOK'
  BY DEF IInv, TypeOK, callVars, FileComplete
<1>2. LockInv'
  BY DEF IInv, TypeOK, LockInv, callVars, FileComplete
<1>3. HeldInv'
  BY DEF IInv, TypeOK, HeldInv, callVars, FileComplete
<1>4. RecInv'
  BY DEF IInv, TypeOK, RecInv, callVars, FileComplete
<1>5. PipeInv'
  BY DEF IInv, TypeOK, PipeInv, callVars, FileComplete
<1>6. StopInv'
  BY DEF IInv, TypeOK, StopInv, callVars, FileComplete
<1>7. RefsExact'
  BY RefsUndisturbed DEF IInv, callVars, FileComplete
<1>8. QED
  BY <1>1, <1>2, <1>3, <1>4, <1>5, <1>6, <1>7 DEF IInv

(* A pipeline posts end of stream. *)
LEMMA PostEosStep ==
  ASSUME IInv, NEW p \in Pipes, PostEos(p)
  PROVE  IInv'
<1>1. TypeOK'
  BY DEF IInv, TypeOK, States, callVars, PostEos
<1>2. LockInv'
  BY DEF IInv, TypeOK, LockInv, callVars, PostEos
<1>3. HeldInv'
  BY DEF IInv, TypeOK, HeldInv, callVars, PostEos
<1>4. RecInv'
  BY DEF IInv, TypeOK, RecInv, callVars, PostEos
<1>5. PipeInv'
  BY DEF IInv, TypeOK, PipeInv, callVars, PostEos
<1>6. StopInv'
  BY DEF IInv, TypeOK, StopInv, callVars, PostEos
<1>7. RefsExact'
  BY RefsUndisturbed DEF IInv, callVars, PostEos
<1>8. QED
  BY <1>1, <1>2, <1>3, <1>4, <1>5, <1>6, <1>7 DEF IInv

(* A pipeline posts an error. *)
LEMMA PostErrorStep ==
  ASSUME IInv, NEW p \in Pipes, PostError(p)
  PROVE  IInv'
<1>1. TypeOK'
  BY DEF IInv, TypeOK, States, callVars, PostError
<1>2. LockInv'
  BY DEF IInv, TypeOK, LockInv, callVars, PostError
<1>3. HeldInv'
  BY DEF IInv, TypeOK, HeldInv, callVars, PostError
<1>4. RecInv'
  BY DEF IInv, TypeOK, RecInv, callVars, PostError
<1>5. PipeInv'
  BY DEF IInv, TypeOK, PipeInv, callVars, PostError
<1>6. StopInv'
  BY DEF IInv, TypeOK, StopInv, callVars, PostError
<1>7. RefsExact'
  BY RefsUndisturbed DEF IInv, callVars, PostError
<1>8. QED
  BY <1>1, <1>2, <1>3, <1>4, <1>5, <1>6, <1>7 DEF IInv
----------------------------------------------------------------------------
(* Together *)

(* Nothing is created, nobody holds a reference. *)
LEMMA InitInv == Init => IInv
<1> SUFFICES ASSUME Init PROVE IInv
  OBVIOUS
<1>1. \A p \in Pipes : Stoppers(p) = {} /\ Feeders(p) = {}
  BY RecorderAssumption DEF RecorderAssumption, Init, Threads, Stoppers, Feeders
<1>2. RefsExact
  <2>1. \A p \in Pipes : Cardinality(Stoppers(p)) = 0 /\ Feeders(p) = {}
    BY <1>1, FS_EmptySet
  <2>2. \A p \in Pipes : refs[p] = 0 /\ rec.pipeline # p /\ rec.appsrc # p
    BY RecorderAssumption DEF RecorderAssumption, Init
  <2>3. QED
    BY <2>1, <2>2 DEF RefsExact
<1>3. TypeOK
  BY DEF Init, TypeOK, Threads, Sinks, States
<1>4. LockInv /\ HeldInv /\ RecInv /\ PipeInv /\ StopInv
  BY RecorderAssumption
  DEF RecorderAssumption, Init, Threads, LockInv, HeldInv, RecInv, PipeInv, StopInv
<1>5. QED
  BY <1>2, <1>3, <1>4 DEF IInv

(* IInv only speaks of the variables of the recorder. *)
LEMMA StutterInv ==
  ASSUME IInv, UNCHANGED vars
  PROVE  IInv'
<1>1. RefsExact'
  BY RefsUndisturbed DEF IInv, vars
<1>2. TypeOK' /\ LockInv' /\ HeldInv' /\ RecInv' /\ PipeInv' /\ StopInv'
  BY DEF IInv, TypeOK, LockInv, HeldInv, RecInv, PipeInv, StopInv, vars
<1>3. QED
  BY <1>1, <1>2 DEF IInv

(* The steps of start and of stop preserve IInv. *)
LEMMA ControlInv ==
  ASSUME IInv, NEW c \in Controllers, Control(c)
  PROVE  IInv'
<1>1. CASE Build(c)
  <2>1. CASE ParseFails(c)
    BY <2>1, ParseFailsStep
  <2>2. ASSUME NEW p \in NewPipe, NEW f \in {"none", "broken"}, LaunchFails(c, p, f)
        PROVE  IInv'
    BY <2>2, LaunchFailsStep DEF NewPipe, Fresh
  <2>3. ASSUME NEW p \in NewPipe, NEW s \in {"ready", "paused"}, NEW f \in {"none", "writing"},
               Launch(c, p, s, f)
        PROVE  IInv'
    BY <2>3, LaunchStep DEF NewPipe, Fresh
  <2>4. QED
    BY <1>1, <2>1, <2>2, <2>3 DEF Build
<1>2. QED
  BY <1>1, ApplyLockStep, AwaitOkStep, AwaitFailStep, StopInactiveStep, StopBeginStep,
     WaitEosStep, StopClearStep, StopUnrefStep DEF Control

(* Every step of the recorder preserves IInv. *)
LEMMA NextInv == IInv /\ [Next]_vars => IInv'
<1> SUFFICES ASSUME IInv, [Next]_vars PROVE IInv'
  OBVIOUS
<1>1. ASSUME NEW c \in Controllers, Call(c) PROVE IInv'
  BY <1>1, CallApplyStep, CallStopStep DEF Call
<1>2. ASSUME NEW c \in Controllers, Control(c) PROVE IInv'
  BY <1>2, ControlInv
<1>3. ASSUME NEW u \in Pushers, Video(u) PROVE IInv'
  BY <1>3, SeeActiveStep, PushRefusedStep, PushBeginStep, PushEndStep DEF Video
<1>4. ASSUME NEW p \in Pipes, Stream(p) PROVE IInv'
  BY <1>4, FileCompleteStep, PostEosStep, PostErrorStep DEF Stream
<1>5. QED
  BY <1>1, <1>2, <1>3, <1>4, StutterInv DEF Next

(* IInv is an invariant of the recorder. *)
THEOREM Invariance == Spec => []IInv
  BY InitInv, NextInv, PTL DEF Spec, SafeSpec

(* The state of the recorder is well typed; no count of references ever     *)
(* falls below zero.                                                        *)
THEOREM TypeCorrect == Spec => []TypeOK
<1>1. IInv => TypeOK
  BY DEF IInv
<1>2. QED
  BY <1>1, Invariance, PTL

(* Between the critical sections RecInv leaves one reading of the fields. *)
LEMMA FieldsFollow == IInv => FieldsAgree
<1> SUFFICES ASSUME IInv, lock = NoThread PROVE FieldsAgree
  BY DEF FieldsAgree
<1>1. rec.active <=> rec.pipeline # NoPipe
  BY DEF IInv, RecInv
<1>2. ASSUME rec.active
      PROVE  {x \in Sinks : \/ x = "record" /\ rec.recording
                            \/ x = "stream" /\ rec.streaming} = sinks[rec.pipeline]
  <2>1. /\ sinks[rec.pipeline] \subseteq Sinks
        /\ rec.recording <=> "record" \in sinks[rec.pipeline]
        /\ rec.streaming <=> "stream" \in sinks[rec.pipeline]
    BY <1>1, <1>2 DEF IInv, TypeOK, RecInv
  <2>2. QED
    BY <2>1 DEF Sinks
<1>3. QED
  BY <1>1, <1>2 DEF IInv, RecInv, FieldsAgree

(* gst_recorder_t is consistent whenever rec->lock is free. *)
THEOREM FieldsConsistent == Spec => []FieldsAgree
  BY FieldsFollow, Invariance, PTL

(* Two pipelines, which would write to the same file and the same RTSP path, *)
(* are never alive together.                                                *)
THEOREM OnePipeline == Spec => []OneLivePipeline
<1>1. IInv => OneLivePipeline
  BY DEF IInv, PipeInv, OneLivePipeline
<1>2. QED
  BY <1>1, Invariance, PTL

(* A pipeline is freed when its last user drops it, and never earlier. *)
THEOREM ReferencesExact == Spec => []RefsExact
<1>1. IInv => RefsExact
  BY DEF IInv
<1>2. QED
  BY <1>1, Invariance, PTL

(* A gst_recorder_stop about to return 0 has a complete file behind it. *)
THEOREM StopSawEos == Spec => []EosBeforeTeardown
<1>1. IInv => EosBeforeTeardown
  BY DEF IInv, StopInv, EosBeforeTeardown
<1>2. QED
  BY <1>1, Invariance, PTL

(* gst_recorder_stop only clears the pipeline it has waited for: the other   *)
(* threads move none of its own program counter, and it compares first.      *)
THEOREM StopOfItsOwn == Spec => StopEndsItsOwn
<1> DEFINE Own == \A c \in Controllers :
                    (pc[c] = "stopClear" /\ pc'[c] = "stopUnref" /\ rec'.pipeline # rec.pipeline)
                      => rec.pipeline = held[c]
<1>1. IInv /\ [Next]_vars => Own
  <2> SUFFICES ASSUME IInv, [Next]_vars, NEW c \in Controllers,
                      pc[c] = "stopClear", pc'[c] = "stopUnref", rec'.pipeline # rec.pipeline
               PROVE  rec.pipeline = held[c]
    OBVIOUS
  <2>1. ASSUME NEW d \in Controllers, Call(d) PROVE FALSE
    BY <2>1 DEF Call, CallApply, CallStop
  <2>2. ASSUME NEW u \in Pushers, Video(u) PROVE FALSE
    BY <2>2 DEF Video, SeeActive, PushRefused, PushBegin, PushEnd
  <2>3. ASSUME NEW p \in Pipes, Stream(p) PROVE FALSE
    BY <2>3 DEF Stream, FileComplete, PostEos, PostError
  <2>4. ASSUME NEW d \in Controllers, Control(d) PROVE rec.pipeline = held[c]
    <3>1. CASE d # c
      BY <2>4, <3>1
      DEF IInv, TypeOK, Threads, Control, ApplyLock, Build, ParseFails, LaunchFails, Launch,
          AwaitOk, AwaitFail, StopInactive, StopBegin, WaitEos, StopClear, StopUnref, Goto, Return
    <3>2. CASE StopClear(c)
      BY <3>2 DEF StopClear, StillCurrent
    <3>3. QED
      BY <2>4, <3>1, <3>2
      DEF Control, ApplyLock, Build, ParseFails, LaunchFails, Launch, AwaitOk, AwaitFail,
          StopInactive, StopBegin, WaitEos, StopUnref
  <2>5. QED
    BY <2>1, <2>2, <2>3, <2>4 DEF Next, vars
<1>2. QED
  BY <1>1, Invariance, PTL DEF Spec, SafeSpec, StopEndsItsOwn
----------------------------------------------------------------------------
(* Refinement *)

(* Clearing the pipeline ends its session. *)
LEMMA ClearEnds ==
  ASSUME rec.pipeline \in Pipes, ClearLocked(rec.pipeline), UNCHANGED sinks
  PROVE  Session!Next
<1>1. Session!End(rec.pipeline)
  BY DEF ClearLocked, ClearedRec, Session!End
<1>2. QED
  BY <1>1 DEF Session!Next

(* A pipeline that comes up is the start of a session. *)
LEMMA LaunchStarts ==
  ASSUME IInv, NEW c \in Controllers, NEW p \in Pipes, NEW s \in {"ready", "paused"},
         NEW f \in {"none", "writing"}, Launch(c, p, s, f)
  PROVE  Session!Next
<1>1. /\ rec.pipeline = NoPipe /\ sinks[p] = {}
      /\ goal[c] # {} /\ goal[c] \in SUBSET Session!Outputs
  BY RecorderAssumption
  DEF RecorderAssumption, IInv, TypeOK, Sinks, LockInv, RecInv, PipeInv, Launch, Session!Outputs
<1>2. rec'.pipeline = p
  BY DEF IInv, TypeOK, Launch
<1>3. Session!Start(p, goal[c], f)
  BY <1>1, <1>2 DEF Launch, Session!Start
<1>4. QED
  BY <1>1, <1>3 DEF Session!Next

(* A pipeline that does not come up is the failed start of a session. *)
LEMMA LaunchFailsAsStart ==
  ASSUME IInv, NEW c \in Controllers, NEW p \in Pipes, NEW f \in {"none", "broken"},
         LaunchFails(c, p, f)
  PROVE  Session!Next
<1>1. /\ rec.pipeline = NoPipe /\ sinks[p] = {}
      /\ goal[c] # {} /\ goal[c] \in SUBSET Session!Outputs
  BY RecorderAssumption
  DEF RecorderAssumption, IInv, TypeOK, Sinks, LockInv, RecInv, PipeInv, LaunchFails,
      Session!Outputs
<1>2. rec'.pipeline = NoPipe
  BY DEF LaunchFails, ClearedRec
<1>3. Session!StartFails(p, goal[c], f)
  BY <1>1, <1>2 DEF LaunchFails, Session!StartFails
<1>4. QED
  BY <1>1, <1>3 DEF Session!Next

(* A step of start or of stop starts or ends a session, or is not seen. *)
LEMMA ControlRefines ==
  ASSUME IInv, NEW c \in Controllers, Control(c)
  PROVE  [Session!Next]_(Session!vars)
<1>1. CASE ApplyLock(c)
  <2>1. CASE rec.active
    <3>1. rec.pipeline \in Pipes
      BY <2>1 DEF IInv, TypeOK, RecInv
    <3>2. QED
      BY <1>1, <2>1, <3>1, ClearEnds DEF ApplyLock, ReplacesActive
  <2>2. CASE ~rec.active
    BY <1>1, <2>2 DEF ApplyLock, ReplacesActive, Session!vars
  <2>3. QED
    BY <2>1, <2>2
<1>2. CASE Build(c)
  <2>1. CASE ParseFails(c)
    BY <2>1 DEF ParseFails, pipeVars, Session!vars
  <2>2. ASSUME NEW p \in NewPipe, NEW f \in {"none", "broken"}, LaunchFails(c, p, f)
        PROVE  Session!Next
    BY <2>2, LaunchFailsAsStart DEF NewPipe, Fresh
  <2>3. ASSUME NEW p \in NewPipe, NEW s \in {"ready", "paused"}, NEW f \in {"none", "writing"},
               Launch(c, p, s, f)
        PROVE  Session!Next
    BY <2>3, LaunchStarts DEF NewPipe, Fresh
  <2>4. QED
    BY <1>2, <2>1, <2>2, <2>3 DEF Build
<1>3. CASE AwaitOk(c)
  BY <1>3 DEF IInv, TypeOK, AwaitOk, pipeVars, Session!vars
<1>4. CASE AwaitFail(c)
  <2>1. rec.pipeline \in Pipes
    BY <1>4, RecorderAssumption DEF RecorderAssumption, IInv, TypeOK, LockInv, RecInv, AwaitFail
  <2>2. QED
    BY <1>4, <2>1, ClearEnds DEF AwaitFail
<1>5. CASE StopClear(c)
  <2>1. CASE rec.pipeline = held[c]
    <3>1. rec.pipeline \in Pipes
      BY <1>5, <2>1 DEF IInv, TypeOK, LockInv, HeldInv, Threads, StopClear
    <3>2. QED
      BY <1>5, <2>1, <3>1, ClearEnds DEF StopClear, StillCurrent
  <2>2. CASE rec.pipeline # held[c]
    BY <1>5, <2>2 DEF StopClear, StillCurrent, Session!vars
  <2>3. QED
    BY <2>1, <2>2
<1>6. CASE StopInactive(c) \/ StopBegin(c) \/ WaitEos(c) \/ StopUnref(c)
  BY <1>6 DEF StopInactive, StopBegin, WaitEos, StopUnref, pipeVars, Session!vars
<1>7. QED
  BY <1>1, <1>2, <1>3, <1>4, <1>5, <1>6 DEF Control

(* Every step of the recorder is a step of RecordingSession or a stutter. *)
LEMMA NextRefines == IInv /\ [Next]_vars => [Session!Next]_(Session!vars)
<1> SUFFICES ASSUME IInv, [Next]_vars PROVE [Session!Next]_(Session!vars)
  OBVIOUS
<1>1. ASSUME NEW c \in Controllers, Call(c) PROVE UNCHANGED Session!vars
  BY <1>1 DEF Call, CallApply, CallStop, pipeVars, Session!vars
<1>2. ASSUME NEW c \in Controllers, Control(c) PROVE [Session!Next]_(Session!vars)
  BY <1>2, ControlRefines
<1>3. ASSUME NEW u \in Pushers, Video(u) PROVE UNCHANGED Session!vars
  BY <1>3 DEF Video, SeeActive, PushRefused, PushBegin, PushEnd, pipeVars, Session!vars
<1>4. ASSUME NEW p \in Pipes, Stream(p) PROVE [Session!Next]_(Session!vars)
  <2>1. CASE FileComplete(p)
    <3>1. Session!Complete(p)
      BY <2>1 DEF IInv, PipeInv, FileComplete, Session!Complete
    <3>2. QED
      BY <3>1 DEF Session!Next
  <2>2. CASE PostEos(p) \/ PostError(p)
    BY <2>2 DEF PostEos, PostError, Session!vars
  <2>3. QED
    BY <1>4, <2>1, <2>2 DEF Stream
<1>5. CASE UNCHANGED vars
  BY <1>5 DEF vars, Session!vars
<1>6. QED
  BY <1>1, <1>2, <1>3, <1>4, <1>5 DEF Next

(* The recorder implements RecordingSession: whatever its threads do, what   *)
(* the rest of the program sees is one session after the other.             *)
THEOREM RecorderImplementsSession == Spec => ImplementsSession
<1>1. Init => Session!Init
  BY DEF Init, Session!Init
<1>2. QED
  BY <1>1, NextRefines, Invariance, PTL DEF Spec, SafeSpec, ImplementsSession, Session!Spec
=============================================================================
