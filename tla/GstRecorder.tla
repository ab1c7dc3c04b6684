----------------------------- MODULE GstRecorder -----------------------------
(***************************************************************************)
(* src/src/gst_recorder.c: one GStreamer pipeline (appsrc, encoder, then   *)
(* an MP4 file, an RTSP push, or a tee to both), rebuilt whenever the set  *)
(* of outputs changes.                                                     *)
(*                                                                         *)
(* Control threads call gst_recorder_apply and gst_recorder_stop; the      *)
(* video thread calls gst_recorder_is_active and gst_recorder_push_frame.  *)
(* rec->lock protects the fields of gst_recorder_t.  Two stretches run     *)
(* without it: gst_recorder_stop waiting up to 5 s for the end-of-stream   *)
(* message, and gst_recorder_push_frame copying the frame and pushing it.  *)
(*                                                                         *)
(* A critical section that waits for nothing is one action.  The section   *)
(* of gst_recorder_apply, which waits up to 2 s for the new pipeline, is   *)
(* ApplyLock, then Launch, then AwaitOk or AwaitFail.                      *)
(*                                                                         *)
(* GStreamer is external: a pipeline object is known by its state, the     *)
(* first message pending on its bus and its reference counts.  Pipelines   *)
(* are never reused; Pipes bounds how many can be built.                   *)
(***************************************************************************)
EXTENDS Naturals, FiniteSets

CONSTANTS Controllers,  \* threads that call apply and stop
          Pushers,      \* threads that push frames
          Pipes,        \* identities of pipeline objects
          NoPipe,       \* the NULL pointer
          NoThread,     \* rec->lock is free
          Faults        \* what the environment may do wrong

ASSUME RecorderAssumption ==
  /\ IsFiniteSet(Controllers) /\ IsFiniteSet(Pushers)
  /\ Controllers \cap Pushers = {}
  /\ NoThread \notin Controllers \cup Pushers
  /\ NoPipe \notin Pipes
  /\ Faults \subseteq {"build", "pipe", "eos", "frame"}

VARIABLES lock,      \* rec->lock: its holder
          rec,       \* the fields of gst_recorder_t
          pc,        \* where each thread is
          held,      \* the local `pipeline` of a stop, `appsrc` of a push
          goal,      \* the outputs a gst_recorder_apply was called with
          verdict,   \* what the last call of each control thread returned
          state,     \* of each pipeline object
          sinks,     \* what each pipeline feeds
          bus,       \* first message pending on each pipeline's bus
          refs,      \* references to each pipeline object
          srcRefs,   \* references to its appsrc, but for the pipeline's own
          mp4        \* the file a pipeline writes

callVars == <<lock, pc, held, goal, verdict>>
pipeVars == <<state, sinks, bus, refs, srcRefs, mp4>>
vars == <<lock, rec, pc, held, goal, verdict, state, sinks, bus, refs, srcRefs, mp4>>

Threads == Controllers \cup Pushers
Sinks == {"record", "stream"}
States == {"unborn", "ready", "paused", "playing", "draining", "ended", "failed", "null"}

TypeOK ==
  /\ lock \in Threads \cup {NoThread}
  /\ rec \in [pipeline : Pipes \cup {NoPipe}, appsrc : Pipes \cup {NoPipe},
              active : BOOLEAN, recording : BOOLEAN, streaming : BOOLEAN]
  /\ pc \in [Threads -> {"idle", "apply", "build", "await", "stop", "waitEos",
                         "stopClear", "stopUnref", "push", "copy"}]
  /\ held \in [Threads -> Pipes \cup {NoPipe}]
  /\ goal \in [Controllers -> SUBSET Sinks]
  /\ verdict \in [Controllers -> {"ok", "fail"}]
  /\ state \in [Pipes -> States]
  /\ sinks \in [Pipes -> SUBSET Sinks]
  /\ bus \in [Pipes -> {"none", "error", "eos"}]
  /\ refs \in [Pipes -> Nat]
  /\ srcRefs \in [Pipes -> Nat]
  /\ mp4 \in [Pipes -> {"none", "writing", "complete", "broken"}]

(* Faulty variant: the reset of `active` forgotten. *)
ClearedRecKeepsActive ==
  [pipeline |-> NoPipe, appsrc |-> NoPipe, active |-> rec.active,
   recording |-> FALSE, streaming |-> FALSE]

(* How gst_recorder_clear_locked leaves rec. *)
ClearedRec ==
  [pipeline |-> NoPipe, appsrc |-> NoPipe, active |-> FALSE,
   recording |-> FALSE, streaming |-> FALSE]

Init ==
  /\ lock = NoThread
  /\ rec = [pipeline |-> NoPipe, appsrc |-> NoPipe, active |-> FALSE,
            recording |-> FALSE, streaming |-> FALSE]
  /\ pc = [t \in Threads |-> "idle"]
  /\ held = [t \in Threads |-> NoPipe]
  /\ goal = [c \in Controllers |-> {}]
  /\ verdict = [c \in Controllers |-> "ok"]
  /\ state = [p \in Pipes |-> "unborn"]
  /\ sinks = [p \in Pipes |-> {}]
  /\ bus = [p \in Pipes |-> "none"]
  /\ refs = [p \in Pipes |-> 0]
  /\ srcRefs = [p \in Pipes |-> 0]
  /\ mp4 = [p \in Pipes |-> "none"]

Goto(t, label) == pc' = [pc EXCEPT ![t] = label]

Return(c, v) ==
  /\ Goto(c, "idle")
  /\ goal' = [goal EXCEPT ![c] = {}]
  /\ verdict' = [verdict EXCEPT ![c] = v]

----------------------------------------------------------------------------
(* gst_recorder_clear_locked on a pipeline that is there: set it to NULL    *)
(* (which flushes its bus and closes the file as it is), drop the reference *)
(* of rec and reset the fields.  rec->appsrc is forgotten, not unreferenced.*)
ClearLocked(p) ==
  /\ rec' = ClearedRec
  /\ state' = [state EXCEPT ![p] = "null"]
  /\ bus' = [bus EXCEPT ![p] = "none"]
  /\ refs' = [refs EXCEPT ![p] = @ - 1]
  /\ mp4' = [mp4 EXCEPT ![p] = IF @ = "writing" THEN "broken" ELSE @]

----------------------------------------------------------------------------
(* gst_recorder_apply(rec, record_path, rtsp_url, ...): S is the set of     *)
(* outputs whose argument is not NULL.  With none it is gst_recorder_stop.  *)
(* Width, height and fps are positive in this program (main.c sets them).   *)
CallApply(c, S) ==
  /\ pc[c] = "idle"
  /\ goal' = [goal EXCEPT ![c] = S]
  /\ Goto(c, IF S = {} THEN "stop" ELSE "apply")
  /\ UNCHANGED <<lock, rec, held, verdict, pipeVars>>

(* Faulty variant: an apply that never clears what runs. *)
ReplacesActiveNever == FALSE

ReplacesActive == rec.active

ApplyLock(c) ==
  /\ pc[c] = "apply"
  /\ lock = NoThread
  /\ lock' = c
  /\ Goto(c, "build")
  /\ IF ReplacesActive
       THEN ClearLocked(rec.pipeline)
       ELSE UNCHANGED <<rec, state, bus, refs, mp4>>
  /\ UNCHANGED <<held, goal, verdict, sinks, srcRefs>>

(* gst_parse_launch refuses the description: there is no pipeline object.   *)
ParseFails(c) ==
  /\ "build" \in Faults
  /\ pc[c] = "build"
  /\ lock' = NoThread
  /\ Return(c, "fail")
  /\ UNCHANGED <<rec, held, pipeVars>>

(* The pipeline exists, but has no appsrc or refuses PLAYING: it is cleared. *)
(* It may have created its file by then.                                    *)
LaunchFails(c, p, f) ==
  /\ "build" \in Faults
  /\ pc[c] = "build"
  /\ state[p] = "unborn"
  /\ f = "broken" => "record" \in goal[c]
  /\ lock' = NoThread
  /\ Return(c, "fail")
  /\ rec' = ClearedRec
  /\ state' = [state EXCEPT ![p] = "null"]
  /\ sinks' = [sinks EXCEPT ![p] = goal[c]]
  /\ mp4' = [mp4 EXCEPT ![p] = f]
  /\ \E r \in {0, 1} : srcRefs' = [srcRefs EXCEPT ![p] = r]
  /\ UNCHANGED <<held, bus, refs>>

(* The pipeline is asked to play.  A live appsrc takes it to PAUSED; it     *)
(* plays once it gets a frame.  With faults it may hang in READY.           *)
Launch(c, p, s, f) ==
  /\ pc[c] = "build"
  /\ state[p] = "unborn"
  /\ s = "ready" => "build" \in Faults
  /\ s = "paused" => (f = "writing" <=> "record" \in goal[c])
  /\ f = "writing" => "record" \in goal[c]
  /\ Goto(c, "await")
  /\ rec' = [rec EXCEPT !.pipeline = p, !.appsrc = p]
  /\ state' = [state EXCEPT ![p] = s]
  /\ sinks' = [sinks EXCEPT ![p] = goal[c]]
  /\ refs' = [refs EXCEPT ![p] = 1]
  /\ srcRefs' = [srcRefs EXCEPT ![p] = 1]
  /\ mp4' = [mp4 EXCEPT ![p] = f]
  /\ UNCHANGED <<lock, held, goal, verdict, bus>>

(* Faulty variant: a start that waits for PLAYING. *)
AcceptsOnlyPlaying(p) == state[p] = "playing"

(* What gst_element_get_state must report for the start to succeed: PAUSED  *)
(* is accepted, because frames are only pushed once rec->active is set and  *)
(* rec->lock is still held here.                                            *)
Accepts(p) == state[p] \in {"paused", "playing", "failed"}

AwaitOk(c) ==
  /\ pc[c] = "await"
  /\ Accepts(rec.pipeline)
  /\ rec' = [rec EXCEPT !.recording = "record" \in goal[c],
                        !.streaming = "stream" \in goal[c],
                        !.active = TRUE]
  /\ lock' = NoThread
  /\ Return(c, "ok")
  /\ UNCHANGED <<held, pipeVars>>

(* FAILURE, or still below PAUSED after two seconds. *)
AwaitFail(c) ==
  /\ pc[c] = "await"
  /\ state[rec.pipeline] \in {"ready", "failed"}
  /\ ClearLocked(rec.pipeline)
  /\ lock' = NoThread
  /\ Return(c, "fail")
  /\ UNCHANGED <<held, sinks, srcRefs>>
----------------------------------------------------------------------------
(* gst_recorder_stop(rec) *)
CallStop(c) ==
  /\ pc[c] = "idle"
  /\ Goto(c, "stop")
  /\ UNCHANGED <<lock, rec, held, goal, verdict, pipeVars>>

StopInactive(c) ==
  /\ pc[c] = "stop"
  /\ lock = NoThread
  /\ ~rec.active \/ rec.pipeline = NoPipe
  /\ Return(c, "ok")
  /\ UNCHANGED <<lock, rec, held, pipeVars>>

(* Faulty variant: a stop without a reference of its own. *)
TakeNoRef(p) == UNCHANGED refs

TakeRef(p) == refs' = [refs EXCEPT ![p] = @ + 1]

(* First section: take a reference, send the end of stream into the appsrc. *)
StopBegin(c) ==
  /\ pc[c] = "stop"
  /\ lock = NoThread
  /\ rec.active /\ rec.pipeline # NoPipe
  /\ held' = [held EXCEPT ![c] = rec.pipeline]
  /\ TakeRef(rec.pipeline)
  /\ state' = [state EXCEPT ![rec.pipeline] =
                 IF @ \in {"paused", "playing"} THEN "draining" ELSE @]
  /\ Goto(c, "waitEos")
  /\ UNCHANGED <<lock, rec, goal, verdict, sinks, bus, srcRefs, mp4>>

(* Faulty variant: a timeout taken for an end of stream. *)
VerdictOfAnything(msg) == IF msg = "error" THEN "fail" ELSE "ok"

(* gst_recorder_wait_eos: what the first message, or none after 5 s, means. *)
VerdictOf(msg) == IF msg = "eos" THEN "ok" ELSE "fail"

WaitEos(c) ==
  /\ pc[c] = "waitEos"
  /\ bus[held[c]] = "none" => "eos" \in Faults \/ state[held[c]] # "draining"
  /\ verdict' = [verdict EXCEPT ![c] = VerdictOf(bus[held[c]])]
  /\ bus' = [bus EXCEPT ![held[c]] = "none"]
  /\ Goto(c, "stopClear")
  /\ UNCHANGED <<lock, rec, held, goal, state, sinks, refs, srcRefs, mp4>>

(* Faulty variant: a stop that clears whatever is there. *)
StillCurrentAlways(c) == rec.pipeline # NoPipe

(* Second section: clear, unless another thread has replaced the pipeline.  *)
StillCurrent(c) == rec.pipeline = held[c]

StopClear(c) ==
  /\ pc[c] = "stopClear"
  /\ lock = NoThread
  /\ IF StillCurrent(c)
       THEN ClearLocked(rec.pipeline)
       ELSE UNCHANGED <<rec, state, bus, refs, mp4>>
  /\ Goto(c, "stopUnref")
  /\ UNCHANGED <<lock, held, goal, verdict, sinks, srcRefs>>

StopUnref(c) ==
  /\ pc[c] = "stopUnref"
  /\ refs' = [refs EXCEPT ![held[c]] = @ - 1]
  /\ held' = [held EXCEPT ![c] = NoPipe]
  /\ Goto(c, "idle")
  /\ UNCHANGED <<lock, rec, goal, verdict, state, sinks, bus, srcRefs, mp4>>
----------------------------------------------------------------------------
(* The video thread: gst_recorder_is_active, then gst_recorder_push_frame.  *)
SeeActive(u) ==
  /\ pc[u] = "idle"
  /\ lock = NoThread
  /\ rec.active
  /\ Goto(u, "push")
  /\ UNCHANGED <<lock, rec, held, goal, verdict, pipeVars>>

(* The recorder was stopped in between, or the frame is too small.          *)
PushRefused(u) ==
  /\ pc[u] = "push"
  /\ lock = NoThread
  /\ ~rec.active \/ rec.appsrc = NoPipe \/ "frame" \in Faults
  /\ Goto(u, "idle")
  /\ UNCHANGED <<lock, rec, held, goal, verdict, pipeVars>>

PushBegin(u) ==
  /\ pc[u] = "push"
  /\ lock = NoThread
  /\ rec.active /\ rec.appsrc # NoPipe
  /\ held' = [held EXCEPT ![u] = rec.appsrc]
  /\ srcRefs' = [srcRefs EXCEPT ![rec.appsrc] = @ + 1]
  /\ Goto(u, "copy")
  /\ UNCHANGED <<lock, rec, goal, verdict, state, sinks, bus, refs, mp4>>

(* The copy is made and pushed without the lock, into whatever has become   *)
(* of that appsrc: one that has seen its end of stream, has failed or has   *)
(* been set to NULL refuses the buffer.  Allocation can fail as well.       *)
PushEnd(u, taken) ==
  /\ pc[u] = "copy"
  /\ IF state[held[u]] \in {"paused", "playing"}
       THEN taken \/ "frame" \in Faults
       ELSE ~taken
  /\ state' = IF taken THEN [state EXCEPT ![held[u]] = "playing"] ELSE state
  /\ srcRefs' = [srcRefs EXCEPT ![held[u]] = @ - 1]
  /\ held' = [held EXCEPT ![u] = NoPipe]
  /\ Goto(u, "idle")
  /\ UNCHANGED <<lock, rec, goal, verdict, sinks, bus, refs, mp4>>
----------------------------------------------------------------------------
(* GStreamer's own threads. *)

(* After the end of stream mp4mux writes its index: the file is playable.   *)
FileComplete(p) ==
  /\ state[p] = "draining"
  /\ mp4[p] = "writing"
  /\ mp4' = [mp4 EXCEPT ![p] = "complete"]
  /\ UNCHANGED <<callVars, rec, state, sinks, bus, refs, srcRefs>>

(* Every sink has seen the end of stream: the bin posts it on the bus.      *)
PostEos(p) ==
  /\ state[p] = "draining"
  /\ mp4[p] # "writing"
  /\ state' = [state EXCEPT ![p] = "ended"]
  /\ bus' = [bus EXCEPT ![p] = "eos"]
  /\ UNCHANGED <<callVars, rec, sinks, refs, srcRefs, mp4>>

(* An element fails: disk full, RTSP server gone, encoder error.            *)
PostError(p) ==
  /\ "pipe" \in Faults
  /\ state[p] \in {"paused", "playing", "draining"}
  /\ state' = [state EXCEPT ![p] = "failed"]
  /\ bus' = [bus EXCEPT ![p] = "error"]
  /\ UNCHANGED <<callVars, rec, sinks, refs, srcRefs, mp4>>
----------------------------------------------------------------------------
(* gst_parse_launch makes a new object; which one makes no difference. *)
Fresh == {p \in Pipes : state[p] = "unborn"}

NewPipe == {p \in Fresh : p = CHOOSE q \in Fresh : TRUE}

Build(c) ==
  \/ ParseFails(c)
  \/ \E p \in NewPipe :
       \/ \E f \in {"none", "broken"} : LaunchFails(c, p, f)
       \/ \E s \in {"ready", "paused"}, f \in {"none", "writing"} : Launch(c, p, s, f)

(* The steps of a control thread inside a call. *)
Control(c) ==
  \/ ApplyLock(c) \/ Build(c) \/ AwaitOk(c) \/ AwaitFail(c)
  \/ StopInactive(c) \/ StopBegin(c) \/ WaitEos(c) \/ StopClear(c) \/ StopUnref(c)

Video(u) ==
  \/ SeeActive(u) \/ PushRefused(u) \/ PushBegin(u)
  \/ \E taken \in BOOLEAN : PushEnd(u, taken)

Stream(p) == FileComplete(p) \/ PostEos(p) \/ PostError(p)

(* The bound Pipes: outputs are only asked for while a fresh pipeline is     *)
(* left for every apply that has not built its own yet.                     *)
Building == {c \in Controllers : pc[c] \in {"apply", "build"}}

CanBuild == Cardinality(Building) < Cardinality(Fresh)

Call(c) ==
  \/ \E S \in SUBSET Sinks : (S = {} \/ CanBuild) /\ CallApply(c, S)
  \/ CallStop(c)

Next ==
  \/ \E c \in Controllers : Call(c) \/ Control(c)
  \/ \E u \in Pushers : Video(u)
  \/ \E p \in Pipes : Stream(p)

(* Calls run on: the mutex is handed to a waiter in the end (the video      *)
(* thread holds it for moments, once a frame), and GStreamer drains a       *)
(* pipeline that got its end of stream.                                     *)
Fairness ==
  /\ \A c \in Controllers : SF_vars(Control(c))
  /\ \A p \in Pipes : WF_vars(FileComplete(p) \/ PostEos(p))

SafeSpec == Init /\ [][Next]_vars
Spec == SafeSpec /\ Fairness
----------------------------------------------------------------------------
(* Properties *)

(* The control threads that stand between taking and giving back their      *)
(* reference to p, and the pushers between theirs to its appsrc.            *)
Stoppers(p) == {c \in Controllers : held[c] = p}
Feeders(p) == {u \in Pushers : held[u] = p}

(* gst_recorder_t read under rec->lock is consistent: the pointers, `active` *)
(* and the outputs it claims all describe the same pipeline, or none.       *)
FieldsAgree ==
  lock = NoThread =>
    /\ rec.appsrc = rec.pipeline
    /\ rec.active <=> rec.pipeline # NoPipe
    /\ rec.active => {x \in Sinks : \/ x = "record" /\ rec.recording
                                    \/ x = "stream" /\ rec.streaming}
                     = sinks[rec.pipeline]
    /\ ~rec.active => ~rec.recording /\ ~rec.streaming

(* No two pipelines are ever alive together, whatever calls overlap: they   *)
(* would write the same MP4 path and publish to the same RTSP path.         *)
OneLivePipeline ==
  \A p \in Pipes : state[p] \notin {"unborn", "null"} => rec.pipeline = p

(* Reference counts are exact: a pipeline that gst_recorder_stop waits on   *)
(* is never freed under it, an appsrc never under a push, and a pipeline    *)
(* that nobody uses any more is freed.  (An appsrc is not: the reference of *)
(* gst_bin_get_by_name is never given back.)                                *)
RefsExact ==
  \A p \in Pipes :
    /\ refs[p] = Cardinality(Stoppers(p)) + (IF rec.pipeline = p THEN 1 ELSE 0)
    /\ (rec.appsrc = p \/ Feeders(p) # {}) => srcRefs[p] = Cardinality(Feeders(p)) + 1

(* gst_recorder_stop keeps what it promises with the value 0: it has seen   *)
(* the end of stream, so the file of the pipeline it is about to tear down  *)
(* is complete.                                                             *)
EosBeforeTeardown ==
  \A c \in Controllers :
    (pc[c] = "stopClear" /\ verdict[c] = "ok") => mp4[held[c]] \in {"none", "complete"}

(* A stop that waited without the lock never tears down a pipeline that an  *)
(* overlapping apply has put in the place of the one it drained.            *)
StopEndsItsOwn ==
  [][\A c \in Controllers :
       (pc[c] = "stopClear" /\ pc'[c] = "stopUnref" /\ rec'.pipeline # rec.pipeline)
         => rec.pipeline = held[c]]_vars

(* Every call returns: the wait for PAUSED under the lock does not wait for *)
(* frames that only come once the lock is free, and the wait for the end of *)
(* stream is bounded.                                                       *)
CallsReturn == \A c \in Controllers : pc[c] # "idle" ~> pc[c] = "idle"

(* The recorder implements the sequence of sessions it promises.            *)
Session == INSTANCE RecordingSession
             WITH Sessions <- Pipes, NoSession <- NoPipe,
                  current <- rec.pipeline, outputs <- sinks, file <- mp4

ImplementsSession == Session!Spec
=============================================================================
