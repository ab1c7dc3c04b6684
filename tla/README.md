# Verification of rk3568-ipc-demo

TLA+ models of the camera program `capture` (src/src) and its surroundings,
checked with TLC on small instances; the safety of every component, and of the
commands that drive the recorder and MediaMTX together, is also proved with
TLAPS for every instance. Source lines are those of the repository; `PROJECT.json` maps
every definition to them.

## The system

One process with up to four threads, and a child process.

| Component | State | Operations | Modelled in |
|---|---|---|---|
| GStreamer recorder, `gst_recorder.c` | one pipeline, its appsrc, `active`, `recording`, `streaming`, under `rec->lock` | apply, stop, push_frame, is_active/is_recording/is_streaming, deinit | `GstRecorder`, abstractly `RecordingSession` |
| MediaMTX manager, `mediamtx_manager.c` | `pid`, `started_by_us`; the child process | init, start, stop (is_active has no caller) | `MediaMtx` |
| Application state, `app_state.c` | `monitor.recording`, `monitor.streaming` under `monitor.lock` | start/stop recording, start/stop streaming, `app_sync_media_pipeline` | `MediaControl` |
| V4L2 capture, `v4l2_capture.c` | descriptor, mapped buffers, the buffer lent to the caller | open, start, read_frame, stop, close | `V4l2Capture` |
| main, threads, signals, `main.c` | `g_running`, which part of the start or the exit runs | options, thread creation and joins, `on_signal`, the video loop, the limit `-n` | `Lifecycle`; its media in `MediaControl`, its camera in `V4l2Capture` |
| HTTP server, `http_server.c` | listening socket, one connection at a time | GET /status, four POST commands, static files, stop | socket, thread and connections in `Lifecycle`, commands in `MediaControl` |
| Monitor, `monitor.c` | frame counters, `no_frame_seconds`, `stream_lost` | on_frame (video thread), tick (monitor thread) | `Monitor`, abstractly `FrameWatch`; the thread in `Lifecycle` |
| Web page, `web/app.js` | what the page shows | poll once a second, four buttons | `WebUi` |
| `scripts/rtsp_push.sh` | two child processes | start, fallbacks, traps | `RtspPush` |
| install scripts, Makefile, `test-launch.c`, `mediamtx.yml` | none | | not modelled: no state of this program |

How they interact:

- The video thread reads a lent frame from the V4L2 driver, counts it in the
  monitor, and pushes a copy of it into the recorder's appsrc.
- Exactly one thread at a time gives commands: main (options `-r`, `--stream`)
  before the others exist, the HTTP thread while the program serves, main again
  after the joins. A command sets a flag under `monitor.lock`, a stream start
  makes sure of MediaMTX first, and `app_sync_media_pipeline` makes the recorder
  produce what the flags say: a new pipeline for another set of outputs, a stop
  for none.
- A signal or the frame limit clears `g_running` and `monitor.running`; main
  joins the threads, stops the recorder and MediaMTX, and closes the camera.

What is hard here: calls of two threads in the recorder while the stop waits
without its lock; a start that fails half way; an end of stream that never
comes; a child process that dies, boots slowly or is not the one that answers on
the port; flags that outlive what they describe; a lent buffer; a device that
goes away. The list with its lines is `hazards` in `PROJECT.json`, and each
entry names the properties aimed at it.

## Modules

### RecordingSession

The recorder's promise with no lock, thread or reference in it: sessions one
after the other, each with its outputs fixed at its start, its MP4 file completed
while the session runs or lost with it.

### GstRecorder

`rec` is `gst_recorder_t`; `lock` is `rec->lock`; `pc[t]` is where a thread is in
its call; `held[t]` is the local `pipeline` of a stop or `appsrc` of a push,
taken together with a reference. A critical section that waits for nothing is one
action; a section of `gst_recorder_apply` is `ApplyLock`, then `ParseFails`,
`LaunchFails` or `Launch`, then `AwaitOk` or `AwaitFail`, because it waits up to
2 s with the lock held. A stop is `StopBegin` (lock, reference, end of stream,
unlock), `WaitEos`, `StopClear` (lock again, is it still the same pipeline?),
`StopUnref`.

GStreamer is external. A pipeline object has a state
(`unborn`, `ready`, `paused`, `playing`, `draining`, `ended`, `failed`, `null`),
the first message pending on its bus, the references to it and to its appsrc,
and the fate of its file: `writing` until mp4mux has seen the end of stream,
then `complete`, or `broken` when the pipeline is torn down first. A live
appsrc leaves it in `paused` until the first frame. An error sits on the bus
until a stop pops it, since nothing else reads the bus. The first message is
enough: a stop pops one message, and a pipeline that has failed does not reach
its end of stream.

`Faults` switches the failures: `build` (any step of a start), `pipe` (a runtime
error), `eos` (no end of stream within 5 s), `frame` (a push fails by itself).

The program has one control thread at a time. The model has two: the lock and the
check `rec->pipeline == pipeline` after the wait are there for overlapping calls,
and the properties that matter would be trivial without them. `MediaControl` uses
the recorder with one.

### MediaMtx

`mgr` is `mediamtx_manager_t`; `mpc` and `spawned` are the place and the local
`pid` of the call under way; `child[k]` is the life of a process
(`booting`, `listening`, `dying`, `zombie`, `reaped`). Each system call another
process may run before is a step of its own: probe, fork, the look one second
later, the second probe, the waits. `MtxFaults`: `fork`, `boot` (the child exits
by itself), `slow` (longer than the second), `crash`, `foreign` (somebody else's
server comes and goes), `probe` (no descriptor for the socket of the probe, so that
`tcp_port_listening` says that nothing listens: `PortListening`). `calm` is no state
of the code: it becomes false when another server comes or goes, or when the probe of
a start misses a server that is there, and the two properties about the program's own
servers speak of the time before. `KillsOwnChild`, `FailedStartLeavesNoChild` and
`WaitsForKilled` speak of all times.

### MediaControl

Composes the two (`R == INSTANCE GstRecorder` with one controller,
`M == INSTANCE MediaMtx`) with `app_state.c`, the options and the exit of
`main.c`, and the POST requests of `http_server.c`. `mon` is the set of flags,
`phase` and `at` where main and the command are. A request blocks the control
thread for as long as the recorder or the manager takes, as it does in the code.

A failing option takes the exit main has for it (`failing`): after a failed `-r`
only `gst_recorder_deinit`, after a failed `--stream` the stops as well. The
failures of `gst_recorder_init`, `mediamtx_manager_init` and the camera come
before anything runs, and have no state here.

`Already` is the early return of a start: the flag and the recorder are asked, so that
a flag that outlived its pipeline does not answer for it. `RepeatedStartHarmless`
follows a start whose output is there already: it leaves the pipeline alone, whereas
any other command on a running one rebuilds or stops it.

### V4l2Capture

`cap` is `v4l2_capture_t`; `buf[i]` says who has a buffer: the program, the
driver's queue, or the driver's queue of filled ones; `maps` is what is mapped;
`frame` is the pointer the video thread works on. `CapFaults` lets each group
of ioctls fail, and `unplug` makes the device disappear: then all of them fail on
the old descriptor, also when the camera is back as another device. The effect
of writing past `cap->buffers` is undefined, and the model stops there; a grant
of more than four buffers is left to "Seen while reading". Which filled buffer
DQBUF returns is left open.

### FrameWatch, Monitor

`FrameWatch` is the promise: every frame in one second, the rate of the last
whole second, a loss exactly while `Threshold` seconds in a row brought nothing.
`Monitor` is `monitor.c`, with the counters of `monitor_t` under their names.
`monitor_on_frame` is one action. The tick of `monitor_thread` is split between
the read of the count and its reset (`TakeCount`, `ResetAndJudge`), the place where
a frame would get lost; what keeps the video thread out is `LockFree`, the
lock, and not the atomicity of the model. Other holders of `monitor.lock` touch
none of these counters and are left to `Lifecycle`. `published` is the sum of all
rates shown, for `EveryFrameCounted` only.

### Lifecycle

The program from `monitor_init` to its exit: `at[t]` is where main, the video, the
monitor and the HTTP thread stand, `owner` is the holder of `monitor.lock`. A
critical section is two steps, `Lock` into it and `Unlock` out of it, because a
signal may come in between. What the media do in a command is `MediaControl`'s;
here a command takes the lock `todo` times.

A signal handler runs on the stack of any thread, at any of its places, and may
itself be interrupted: `act[i]` is the call of `http_server_stop` that the `i`-th
signal makes (`act[0]` is main's own at the end), with the descriptor it has read;
the thread below it stands still (`At` asks for an empty stack). `Stop` is that
function as it is: lock, read the descriptor, unlock, then `shutdown`, when the
HTTP thread may already have closed it. The number of a closed descriptor may be in use
again, by the next `fopen` of the log or by a socket of GStreamer's, and a late
`shutdown` may then hit that (`Shutdown`, `server_fd = "hit"`). `NoLateShutdown` says
that it never falls into the teardown: the HTTP thread takes its descriptor back
(`Withdrawn`) before it closes it, main's own call comes before the joins, and main
joins no thread with a handler on its stack. Before
`monitor_init` the static `g_app` is zero and the handler would work on
descriptor 0 (`listen_fd = "zero"`).

The HTTP thread binds, publishes its descriptor under the lock, polls, accepts,
receives, handles, answers and closes. A client connects, sends a request or
nothing, and may go away before (`left`) or after it (`sentLeft`); the second send
to one that has gone may raise SIGPIPE, which nothing in the program catches, and
the process is `killed` where it stands. `LifeFaults`: `setup`, `bind`, `poll`,
and `hangup` (`sentLeft`).

### RtspPush

`scripts/rtsp_push.sh` command by command: `place`, the two PID variables, and
`proc[c]` for each child. A background child runs before its PID is assigned. `trap`
is the command of `cleanup` under way, run by a signal between two commands, or
inside `wait`, which then fails (`broken`); after a trap of INT or TERM
the script goes on where it was, and the EXIT trap runs `cleanup` once more. The
installed tools are any set, `PushFaults` let a server be there from the start, come
and go, and children end by themselves. A signal that comes while a trap runs
interrupts its `wait` and runs `cleanup` nested in it; the model starts `trap` over,
since what the outer one still does after that finds no child alive.

### WebUi

`web/app.js` against the server: each request has a connection (`Slots`), with an
answer that arrives in any order, or never (`Fail`, while `net` is down). The status
is its flag `recording`, set by the two record buttons or by another client.

## Runs

| Run | Bounds | What it shows |
|---|---|---|
| `recorder` | 2 control threads, 1 video thread, 2 pipelines, all faults | the recorder's invariants, `StopEndsItsOwn`, that it implements `RecordingSession`, that every call returns |
| `mediamtx` | 3 forks, all faults, other servers on the port, probes that miss a server | the manager kills only its own child, failed starts leave none, the program's servers do not pile up, only killed children are waited for, calls return |
| `mediamtx_exit` | 2 forks, no faults | violated: a second start disowns the running child, which outlives the program |
| `control` | 3 pipelines, 2 forks, `build`, `pipe`, `eos`, `fork`, `slow` | outputs follow the flags, and are only begun as asked, no stream has its server killed under it, a repeated start leaves the pipeline alone, a clean exit, commands are answered |
| `status` | no fault but `build` | violated: /status reports a recording that failed to start |
| `file_lost` | no faults | violated: a stream command destroys the MP4 file of a running recording |
| `capture` | 4 buffers, 1 to 4 granted, all faults | a frame in use is stable, no buffer is lost, everything is released, frames go on |
| `monitor` | 5 frames, 5 silent seconds, threshold 3 | no frame is counted twice or not at all, a loss is shown exactly when there is one, a silence is found out, `FrameWatch` is implemented |
| `lifecycle` | 1 signal, 1 frame beyond the limit, `-n` 0 or 1, with and without HTTP, all faults | only the end takes the listener away, no shutdown of a reused descriptor in the teardown, no early end, main tears down alone, an end that was asked for comes, with two exceptions |
| `graceful_exit` | 1 signal, no HTTP server, no faults | violated: a signal in a critical section stops the program for ever |
| `rtsp_push` | 3 signals, every set of tools, all faults | no child outlives the script, one publisher at a time, cleanup waits only for what it has killed, the script does not hang |
| `web_ui` | 3 connections, 2 commands, 1 change by others | the page shows only what was reported, and catches up |

Why the bounds are enough. Two pipelines in `recorder` are one to be replaced and
one to replace it, which is all that two overlapping calls can relate; three
give the same results (1.5 million states) and are left out for time.
`control` has three, since a rebuild for a stream and another for its end,
in the middle of a recording, are its longest history. Three forks are a child
that has failed, one that is owned and one that follows it. Objects are never
reused, and a call that needs a fresh one is only made while there is one
(`CanBuild`, `CallStart`, `Affordable`); stops are never bounded. Four buffers are
the program's own number. In `control` a start of MediaMTX fails by its
fork, or by a slow child that it kills, which are the two ways the commands can tell
apart: with a child to end or without. Every other fault of the manager is in
`mediamtx`, where its calls return with all of them.

`monitor` sees each silence around the threshold of the code, two seconds past it,
and enough frames before, in and after it. In `lifecycle` one signal may come
at every step of every thread, beside main's own call of `http_server_stop`, which
is the overlap of two stops; the proofs cover any
number of signals and frames. With a limit of 1 there may be two frames before main
looks (`MoreFrames`), so that it sees the count on its limit or past it; a limit of 0
is none. `rtsp_push` needs the first signal for ffmpeg, the second for the fallback, and
a third inside the trap of either.
Three connections are two answers that overtake each other and a third request.

The type invariants are theorems, and no run repeats them.

`CHECK_DEADLOCK FALSE` is set where the system stops: MediaMtx, MediaControl and
Lifecycle when the program has exited, V4l2Capture when the device is closed,
RtspPush when the script is done. (In Lifecycle a thread that waits for itself
would be a deadlock too; `EndsUnlessHeld` says when that happens.)
`recorder`, `monitor` and `web_ui` never stop and check for deadlock.

A definition commented "Faulty variant" is not used by any specification: put in
the place of the definition after it, it is the bug that one of the properties
catches (PROJECT.json, "mutants").

Fairness. Threads run on (weak fairness of the manager, of the capture loop, and
of main's part of it). A control thread that wants `rec->lock` gets it in the
end, although the video thread takes it once a frame (strong fairness of
`Control`, `Work`): the video thread holds it for moments and then copies a
frame. GStreamer drains a pipeline that got its end of stream, unless `eos` lets
the wait time out; a child that is sent SIGTERM, or has just been started, gets
somewhere; the driver fills what it has, and a device that is there does not
refuse QBUF or DQBUF for ever (strong fairness of `Requeue` and `Dequeue`).
In Lifecycle each thread with the handlers on its stack has strong fairness
(`Run(t)`): it is scheduled, and `monitor.lock`, held for moments, is not kept from
it for ever. A thread in `recv` with a silent client has no step to be fair about.
The monitor thread ticks on (`Tick`). A script and its children run on, and
a child that got SIGTERM ends. The browser's timer goes on, and while requests
get through each is served and its answer applied.
Nothing is assumed of commands, signals, clients, faults, or an unplugged camera.

## What the violations say

- `mediamtx_exit`: POST /stream/stop does not stop MediaMTX; the next
  /stream/start finds it on its port and takes it for a foreign service
  (`started_by_us = 0`, `pid = -1`), so `mediamtx_manager_stop` does nothing at
  exit. docs/architecture.md:58 says it is cleaned up.
- `status`: `app_start_recording` sets the flag first and leaves it after a
  failure. docs/architecture.md:68 says /status tells whether a recording runs.
- `file_lost`: `gst_recorder_apply` clears an active pipeline without an end of
  stream. README.md:8 and :115 offer MP4 files and both outputs at once; in
  practice any stream command during a recording, also a /stream/stop with no
  stream, cuts the file off and starts it again from nothing.
- `graceful_exit`: `on_signal` calls `http_server_stop`, which locks `monitor.lock`.
  If the signal has interrupted the thread that holds it, the handler waits for the
  thread it runs on, and the others wait for the lock. docs/architecture.md:49
  gives main a graceful exit. `EndsUnlessHeld` in `lifecycle` shows that besides
  this only one thing keeps the program from ending: `recv` has no timeout
  (http_server.c:262), so a client that connects and says nothing holds the HTTP
  thread, and main in its join.

Seen while reading, and no violation of a run:

- src/src/v4l2_capture.h has neither `held_index` nor `bytesperline`, which
  v4l2_capture.c uses, so the tree does not compile as committed.
- The reference that `gst_bin_get_by_name` gives is never released, one appsrc
  for each pipeline (`srcRefs` counts it, and `RefsExact` leaves it out).
- A forked MediaMTX inherits the listening HTTP socket and the camera's
  descriptor, so one that outlives the program keeps port 8080 bound.
- v4l2_capture.c:120 takes over the count that REQBUFS grants, also above the four
  entries of the arrays (docs/architecture.md:56 speaks of four buffers).
- docs/architecture.md:30 and :47 promise a reconnection; after a failed read
  main.c:43 reads the same descriptor again, and nothing reopens the device
  (`V4l2Capture`: a device that is `back` is no better than one that is `gone`).
- `app_sync_media_pipeline` ignores what `gst_recorder_stop` returns (app_state.c:31):
  a stop whose end of stream timed out, and whose file is lost, is answered with 200.
- `streaming` stays set when the pipeline of a stream start fails (app_state.c:88); a
  later record start then builds both outputs and fails with the RTSP server.
- When the probe of a start gets no descriptor (mediamtx_manager.c:20), it forks a
  second child beside one that serves; if the next probe works, the first child
  answers it and the manager owns the second.
- A `http_server_stop` that has read the descriptor (http_server.c:186) may call
  `shutdown` after the HTTP thread has closed it and something else has been given its
  number, a connection of GStreamer's for instance. `NoLateShutdown` shows that this
  does not happen in the teardown.
- The bus of a pipeline is read only inside a stop (gst_recorder.c:16): when a
  recording fails on its way, /status reports it as running until the next command.
- http_server.c:33 sends without MSG_NOSIGNAL: a client that closes early can end
  the process by SIGPIPE, with no end of stream and with MediaMTX left over.
- main looks at the limit once a second (main.c:246), so up to a second of frames
  more than `-n` are captured (main.c:96, README.md:92).
- Ctrl+C in rtsp_push.sh ("Ctrl+C to stop", :157) kills ffmpeg, and the script takes
  that for a failure and starts the GStreamer publisher (:160); a second one ends it
  (`FallbackStops`).
- docs/architecture.md:73 lists POST /config, which http_server.c does not have.

## Proofs

Each proofs module has one inductive invariant `IInv`, one lemma for each
action or group of actions, and the theorems that follow from it. The assumptions
are those on the constants (`...Assumption`), true of every instance. TLC has
checked each `IInv` on a small instance before its proof.

`GstRecorder_proofs`, for any finite sets of control threads and pushers,
any set of pipelines and any faults, about `Spec`:
`TypeOK`, `FieldsAgree`, `OneLivePipeline`, `RefsExact`, `EosBeforeTeardown`,
`StopEndsItsOwn` and `ImplementsSession`. `TypeOK` alone is not
inductive, because a reference count must not fall below zero; that needs
`RefsExact`, which counts the threads that hold a pipeline, and those are only
known from where each thread stands (`HeldInv`). `FieldsAgree` speaks of
a free lock only: `RecInv` adds what holds in the middle of an apply
(`LockInv` says who that is). `PipeInv` ties a pipeline's life to `rec`: only the
current one is alive, a fresh one is untouched, and a file is decided before the
end of stream shows on the bus. `StopInv` carries that through the unlocked
wait of a stop. The four lemmas
`StopperTakes`, `StopperDrops`, `FeederTakes` and `FeederDrops` give the
cardinalities, with the library's facts on finite sets. The refinement needs no
more than `IInv`: clearing the pipeline is `End`, launching it `Start`, a failed
launch `StartFails`, and the rest of the steps stutter or complete the file.

`MediaMtx_proofs`, for any number of forks and any faults: `TypeOK`,
`KillsOwnChild`, `FailedStartLeavesNoChild`, and, until another server comes or
goes or a start's probe misses one, `OneServerAtMost` and `OwnsTheRunningChild`. The
child of the start under way is never the one that is owned (`SpawnInv`), and the two fields of the manager agree
(`OwnInv`); while it is calm the place of the call tells which child may run
(`ServerInv`, proved on top of `IInv`). `WaitsForKilled`, also on top of it, is the
safety half of `MtxCallsReturn`: `waitpid` has no time limit, and what it waits for
was sent SIGTERM.

`V4l2Capture_proofs`, for any length of the array, any grants within it and any
faults: `TypeOK`, `FrameStable`, `NoBufferLost`, `AllReleased`. `NoBufferLost` is
inductive with what is mapped (`MapInv`), when the driver streams (`StreamInv`) and
that the held buffer is the frame in use (`HeldInv`).

`Monitor_proofs`, for any threshold, any number of frames and silent seconds:
`TypeOK`, `EveryFrameCounted`, `LostMeansStill` and
`ImplementsFrameWatch`. A silence excludes frames (`SilenceInv`), and the count that
was read is still there when it is reset (`TickInv`), which is what the lock gives.

`Lifecycle_proofs`, for any number of signals, stacked on any threads, any frames,
limits and faults: `TypeOK`, `ListenerServes`, `NoLateShutdown`, `NoEarlyEnd`,
`TeardownIsAlone`. A handler lives on a thread that runs (`ActInv`), the joins
main has made stay true (`JoinInv`), and a thread that is out holds neither the
lock nor the socket (`SocketInv` and the clause on `owner` in `TypeOK`); so main is
alone. `NoLateShutdown` puts the three
together: main's call ends before its joins, the joined threads take their handlers
with them, and one on main's own stack reads a descriptor that was taken back.
`ListenerServes` covers the runs without the fault `poll` as well, which the run
`lifecycle` has. That a stop under way means cleared flags, as nothing sets them after
`monitor_init`, is `FlagInv`. `CommandsTakeTurns` follows from the same parts: no
request is handled while main works on its options or tears down, so that the
recorder and the manager have the one caller that `MediaControl` gives them.

`MediaControl_proofs`, for any number of pipelines, pushers and forks and any faults:
`TypeOK`, `OutputsFollowFlags`, `OutputsBegunAsAsked`, `ServerOutlivesStream`,
`RepeatedStartHarmless`, `CleanExit`. It takes over what is proved about the two
components:
`RP == INSTANCE GstRecorder_proofs WITH Controllers <- {ctl}` and
`MP == INSTANCE MediaMtx_proofs`, whose assumptions follow from `ControlAssumption`. The
lemmas `Same...` say that the operators are the same under the two names, and
`RecorderSteps` and `ManagerSteps` that every step of the program is one of the
component's or leaves it alone; so `RP!IInv` and `MP!IInv` hold in the program, and
only what ties the parts together is left to prove. `PlaceInv` says which call may be
under way at each place of a command, `StartInv` that a start works for an output that
the recorder does not produce yet, `RunInv` what a call does on its way: an apply
(`ApplyRun`) works for exactly the flags and ends with their outputs or none, a stop
(`StopRun`) finds the pipeline it began with still current, since nobody overtakes it.
`OutputsFollowFlags` is not inductive without them: it speaks of the time between two
commands only; `OutputsBegunAsAsked`, of every step, is read off them. The component
theorems carry over (`RecorderInProgram`,
`ServersInProgram`), the manager is used within its specification
(`ManagerInProgram`), and the whole program, not only the recorder under any calls,
implements `RecordingSession` (`ProgramImplementsSession`).

`RtspPush_proofs`, for any number of signals, any tools and any faults: `TypeOK`,
`ChildrenGone`, `OnePublisher`, `CleanupWaitsForKilled`. Which child may be alive
follows from the command the script is at (`PublisherInv`, `ServerInv`), and a child
that is alive is known by its PID variable except between `&` and `$!`. `CleanupInv`
is the point of the fallback: a wait for ffmpeg that a trap has broken ends only when
that trap has ended ffmpeg, so `gst` starts with ffmpeg gone although the wait failed.

`WebUi_proofs`, for any number of connections, clicks and changes by others: `TypeOK`
and `ShowsWhatWasReported`, which needs that also the answers on their way are
statuses the server has had (`ReportedInv`).

Only model-checked: the liveness properties `CallsReturn`, `MtxCallsReturn`,
`CommandsAnswered`, `FramesFlow`, `SilenceReported`, `EndsUnlessHeld`, `LimitEnds`,
`ScriptEnds`, `FallbackStops` and `CatchesUp`. They rest on fairness, and with it on
ENABLED, which the prover does not handle. The four properties expected to be violated
have nothing to prove. No theorem is about what the models leave out: that the
critical sections taken as one step are one, and how GStreamer, the V4L2 driver, the
shell and the browser behave, is read from the code and assumed.

## Not modelled

- Pixel formats, strides, caps, bit rates, timestamps: data no property here
  depends on. A frame smaller than the caps ask for is the fault `frame`.
- The unbounded queue of the appsrc, and memory that runs out elsewhere.
- Threads that cannot be created (main.c:231): main would join an uninitialised
  identifier.
- Parsing of options, of requests and of the URL, and static files.
- The wait in MediaMTX's start for one second as time: the model lets the child
  do anything or, with `slow`, nothing in it.
- Descriptors inherited by the child.
- Formatting of logs and HTTP answers.
- The install, build and recording scripts, the vendored `test-launch.c` and
  `mediamtx.yml`: no state of this program.

## Plan

Done: every component with state of its own is modelled, every safety property that
a run checks is a theorem, and the composition is proved over its components. What
could still be added:

1. The remaining safety halves of liveness properties, as `WaitsForKilled` and
   `CleanupWaitsForKilled` are now: for `CallsReturn`, that the holder of `rec->lock`
   waits for nothing but the state of its own pipeline.
2. `RecordingSession` for the program's own sessions: which command starts and ends
   each, from `RunInv`.
