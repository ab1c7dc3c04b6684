----------------------------- MODULE Lifecycle -----------------------------
(***************************************************************************)
(* The life of the program in src/src/main.c: its start, its four threads, *)
(* the signal handler that may interrupt any of them at any step, the HTTP *)
(* thread of http_server.c with one connection at a time, and the end that *)
(* main waits for.  The threads meet at monitor.lock, at g_running and     *)
(* monitor.running, and at the listening socket.                           *)
(*                                                                         *)
(* What a thread does between two uses of these is left out, the media     *)
(* commands in particular (MediaControl): here a command only takes        *)
(* monitor.lock so many times.                                             *)
(*                                                                         *)
(* A signal handler runs on the stack of the thread it interrupts, which   *)
(* waits until it returns.  act[i] is the call of http_server_stop that    *)
(* the i-th signal makes, act[0] the one of main itself.                   *)
(***************************************************************************)
EXTENDS Naturals

CONSTANTS NoThread,    \* nobody holds monitor.lock
          MaxSignals,  \* bound: signals of one run
          MoreFrames,  \* bound: frames beyond the limit
          Limits,      \* values the option -n may have; 0 is no limit
          HttpModes,   \* FALSE is the option --no-http
          LifeFaults   \* what may fail or misbehave

Threads == {"main", "video", "monitor", "http"}
Stops == 0 .. MaxSignals

ASSUME LifeAssumption ==
  /\ NoThread \notin Threads
  /\ MaxSignals \in Nat /\ MoreFrames \in Nat
  /\ Limits \subseteq Nat
  /\ HttpModes \subseteq BOOLEAN
  /\ LifeFaults \subseteq {"setup", "bind", "poll", "hangup"}

VARIABLES at,         \* where each thread is in its own code
          act,        \* the calls of http_server_stop
          sent,       \* signals delivered
          owner,      \* the thread that holds monitor.lock
          g_running,
          running,    \* monitor.running
          listen_fd,  \* monitor.http_listen_fd: "zero" until monitor_init
          server_fd,  \* the socket behind it; "hit" once a shutdown that came
                      \* after its close has reached what got its number since
          total,      \* monitor.total_frames
          client,     \* the connection that is served, or the next one
          todo,       \* how often the command under way still takes the lock
          limit,      \* frame_limit
          enable_http

vars == <<at, act, sent, owner, g_running, running, listen_fd, server_fd, total,
          client, todo, limit, enable_http>>
settings == <<limit, enable_http>>

Over == {"exited", "failed", "killed"}
MainPlaces ==
  {"init", "setup", "options", "option", "createMonitor", "createVideo", "createHttp",
   "loop", "check", "count", "sleep", "end", "joinVideo", "joinMonitor", "joinHttp", "stopMedia",
   "reset", "resetting", "close"} \cup Over
HttpPlaces ==
  {"none", "setup", "publish", "publishing", "loop", "poll", "accept", "recv", "handle",
   "handling", "answer", "close", "unpublish", "unpublishing", "closeServer", "done"}

NoCall == [on |-> NoThread, at |-> "idle", fd |-> "none"]

(* The places inside a critical section of monitor.lock. *)
Inside(t) == at[t] \in {"option", "count", "resetting", "counting", "ticking",
                        "publishing", "handling", "unpublishing"}

(* The type invariant; with it, a thread that holds monitor.lock is in one of *)
(* its critical sections or in that of the stop.                             *)
TypeOK ==
  /\ at \in [Threads -> MainPlaces \cup HttpPlaces \cup {"read", "counting", "tick", "ticking"}]
  /\ at["main"] \in MainPlaces /\ at["http"] \in HttpPlaces
  /\ at["video"] \in {"none", "loop", "read", "count", "counting", "done"}
  /\ at["monitor"] \in {"none", "loop", "tick", "ticking", "done"}
  /\ act \in [Stops -> [on : Threads \cup {NoThread},
                        at : {"idle", "lock", "locked", "shut"},
                        fd : {"zero", "none", "server"}]]
  /\ sent \in Stops
  /\ owner \in Threads \cup {NoThread}
  /\ owner # NoThread =>
       \/ at["main"] = "killed"
       \/ Inside(owner)
       \/ \E i \in Stops : act[i].on = owner /\ act[i].at = "locked"
  /\ g_running \in BOOLEAN /\ running \in BOOLEAN
  /\ listen_fd \in {"zero", "none", "server"}
  /\ server_fd \in {"none", "open", "shut", "closed", "hit"}
  /\ total \in 0 .. limit + MoreFrames
  /\ client \in {"none", "silent", "sent", "left", "sentLeft"}
  /\ todo \in 0 .. 5
  /\ limit \in Limits
  /\ enable_http \in HttpModes

(* main has parsed its options and installed the handlers.  g_app is static: *)
(* before monitor_init all of it is zero, the descriptor too.               *)
Init ==
  /\ at = [t \in Threads |-> IF t = "main" THEN "init" ELSE "none"]
  /\ act = [i \in Stops |-> NoCall]
  /\ sent = 0
  /\ owner = NoThread
  /\ g_running = TRUE /\ running = FALSE
  /\ listen_fd = "zero" /\ server_fd = "none"
  /\ total = 0
  /\ client = "none"
  /\ todo = 0
  /\ limit \in Limits
  /\ enable_http \in HttpModes

Ended == at["main"] \in Over

(* The stops that are under way on the stack of t, and the innermost one.    *)
Busy(t) == {i \in Stops : act[i].on = t}
Innermost(i) == act[i].on \in Threads /\ \A j \in Busy(act[i].on) : j <= i

(* Thread t is at a and no handler runs on its stack. *)
At(t, a) == ~Ended /\ at[t] = a /\ Busy(t) = {}

Go(t, a) == at' = [at EXCEPT ![t] = a]

Unlock(t) == owner = t /\ owner' = NoThread

(* Entering a critical section of monitor.lock; Unlock leaves it. *)
Lock(t, a, b) == At(t, a) /\ owner = NoThread /\ owner' = t /\ Go(t, b)

(* What most steps leave alone. *)
Same == UNCHANGED <<act, sent, g_running, running, settings>>
SameSocket == UNCHANGED <<listen_fd, server_fd, client>>
----------------------------------------------------------------------------
(* The signal handler on_signal, and http_server_stop *)

(* Faulty variant: the handler leaves monitor.running alone. *)
HandlerStopsVideo == g_running' = FALSE /\ UNCHANGED running

HandlerStopsAll == g_running' = FALSE /\ running' = FALSE

(* A signal interrupts thread t; the handler first clears the two flags.     *)
Signal(t) ==
  /\ ~Ended /\ at[t] \notin {"none", "done"}
  /\ sent < MaxSignals
  /\ sent' = sent + 1
  /\ act' = [act EXCEPT ![sent + 1] = [NoCall EXCEPT !.on = t, !.at = "lock"]]
  /\ HandlerStopsAll
  /\ SameSocket
  /\ UNCHANGED <<at, owner, total, todo, settings>>

StopLocks(i) ==
  /\ act[i].at = "lock" /\ owner = NoThread
  /\ owner' = act[i].on
  /\ act' = [act EXCEPT ![i].at = "locked"]
  /\ UNCHANGED server_fd

StopReads(i) ==
  /\ act[i].at = "locked"
  /\ Unlock(act[i].on)
  /\ act' = [act EXCEPT ![i] = IF listen_fd = "none" THEN NoCall
                               ELSE [@ EXCEPT !.at = "shut", !.fd = listen_fd]]
  /\ UNCHANGED server_fd

(* shutdown: on descriptor 0 it does nothing to the program.  A descriptor    *)
(* that was closed in the meantime may have been given to somebody else.     *)
Shutdown(s) == CASE s = "open"   -> {"shut"}
                 [] s = "closed" -> {"closed", "hit"}
                 [] OTHER        -> {s}

StopShuts(i) ==
  /\ act[i].at = "shut"
  /\ server_fd' \in IF act[i].fd = "server" THEN Shutdown(server_fd) ELSE {server_fd}
  /\ act' = [act EXCEPT ![i] = NoCall]
  /\ UNCHANGED owner

Stop(i) ==
  /\ ~Ended /\ Innermost(i)
  /\ StopLocks(i) \/ StopReads(i) \/ StopShuts(i)
  /\ UNCHANGED <<at, sent, g_running, running, listen_fd, total, client, todo, settings>>
----------------------------------------------------------------------------
(* main *)

InitFields == running' = TRUE /\ listen_fd' = "none"

(* monitor_init; what a signal before it did to `running` is undone.         *)
MonitorInit ==
  /\ At("main", "init")
  /\ InitFields
  /\ Go("main", "setup")
  /\ UNCHANGED <<act, sent, owner, g_running, server_fd, total, client, todo, settings>>

(* The recorder, MediaMTX and the camera; then -r takes the lock twice and   *)
(* --stream three times.                                                    *)
Setup ==
  /\ At("main", "setup")
  /\ todo' \in {0, 2, 3, 5}
  /\ Go("main", IF todo' = 0 THEN "createMonitor" ELSE "options")
  /\ Same /\ SameSocket /\ UNCHANGED <<owner, total>>

SetupFails ==
  /\ At("main", "setup") /\ "setup" \in LifeFaults
  /\ Go("main", "failed")
  /\ Same /\ SameSocket /\ UNCHANGED <<owner, total, todo>>

OptionLocks ==
  /\ Lock("main", "options", "option")
  /\ Same /\ SameSocket /\ UNCHANGED <<total, todo>>

(* A start command may fail in app_sync_media_pipeline, after its last       *)
(* section, and that of a stream in MediaMTX, after its first.              *)
OptionUnlocks ==
  /\ At("main", "option") /\ Unlock("main")
  /\ todo' = todo - 1
  /\ \/ Go("main", IF todo' = 0 THEN "createMonitor" ELSE "options")
     \/ "setup" \in LifeFaults /\ todo' \in {0, 2, 3} /\ Go("main", "failed")
  /\ Same /\ SameSocket /\ UNCHANGED total

Create ==
  /\ \/ At("main", "createMonitor")
        /\ at' = [at EXCEPT !["main"] = "createVideo", !["monitor"] = "loop"]
     \/ At("main", "createVideo")
        /\ at' = [at EXCEPT !["main"] = "createHttp", !["video"] = "loop"]
     \/ At("main", "createHttp")
        /\ at' = [at EXCEPT !["main"] = "loop", !["http"] = IF enable_http THEN "setup" ELSE @]
  /\ Same /\ SameSocket /\ UNCHANGED <<owner, total, todo>>

MainLoops ==
  /\ \/ At("main", "loop") /\ g_running /\ Go("main", IF limit > 0 THEN "check" ELSE "sleep")
        /\ UNCHANGED owner
     \/ At("main", "loop") /\ ~g_running /\ Go("main", "end") /\ UNCHANGED owner
     \/ Lock("main", "check", "count")
     \/ At("main", "sleep") /\ Go("main", "loop") /\ UNCHANGED owner
  /\ Same /\ SameSocket /\ UNCHANGED <<total, todo>>

(* Faulty variant: one frame too early. *)
LimitReachedEarly == total + 1 >= limit

(* Faulty variant: a limit that is only met exactly, though frames are       *)
(* counted between two looks at it.                                         *)
LimitMet == total = limit

LimitReached == total >= limit

MainCounts ==
  /\ At("main", "count") /\ Unlock("main")
  /\ Go("main", IF LimitReached THEN "end" ELSE "sleep")
  /\ Same /\ SameSocket /\ UNCHANGED <<total, todo>>

(* Faulty variant: monitor.running is not cleared. *)
EndVideoOnly == g_running' = FALSE /\ UNCHANGED running

EndAll == g_running' = FALSE /\ running' = FALSE

(* After the loop: both flags, and http_server_stop if there is a server.    *)
MainEnds ==
  /\ At("main", "end")
  /\ EndAll
  /\ act' = [act EXCEPT ![0] = IF enable_http THEN [NoCall EXCEPT !.on = "main", !.at = "lock"]
                               ELSE @]
  /\ Go("main", "joinVideo")
  /\ SameSocket /\ UNCHANGED <<sent, owner, total, todo, settings>>

(* Faulty variant: the HTTP thread is left running. *)
JoinedTwoOnly(t) == t = "http" \/ at[t] \in {"none", "done"}

Joined(t) == at[t] \in {"none", "done"}

MainJoins ==
  /\ \/ At("main", "joinVideo") /\ Joined("video") /\ Go("main", "joinMonitor")
     \/ At("main", "joinMonitor") /\ Joined("monitor") /\ Go("main", "joinHttp")
     \/ At("main", "joinHttp") /\ Joined("http") /\ Go("main", "stopMedia")
  /\ Same /\ SameSocket /\ UNCHANGED <<owner, total, todo>>

(* gst_recorder_stop and mediamtx_manager_stop, the flags under the lock,    *)
(* then the camera and the recorder's mutex.                                *)
MainCleansUp ==
  /\ \/ At("main", "stopMedia") /\ Go("main", "reset") /\ UNCHANGED owner
     \/ Lock("main", "reset", "resetting")
     \/ At("main", "resetting") /\ Unlock("main") /\ Go("main", "close")
     \/ At("main", "close") /\ Go("main", "exited") /\ UNCHANGED owner
  /\ Same /\ SameSocket /\ UNCHANGED <<total, todo>>

Main ==
  \/ MonitorInit \/ Setup \/ SetupFails \/ OptionLocks \/ OptionUnlocks \/ Create
  \/ MainLoops \/ MainCounts \/ MainEnds \/ MainJoins \/ MainCleansUp
----------------------------------------------------------------------------
(* video_pipeline_thread: a read may bring a frame, which is counted.        *)
Video ==
  /\ \/ At("video", "loop") /\ Go("video", IF g_running THEN "read" ELSE "done")
        /\ UNCHANGED <<owner, total>>
     \/ At("video", "read") /\ Go("video", "loop")
        /\ UNCHANGED <<owner, total>>
     \/ At("video", "read") /\ total < limit + MoreFrames /\ Go("video", "count")
        /\ UNCHANGED <<owner, total>>
     \/ Lock("video", "count", "counting") /\ UNCHANGED total
     \/ At("video", "counting") /\ Unlock("video") /\ total' = total + 1 /\ Go("video", "loop")
  /\ Same /\ SameSocket /\ UNCHANGED todo

(* monitor_thread, whose work under the lock is the module Monitor.          *)
Tick ==
  /\ \/ At("monitor", "loop") /\ Go("monitor", IF running THEN "tick" ELSE "done")
        /\ UNCHANGED owner
     \/ Lock("monitor", "tick", "ticking")
     \/ At("monitor", "ticking") /\ Unlock("monitor") /\ Go("monitor", "loop")
  /\ Same /\ SameSocket /\ UNCHANGED <<total, todo>>
----------------------------------------------------------------------------
(* http_server_thread *)

HttpBinds ==
  /\ At("http", "setup")
  /\ \/ server_fd' = "open" /\ Go("http", "publish")
     \/ "bind" \in LifeFaults /\ Go("http", "done") /\ UNCHANGED server_fd
  /\ Same /\ UNCHANGED <<owner, listen_fd, client, total, todo>>

(* Faulty variant: the descriptor is not taken back. *)
StaysPublished == UNCHANGED listen_fd

Withdrawn == listen_fd' = "none"

(* http_listen_fd is set under the lock, and set back at the end. *)
HttpPublishes ==
  /\ \/ Lock("http", "publish", "publishing") /\ UNCHANGED listen_fd
     \/ At("http", "publishing") /\ Unlock("http") /\ listen_fd' = "server" /\ Go("http", "loop")
     \/ Lock("http", "unpublish", "unpublishing") /\ UNCHANGED listen_fd
     \/ At("http", "unpublishing") /\ Unlock("http") /\ Withdrawn
        /\ Go("http", "closeServer")
  /\ Same /\ UNCHANGED <<server_fd, client, total, todo>>

HttpLoops ==
  /\ At("http", "loop")
  /\ Go("http", IF running THEN "poll" ELSE "unpublish")
  /\ Same /\ SameSocket /\ UNCHANGED <<owner, total, todo>>

(* poll: a second without a connection or an interruption, a connection or   *)
(* a socket that was shut down, or an error.                                *)
HttpPolls ==
  /\ At("http", "poll")
  /\ \/ Go("http", "loop")
     \/ (client # "none" \/ server_fd = "shut") /\ Go("http", "accept")
     \/ "poll" \in LifeFaults /\ Go("http", "unpublish")
  /\ Same /\ SameSocket /\ UNCHANGED <<owner, total, todo>>

HttpAccepts ==
  /\ At("http", "accept")
  /\ \/ server_fd = "open" /\ Go("http", "recv")
     \/ server_fd = "shut" /\ Go("http", IF running THEN "loop" ELSE "unpublish")
  /\ Same /\ SameSocket /\ UNCHANGED <<owner, total, todo>>

(* recv waits for the client, without a limit; a client that has gone before *)
(* it sent anything ends it with 0.  A request takes the lock as often as    *)
(* its command does: a page never, the status once, a stream start 3 times.  *)
HttpReceives ==
  /\ At("http", "recv")
  /\ \/ client \in {"sent", "sentLeft"} /\ todo' \in 0 .. 3 /\ Go("http", "handle")
     \/ client = "left" /\ Go("http", "close") /\ UNCHANGED todo
  /\ Same /\ SameSocket /\ UNCHANGED <<owner, total>>

HttpHandles ==
  /\ \/ todo > 0 /\ Lock("http", "handle", "handling") /\ UNCHANGED todo
     \/ At("http", "handling") /\ Unlock("http") /\ todo' = todo - 1 /\ Go("http", "handle")
     \/ At("http", "handle") /\ todo = 0 /\ Go("http", "answer") /\ UNCHANGED <<owner, todo>>
  /\ Same /\ SameSocket /\ UNCHANGED total

(* http_send_raw sends the header, then the body.  If the client has closed  *)
(* its end, the second send may raise SIGPIPE, whose default ends the        *)
(* process where it stands.                                                 *)
HttpAnswers ==
  /\ At("http", "answer")
  /\ \/ Go("http", "close")
     \/ client = "sentLeft" /\ Go("main", "killed")
  /\ Same /\ SameSocket /\ UNCHANGED <<owner, total, todo>>

HttpCloses ==
  /\ At("http", "close")
  /\ client' = "none"
  /\ Go("http", "loop")
  /\ Same /\ UNCHANGED <<owner, listen_fd, server_fd, total, todo>>

(* close(server_fd): connections nobody has accepted are reset. *)
HttpEnds ==
  /\ At("http", "closeServer")
  /\ server_fd' = "closed"
  /\ client' = "none"
  /\ Go("http", "done")
  /\ Same /\ UNCHANGED <<owner, listen_fd, total, todo>>

Http ==
  \/ HttpBinds \/ HttpPublishes \/ HttpLoops \/ HttpPolls \/ HttpAccepts \/ HttpReceives
  \/ HttpHandles \/ HttpAnswers \/ HttpCloses \/ HttpEnds
----------------------------------------------------------------------------
(* The client connects, sends its request or not, and may go away.           *)
Client ==
  /\ ~Ended
  /\ \/ client = "none" /\ server_fd = "open" /\ client' = "silent"
     \/ client = "silent" /\ client' \in {"sent", "left"}
     \/ client = "sent" /\ "hangup" \in LifeFaults /\ client' = "sentLeft"
  /\ UNCHANGED <<at, act, sent, owner, g_running, running, listen_fd, server_fd, total, todo,
                 settings>>

(* The steps of one thread: its own, or those of a handler on its stack.     *)
Run(t) ==
  \/ \E i \in Stops : act[i].on = t /\ Stop(i)
  \/ t = "main" /\ Main
  \/ t = "video" /\ Video
  \/ t = "monitor" /\ Tick
  \/ t = "http" /\ Http

Next == (\E t \in Threads : Run(t) \/ Signal(t)) \/ Client

(* Every thread runs on, and gets monitor.lock in the end, which is held for *)
(* moments.  Nothing is assumed of signals and clients.                     *)
Fairness == \A t \in Threads : SF_vars(Run(t))

SafeSpec == Init /\ [][Next]_vars
Spec == SafeSpec /\ Fairness
----------------------------------------------------------------------------
(* Properties *)

(* Nobody but the end of the program takes the listener away: the socket is  *)
(* only shut down, and the HTTP thread only leaves its loop, after           *)
(* monitor.running was cleared (or poll failed).                            *)
ListenerServes ==
  /\ server_fd = "shut" => ~running
  /\ at["http"] \in {"unpublish", "unpublishing", "closeServer"} =>
       ~running \/ "poll" \in LifeFaults

(* Unless a signal asked for it, the program does not end before the frames  *)
(* it was asked for are counted.                                            *)
NoEarlyEnd == ~g_running => sent > 0 \/ (limit > 0 /\ total >= limit)

(* main has joined the others and takes down what they used. *)
TearingDown == at["main"] \in {"stopMedia", "reset", "resetting", "close", "exited"}

(* Once main tears the media down no other thread runs, the lock is free and *)
(* the socket closed; main never destroys what somebody still uses.          *)
TeardownIsAlone ==
  TearingDown =>
    /\ \A t \in Threads \ {"main"} : Joined(t)
    /\ owner \in {"main", NoThread}
    /\ listen_fd = "none" /\ server_fd \in {"none", "closed", "hit"}

(* http_server_stop shuts its descriptor down after it has given the lock    *)
(* back, and the HTTP thread may close it in between: the call can then hit  *)
(* whatever got the number.  Never what main takes down, though: by then no   *)
(* stop, main's own or of a handler on any stack, has a descriptor left to   *)
(* shut down, and one that a late signal starts finds none.                  *)
NoLateShutdown == TearingDown => \A i \in Stops : act[i].at # "shut"

(* A handler that interrupted the holder of monitor.lock waits for itself.   *)
SelfLocked ==
  \E i \in Stops : Innermost(i) /\ act[i].at = "lock" /\ owner = act[i].on

(* An end that was asked for, by a signal at any step of any thread or by    *)
(* the limit, comes, with two exceptions: a client that connects and then    *)
(* sends nothing for ever, and a signal in a critical section.              *)
EndsUnlessHeld ==
  ([]<>(at["http"] # "recv")) => (~g_running ~> Ended \/ SelfLocked)

(* The limit of frames is noticed. *)
LimitEnds == (limit > 0 /\ total >= limit) ~> ~g_running \/ Ended

(* docs/architecture.md:49 gives main the handling of signals and a graceful *)
(* exit: once the end was asked for, main ends.                             *)
GracefulExit == ~g_running ~> at["main"] \in {"exited", "failed"}
=============================================================================
