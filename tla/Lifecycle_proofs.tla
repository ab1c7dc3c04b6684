-------------------------- MODULE Lifecycle_proofs --------------------------
(***************************************************************************)
(* Lifecycle, proved for any number of signals and frames, any limits and  *)
(* any faults: what the end of the program takes away, and when.           *)
(***************************************************************************)
EXTENDS Lifecycle, TLAPS

(* An act that nobody makes is no call; the others are on a living thread, and *)
(* belong to a signal that was sent or, number 0, to main.                   *)
ActInv ==
  /\ \A i \in Stops : act[i].on = NoThread => act[i] = NoCall
  /\ \A i \in Stops : act[i].on \in Threads => at[act[i].on] \notin {"none", "done"}
  /\ \A i \in Stops : i > sent => act[i].on = NoThread
  /\ act[0].on \in {NoThread, "main"}

(* What main's place tells of the threads it has not created yet, and the     *)
(* places of a thread of the numbers it works on.                            *)
Before == {"init", "setup", "options", "option", "createMonitor", "createVideo", "createHttp"}

StageInv ==
  /\ listen_fd = "zero" <=> at["main"] = "init"
  /\ at["main"] \in Before \ {"createVideo", "createHttp"} => at["monitor"] = "none"
  /\ at["main"] \in Before \ {"createHttp"} => at["video"] = "none"
  /\ at["main"] \in Before => at["http"] = "none"
  /\ at["main"] \in {"options", "option"} => todo > 0
  /\ at["http"] = "handling" => todo > 0
  /\ at["video"] \in {"count", "counting"} => total < limit + MoreFrames
  /\ at["main"] \in {"check", "count"} => limit > 0
  /\ at["main"] = "end" => ~g_running \/ (limit > 0 /\ total >= limit)

(* Once monitor_init has run, a call of http_server_stop means that the end   *)
(* was asked for.                                                            *)
FlagInv == at["main"] # "init" /\ running => \A i \in Stops : act[i].on = NoThread

(* The socket is there, and published, only while the HTTP thread is between  *)
(* its start and its end.                                                    *)
SocketInv ==
  /\ listen_fd = "server" =>
       at["http"] \notin {"none", "setup", "publish", "publishing", "closeServer", "done"}
  /\ server_fd \in {"open", "shut"} => at["http"] \notin {"none", "setup", "done"}

(* The joins main has behind it. *)
JoinInv ==
  LET torn == {"stopMedia", "reset", "resetting", "close", "exited"}
  IN /\ at["main"] \in {"joinMonitor", "joinHttp"} \cup torn => Joined("video")
     /\ at["main"] \in {"joinHttp"} \cup torn => Joined("monitor")
     /\ at["main"] \in torn => Joined("http")

IInv ==
  /\ TypeOK /\ ActInv /\ StageInv /\ FlagInv /\ SocketInv /\ JoinInv
  /\ ListenerServes /\ NoLateShutdown /\ NoEarlyEnd

LEMMA Facts == NoThread \notin Threads /\ 0 \in Stops /\ Stops \subseteq Nat
  BY LifeAssumption DEF LifeAssumption, Threads, Stops

LEMMA SignalIInv ==
  ASSUME IInv, NEW t \in Threads, Signal(t)
  PROVE  IInv'
<1> USE Facts DEF IInv, At, Busy, Ended, Over, Go, Lock, Unlock, Same, SameSocket, settings,
    Signal, HandlerStopsAll, NoCall
<1>1. TypeOK'
  <2>1. act' \in [Stops -> [on : Threads \cup {NoThread}, at : {"idle", "lock", "locked", "shut"},
                         fd : {"zero", "none", "server"}]]
    BY DEF TypeOK
  <2>2. sent' \in Stops
    BY LifeAssumption DEF LifeAssumption, TypeOK, Stops
  <2>3. \A i \in Stops : act[i].on # NoThread => act'[i] = act[i]
    BY <2>2 DEF TypeOK, ActInv, Stops
  <2>4. owner' # NoThread =>
          \/ at'["main"] = "killed"
          \/ Inside(owner)'
          \/ \E i \in Stops : act'[i].on = owner' /\ act'[i].at = "locked"
    BY <2>3 DEF TypeOK, Inside
  <2>5. g_running' \in BOOLEAN /\ running' \in BOOLEAN
    OBVIOUS
  <2> HIDE DEF NoCall
  <2> QED
    BY <2>1, <2>2, <2>4, <2>5 DEF TypeOK
<1>2. ActInv'
  BY DEF TypeOK, ActInv, StageInv, NoCall, Threads
<1>3. StageInv'
  BY LifeAssumption DEF LifeAssumption, TypeOK, StageInv, Before, Threads
<1>4. FlagInv'
  BY DEF TypeOK, ActInv, StageInv, FlagInv, Threads
<1>5. SocketInv' /\ ListenerServes'
  BY DEF TypeOK, ActInv, StageInv, FlagInv, SocketInv, ListenerServes, Before, Threads
<1>6. JoinInv'
  BY DEF TypeOK, ActInv, StageInv, JoinInv, Joined, Before, Threads
<1>7. NoLateShutdown'
  BY DEF TypeOK, NoLateShutdown, TearingDown, Threads
<1>8. NoEarlyEnd'
  BY LifeAssumption DEF LifeAssumption, TypeOK, StageInv, NoEarlyEnd, Threads
<1> QED
  BY <1>1, <1>2, <1>3, <1>4, <1>5, <1>6, <1>7, <1>8

LEMMA StopIInv ==
  ASSUME IInv, NEW i \in Stops, Stop(i)
  PROVE  IInv'
<1> USE Facts DEF IInv, At, Busy, Ended, Over, Go, Lock, Unlock, Same, SameSocket, settings,
    Stop, StopLocks, StopReads, StopShuts, Shutdown, Innermost, NoCall
<1>1. TypeOK'
  <2>1. act' \in [Stops -> [on : Threads \cup {NoThread}, at : {"idle", "lock", "locked", "shut"},
                         fd : {"zero", "none", "server"}]]
    <3>1. CASE act' = [act EXCEPT ![i] = NoCall]
      BY <3>1 DEF TypeOK, NoCall
    <3>2. CASE act' = [act EXCEPT ![i].at = "locked"]
      BY <3>2 DEF TypeOK
    <3>3. CASE act' = [act EXCEPT ![i] = [@ EXCEPT !.at = "shut", !.fd = listen_fd]]
      <4>1. [act[i] EXCEPT !.at = "shut", !.fd = listen_fd]
              \in [on : Threads \cup {NoThread}, at : {"idle", "lock", "locked", "shut"},
                   fd : {"zero", "none", "server"}]
        BY DEF TypeOK
      <4> QED
        BY <3>3, <4>1 DEF TypeOK
    <3> QED
      BY <3>1, <3>2, <3>3
  <2>2. /\ owner' \in Threads \cup {NoThread}
        /\ server_fd' \in {"none", "open", "shut", "closed", "hit"}
    BY DEF TypeOK
  <2>3. owner' # NoThread =>
          \/ at'["main"] = "killed"
          \/ Inside(owner)'
          \/ \E j \in Stops : act'[j].on = owner' /\ act'[j].at = "locked"
    BY DEF TypeOK, Inside
  <2> QED
    BY <2>1, <2>2, <2>3 DEF TypeOK
<1>2. ActInv'
  <2>1. CASE act' = [act EXCEPT ![i] = NoCall]
    BY <2>1 DEF TypeOK, ActInv, NoCall, Threads
  <2>2. CASE act' = [act EXCEPT ![i].at = "locked"]
    BY <2>2 DEF TypeOK, ActInv, NoCall, Threads
  <2>3. CASE act' = [act EXCEPT ![i] = [@ EXCEPT !.at = "shut", !.fd = listen_fd]]
    BY <2>3 DEF TypeOK, ActInv, NoCall, Threads
  <2> QED
    BY <2>1, <2>2, <2>3
<1>3. StageInv'
  BY LifeAssumption DEF LifeAssumption, TypeOK, StageInv, Before, Threads
<1>4. FlagInv'
  BY DEF TypeOK, ActInv, StageInv, FlagInv, Threads
<1>5. SocketInv' /\ ListenerServes'
  BY DEF TypeOK, ActInv, StageInv, FlagInv, SocketInv, ListenerServes, Before, Threads
<1>6. JoinInv'
  BY DEF TypeOK, ActInv, StageInv, JoinInv, Joined, Before, Threads
<1>7. NoLateShutdown'
  <2> SUFFICES ASSUME TearingDown PROVE \A j \in Stops : act'[j].at # "shut"
    BY DEF NoLateShutdown, TearingDown
  <2>1. listen_fd = "none"
    BY DEF TypeOK, StageInv, SocketInv, JoinInv, Joined, TearingDown
  <2>2. act' = [act EXCEPT ![i] = NoCall] \/ act' = [act EXCEPT ![i].at = "locked"]
    BY <2>1
  <2>3. \A j \in Stops : act[j].at # "shut"
    BY DEF NoLateShutdown
  <2>4. CASE act' = [act EXCEPT ![i] = NoCall]
    BY <2>3, <2>4 DEF TypeOK, NoCall
  <2>5. CASE act' = [act EXCEPT ![i].at = "locked"]
    BY <2>3, <2>5 DEF TypeOK
  <2> QED
    BY <2>2, <2>4, <2>5
<1>8. NoEarlyEnd'
  BY LifeAssumption DEF LifeAssumption, TypeOK, StageInv, NoEarlyEnd, Threads
<1> QED
  BY <1>1, <1>2, <1>3, <1>4, <1>5, <1>6, <1>7, <1>8

LEMMA MonitorInitIInv ==
  ASSUME IInv, MonitorInit
  PROVE  IInv'
<1> USE Facts DEF IInv, At, Busy, Ended, Over, Go, Lock, Unlock, Same, SameSocket, settings,
    MonitorInit, InitFields
<1>1. TypeOK'
  BY LifeAssumption DEF LifeAssumption, TypeOK, ActInv, StageInv, MainPlaces, HttpPlaces, Inside,
     Threads, Stops
<1>2. ActInv'
  BY DEF TypeOK, ActInv, StageInv, NoCall, Threads
<1>3. StageInv'
  BY LifeAssumption DEF LifeAssumption, TypeOK, StageInv, Before, Threads
<1>4. \A i \in Stops : act[i].on = NoThread
  BY DEF TypeOK, ActInv, StageInv, Before, Threads
<1>5. FlagInv'
  BY <1>4 DEF FlagInv
<1>6. SocketInv' /\ ListenerServes'
  BY DEF TypeOK, ActInv, StageInv, FlagInv, SocketInv, ListenerServes, Before, Threads
<1>7. JoinInv'
  BY DEF TypeOK, ActInv, StageInv, JoinInv, Joined, Before, Threads
<1>8. NoLateShutdown'
  BY DEF TypeOK, NoLateShutdown, TearingDown, Threads
<1>9. NoEarlyEnd'
  BY LifeAssumption DEF LifeAssumption, TypeOK, StageInv, NoEarlyEnd, Threads
<1> QED
  BY <1>1, <1>2, <1>3, <1>5, <1>6, <1>7, <1>8, <1>9

LEMMA SetupIInv ==
  ASSUME IInv, (Setup \/ SetupFails)
  PROVE  IInv'
<1> USE Facts DEF IInv, At, Busy, Ended, Over, Go, Lock, Unlock, Same, SameSocket, settings,
    Setup, SetupFails
<1>1. TypeOK'
  BY LifeAssumption DEF LifeAssumption, TypeOK, ActInv, StageInv, MainPlaces, HttpPlaces, Inside,
     Threads, Stops
<1>2. ActInv'
  BY DEF TypeOK, ActInv, StageInv, NoCall, Threads
<1>3. StageInv'
  BY LifeAssumption DEF LifeAssumption, TypeOK, StageInv, Before, Threads
<1>4. FlagInv'
  BY DEF TypeOK, ActInv, StageInv, FlagInv, Threads
<1>5. SocketInv' /\ ListenerServes'
  BY DEF TypeOK, ActInv, StageInv, FlagInv, SocketInv, ListenerServes, Before, Threads
<1>6. JoinInv'
  BY DEF TypeOK, ActInv, StageInv, JoinInv, Joined, Before, Threads
<1>7. NoLateShutdown'
  BY DEF TypeOK, NoLateShutdown, TearingDown, Threads
<1>8. NoEarlyEnd'
  BY LifeAssumption DEF LifeAssumption, TypeOK, StageInv, NoEarlyEnd, Threads
<1> QED
  BY <1>1, <1>2, <1>3, <1>4, <1>5, <1>6, <1>7, <1>8

LEMMA OptionsIInv ==
  ASSUME IInv, (OptionLocks \/ OptionUnlocks)
  PROVE  IInv'
<1> USE Facts DEF IInv, At, Busy, Ended, Over, Go, Lock, Unlock, Same, SameSocket, settings,
    OptionLocks, OptionUnlocks
<1>1. TypeOK'
  BY LifeAssumption DEF LifeAssumption, TypeOK, ActInv, StageInv, MainPlaces, HttpPlaces, Inside,
     Threads, Stops
<1>2. ActInv'
  BY DEF TypeOK, ActInv, StageInv, NoCall, Threads
<1>3. StageInv'
  BY LifeAssumption DEF LifeAssumption, TypeOK, StageInv, Before, Threads
<1>4. FlagInv'
  BY DEF TypeOK, ActInv, StageInv, FlagInv, Threads
<1>5. SocketInv' /\ ListenerServes'
  BY DEF TypeOK, ActInv, StageInv, FlagInv, SocketInv, ListenerServes, Before, Threads
<1>6. JoinInv'
  BY DEF TypeOK, ActInv, StageInv, JoinInv, Joined, Before, Threads
<1>7. NoLateShutdown'
  BY DEF TypeOK, NoLateShutdown, TearingDown, Threads
<1>8. NoEarlyEnd'
  BY LifeAssumption DEF LifeAssumption, TypeOK, StageInv, NoEarlyEnd, Threads
<1> QED
  BY <1>1, <1>2, <1>3, <1>4, <1>5, <1>6, <1>7, <1>8

LEMMA CreateIInv ==
  ASSUME IInv, Create
  PROVE  IInv'
<1> USE Facts DEF IInv, At, Busy, Ended, Over, Go, Lock, Unlock, Same, SameSocket, settings,
    Create
<1>1. TypeOK'
  <2>1. /\ at' \in [Threads -> MainPlaces \cup HttpPlaces
                                \cup {"read", "counting", "tick", "ticking"}]
        /\ at'["main"] \in MainPlaces /\ at'["http"] \in HttpPlaces
        /\ at'["video"] \in {"none", "loop", "read", "count", "counting", "done"}
        /\ at'["monitor"] \in {"none", "loop", "tick", "ticking", "done"}
    BY DEF TypeOK, MainPlaces, HttpPlaces, Threads
  <2>2. at["main"] # "killed" /\ ~Inside("main")
    BY DEF Inside
  <2>3. \A t \in Threads : Inside(t) => Inside(t)'
    BY <2>2 DEF TypeOK, StageInv, Before, Inside, Threads
  <2>4. (owner # NoThread =>
          \/ at["main"] = "killed"
          \/ Inside(owner)
          \/ \E i \in Stops : act[i].on = owner /\ act[i].at = "locked")'
    BY <2>2, <2>3 DEF TypeOK
  <2> QED
    BY <2>1, <2>4 DEF TypeOK
<1>2. ActInv'
  BY DEF TypeOK, ActInv, StageInv, NoCall, Threads
<1>3. StageInv'
  BY LifeAssumption DEF LifeAssumption, TypeOK, StageInv, Before, Threads
<1>4. FlagInv'
  BY DEF TypeOK, ActInv, StageInv, FlagInv, Threads
<1>5. SocketInv' /\ ListenerServes'
  BY DEF TypeOK, ActInv, StageInv, FlagInv, SocketInv, ListenerServes, Before, Threads
<1>6. JoinInv'
  BY DEF TypeOK, ActInv, StageInv, JoinInv, Joined, Before, Threads
<1>7. NoLateShutdown'
  BY DEF TypeOK, NoLateShutdown, TearingDown, Threads
<1>8. NoEarlyEnd'
  BY LifeAssumption DEF LifeAssumption, TypeOK, StageInv, NoEarlyEnd, Threads
<1> QED
  BY <1>1, <1>2, <1>3, <1>4, <1>5, <1>6, <1>7, <1>8

LEMMA MainLoopsIInv ==
  ASSUME IInv, MainLoops
  PROVE  IInv'
<1> USE Facts DEF IInv, At, Busy, Ended, Over, Go, Lock, Unlock, Same, SameSocket, settings,
    MainLoops
<1>1. TypeOK'
  BY LifeAssumption DEF LifeAssumption, TypeOK, ActInv, StageInv, MainPlaces, HttpPlaces, Inside,
     Threads, Stops
<1>2. ActInv'
  BY DEF TypeOK, ActInv, StageInv, NoCall, Threads
<1>3. StageInv'
  BY LifeAssumption DEF LifeAssumption, TypeOK, StageInv, Before, Threads
<1>4. FlagInv'
  BY DEF TypeOK, ActInv, StageInv, FlagInv, Threads
<1>5. SocketInv' /\ ListenerServes'
  BY DEF TypeOK, ActInv, StageInv, FlagInv, SocketInv, ListenerServes, Before, Threads
<1>6. JoinInv'
  BY DEF TypeOK, ActInv, StageInv, JoinInv, Joined, Before, Threads
<1>7. NoLateShutdown'
  BY DEF TypeOK, NoLateShutdown, TearingDown, Threads
<1>8. NoEarlyEnd'
  BY LifeAssumption DEF LifeAssumption, TypeOK, StageInv, NoEarlyEnd, Threads
<1> QED
  BY <1>1, <1>2, <1>3, <1>4, <1>5, <1>6, <1>7, <1>8

LEMMA MainCountsIInv ==
  ASSUME IInv, MainCounts
  PROVE  IInv'
<1> USE Facts DEF IInv, At, Busy, Ended, Over, Go, Lock, Unlock, Same, SameSocket, settings,
    MainCounts, LimitReached
<1>1. TypeOK'
  BY LifeAssumption DEF LifeAssumption, TypeOK, ActInv, StageInv, MainPlaces, HttpPlaces, Inside,
     Threads, Stops
<1>2. ActInv'
  BY DEF TypeOK, ActInv, StageInv, NoCall, Threads
<1>3. StageInv'
  BY LifeAssumption DEF LifeAssumption, TypeOK, StageInv, Before, Threads
<1>4. FlagInv'
  BY DEF TypeOK, ActInv, StageInv, FlagInv, Threads
<1>5. SocketInv' /\ ListenerServes'
  BY DEF TypeOK, ActInv, StageInv, FlagInv, SocketInv, ListenerServes, Before, Threads
<1>6. JoinInv'
  BY DEF TypeOK, ActInv, StageInv, JoinInv, Joined, Before, Threads
<1>7. NoLateShutdown'
  BY DEF TypeOK, NoLateShutdown, TearingDown, Threads
<1>8. NoEarlyEnd'
  BY LifeAssumption DEF LifeAssumption, TypeOK, StageInv, NoEarlyEnd, Threads
<1> QED
  BY <1>1, <1>2, <1>3, <1>4, <1>5, <1>6, <1>7, <1>8

LEMMA MainEndsIInv ==
  ASSUME IInv, MainEnds
  PROVE  IInv'
<1> USE Facts DEF IInv, At, Busy, Ended, Over, Go, Lock, Unlock, Same, SameSocket, settings,
    MainEnds, EndAll, NoCall
<1>1. TypeOK'
  BY LifeAssumption DEF LifeAssumption, TypeOK, ActInv, StageInv, MainPlaces, HttpPlaces, Inside,
     Threads, Stops
<1>2. ActInv'
  BY DEF TypeOK, ActInv, StageInv, NoCall, Threads
<1>3. StageInv'
  BY LifeAssumption DEF LifeAssumption, TypeOK, StageInv, Before, Threads
<1>4. FlagInv'
  BY DEF TypeOK, ActInv, StageInv, FlagInv, Threads
<1>5. SocketInv' /\ ListenerServes'
  BY DEF TypeOK, ActInv, StageInv, FlagInv, SocketInv, ListenerServes, Before, Threads
<1>6. JoinInv'
  BY DEF TypeOK, ActInv, StageInv, JoinInv, Joined, Before, Threads
<1>7. NoLateShutdown'
  BY DEF TypeOK, NoLateShutdown, TearingDown, Threads
<1>8. NoEarlyEnd'
  BY LifeAssumption DEF LifeAssumption, TypeOK, StageInv, NoEarlyEnd, Threads
<1> QED
  BY <1>1, <1>2, <1>3, <1>4, <1>5, <1>6, <1>7, <1>8

LEMMA MainJoinsIInv ==
  ASSUME IInv, MainJoins
  PROVE  IInv'
<1> USE Facts DEF IInv, At, Busy, Ended, Over, Go, Lock, Unlock, Same, SameSocket, settings,
    MainJoins
<1>1. TypeOK'
  BY LifeAssumption DEF LifeAssumption, TypeOK, ActInv, StageInv, MainPlaces, HttpPlaces, Inside,
     Threads, Stops
<1>2. ActInv'
  BY DEF TypeOK, ActInv, StageInv, NoCall, Threads
<1>3. StageInv'
  BY LifeAssumption DEF LifeAssumption, TypeOK, StageInv, Before, Threads
<1>4. FlagInv'
  BY DEF TypeOK, ActInv, StageInv, FlagInv, Threads
<1>5. SocketInv' /\ ListenerServes'
  BY DEF TypeOK, ActInv, StageInv, FlagInv, SocketInv, ListenerServes, Before, Threads
<1>6. JoinInv'
  BY DEF TypeOK, ActInv, StageInv, JoinInv, Joined, Before, Threads
<1>7. NoLateShutdown'
  <2>1. CASE at'["main"] = "stopMedia"
    <3>1. \A t \in Threads \ {"main"} : Joined(t)
      BY <2>1 DEF TypeOK, JoinInv, Joined, Threads
    <3>2. \A k \in Stops : act[k].on \notin Threads
      BY <3>1 DEF ActInv, Joined
    <3>3. \A k \in Stops : act[k].at = "idle"
      BY <3>2 DEF TypeOK, ActInv, NoCall
    <3> QED
      BY <3>3 DEF NoLateShutdown
  <2>2. CASE at'["main"] # "stopMedia"
    BY <2>2 DEF TypeOK, NoLateShutdown, TearingDown, Threads
  <2> QED
    BY <2>1, <2>2
<1>8. NoEarlyEnd'
  BY LifeAssumption DEF LifeAssumption, TypeOK, StageInv, NoEarlyEnd, Threads
<1> QED
  BY <1>1, <1>2, <1>3, <1>4, <1>5, <1>6, <1>7, <1>8

LEMMA MainCleansUpIInv ==
  ASSUME IInv, MainCleansUp
  PROVE  IInv'
<1> USE Facts DEF IInv, At, Busy, Ended, Over, Go, Lock, Unlock, Same, SameSocket, settings,
    MainCleansUp
<1>1. TypeOK'
  BY LifeAssumption DEF LifeAssumption, TypeOK, ActInv, StageInv, MainPlaces, HttpPlaces, Inside,
     Threads, Stops
<1>2. ActInv'
  BY DEF TypeOK, ActInv, StageInv, NoCall, Threads
<1>3. StageInv'
  BY LifeAssumption DEF LifeAssumption, TypeOK, StageInv, Before, Threads
<1>4. FlagInv'
  BY DEF TypeOK, ActInv, StageInv, FlagInv, Threads
<1>5. SocketInv' /\ ListenerServes'
  BY DEF TypeOK, ActInv, StageInv, FlagInv, SocketInv, ListenerServes, Before, Threads
<1>6. JoinInv'
  BY DEF TypeOK, ActInv, StageInv, JoinInv, Joined, Before, Threads
<1>7. NoLateShutdown'
  BY DEF TypeOK, NoLateShutdown, TearingDown, Threads
<1>8. NoEarlyEnd'
  BY LifeAssumption DEF LifeAssumption, TypeOK, StageInv, NoEarlyEnd, Threads
<1> QED
  BY <1>1, <1>2, <1>3, <1>4, <1>5, <1>6, <1>7, <1>8

LEMMA VideoIInv ==
  ASSUME IInv, Video
  PROVE  IInv'
<1> USE Facts DEF IInv, At, Busy, Ended, Over, Go, Lock, Unlock, Same, SameSocket, settings,
    Video
<1>1. TypeOK'
  BY LifeAssumption DEF LifeAssumption, TypeOK, ActInv, StageInv, MainPlaces, HttpPlaces, Inside,
     Threads, Stops
<1>2. ActInv'
  BY DEF TypeOK, ActInv, StageInv, NoCall, Threads
<1>3. StageInv'
  BY LifeAssumption DEF LifeAssumption, TypeOK, StageInv, Before, Threads
<1>4. FlagInv'
  BY DEF TypeOK, ActInv, StageInv, FlagInv, Threads
<1>5. SocketInv' /\ ListenerServes'
  BY DEF TypeOK, ActInv, StageInv, FlagInv, SocketInv, ListenerServes, Before, Threads
<1>6. JoinInv'
  BY DEF TypeOK, ActInv, StageInv, JoinInv, Joined, Before, Threads
<1>7. NoLateShutdown'
  BY DEF TypeOK, NoLateShutdown, TearingDown, Threads
<1>8. NoEarlyEnd'
  BY LifeAssumption DEF LifeAssumption, TypeOK, StageInv, NoEarlyEnd, Threads
<1> QED
  BY <1>1, <1>2, <1>3, <1>4, <1>5, <1>6, <1>7, <1>8

LEMMA TickIInv ==
  ASSUME IInv, Tick
  PROVE  IInv'
<1> USE Facts DEF IInv, At, Busy, Ended, Over, Go, Lock, Unlock, Same, SameSocket, settings,
    Tick
<1>1. TypeOK'
  BY LifeAssumption DEF LifeAssumption, TypeOK, ActInv, StageInv, MainPlaces, HttpPlaces, Inside,
     Threads, Stops
<1>2. ActInv'
  BY DEF TypeOK, ActInv, StageInv, NoCall, Threads
<1>3. StageInv'
  BY LifeAssumption DEF LifeAssumption, TypeOK, StageInv, Before, Threads
<1>4. FlagInv'
  BY DEF TypeOK, ActInv, StageInv, FlagInv, Threads
<1>5. SocketInv' /\ ListenerServes'
  BY DEF TypeOK, ActInv, StageInv, FlagInv, SocketInv, ListenerServes, Before, Threads
<1>6. JoinInv'
  BY DEF TypeOK, ActInv, StageInv, JoinInv, Joined, Before, Threads
<1>7. NoLateShutdown'
  BY DEF TypeOK, NoLateShutdown, TearingDown, Threads
<1>8. NoEarlyEnd'
  BY LifeAssumption DEF LifeAssumption, TypeOK, StageInv, NoEarlyEnd, Threads
<1> QED
  BY <1>1, <1>2, <1>3, <1>4, <1>5, <1>6, <1>7, <1>8

LEMMA HttpStartsIInv ==
  ASSUME IInv, (HttpBinds \/ HttpPublishes)
  PROVE  IInv'
<1> USE Facts DEF IInv, At, Busy, Ended, Over, Go, Lock, Unlock, Same, SameSocket, settings,
    HttpBinds, HttpPublishes, Withdrawn
<1>1. TypeOK'
  BY LifeAssumption DEF LifeAssumption, TypeOK, ActInv, StageInv, MainPlaces, HttpPlaces, Inside,
     Threads, Stops
<1>2. ActInv'
  BY DEF TypeOK, ActInv, StageInv, NoCall, Threads
<1>3. StageInv'
  BY LifeAssumption DEF LifeAssumption, TypeOK, StageInv, Before, Threads
<1>4. FlagInv'
  BY DEF TypeOK, ActInv, StageInv, FlagInv, Threads
<1>5. SocketInv' /\ ListenerServes'
  BY DEF TypeOK, ActInv, StageInv, FlagInv, SocketInv, ListenerServes, Before, Threads
<1>6. JoinInv'
  BY DEF TypeOK, ActInv, StageInv, JoinInv, Joined, Before, Threads
<1>7. NoLateShutdown'
  BY DEF TypeOK, NoLateShutdown, TearingDown, Threads
<1>8. NoEarlyEnd'
  BY LifeAssumption DEF LifeAssumption, TypeOK, StageInv, NoEarlyEnd, Threads
<1> QED
  BY <1>1, <1>2, <1>3, <1>4, <1>5, <1>6, <1>7, <1>8

LEMMA HttpWaitsIInv ==
  ASSUME IInv, (HttpLoops \/ HttpPolls \/ HttpAccepts)
  PROVE  IInv'
<1> USE Facts DEF IInv, At, Busy, Ended, Over, Go, Lock, Unlock, Same, SameSocket, settings,
    HttpLoops, HttpPolls, HttpAccepts
<1>1. TypeOK'
  BY LifeAssumption DEF LifeAssumption, TypeOK, ActInv, StageInv, MainPlaces, HttpPlaces, Inside,
     Threads, Stops
<1>2. ActInv'
  BY DEF TypeOK, ActInv, StageInv, NoCall, Threads
<1>3. StageInv'
  BY LifeAssumption DEF LifeAssumption, TypeOK, StageInv, Before, Threads
<1>4. FlagInv'
  BY DEF TypeOK, ActInv, StageInv, FlagInv, Threads
<1>5. SocketInv' /\ ListenerServes'
  BY DEF TypeOK, ActInv, StageInv, FlagInv, SocketInv, ListenerServes, Before, Threads
<1>6. JoinInv'
  BY DEF TypeOK, ActInv, StageInv, JoinInv, Joined, Before, Threads
<1>7. NoLateShutdown'
  BY DEF TypeOK, NoLateShutdown, TearingDown, Threads
<1>8. NoEarlyEnd'
  BY LifeAssumption DEF LifeAssumption, TypeOK, StageInv, NoEarlyEnd, Threads
<1> QED
  BY <1>1, <1>2, <1>3, <1>4, <1>5, <1>6, <1>7, <1>8

LEMMA HttpServesIInv ==
  ASSUME IInv, (HttpReceives \/ HttpHandles \/ HttpAnswers)
  PROVE  IInv'
<1> USE Facts DEF IInv, At, Busy, Ended, Over, Go, Lock, Unlock, Same, SameSocket, settings,
    HttpReceives, HttpHandles, HttpAnswers
<1>1. TypeOK'
  BY LifeAssumption DEF LifeAssumption, TypeOK, ActInv, StageInv, MainPlaces, HttpPlaces, Inside,
     Threads, Stops
<1>2. ActInv'
  BY DEF TypeOK, ActInv, StageInv, NoCall, Threads
<1>3. StageInv'
  BY LifeAssumption DEF LifeAssumption, TypeOK, StageInv, Before, Threads
<1>4. FlagInv'
  BY DEF TypeOK, ActInv, StageInv, FlagInv, Before, Threads
<1>5. SocketInv' /\ ListenerServes'
  BY DEF TypeOK, ActInv, StageInv, FlagInv, SocketInv, ListenerServes, Before, Threads
<1>6. JoinInv'
  BY DEF TypeOK, ActInv, StageInv, JoinInv, Joined, Before, Threads
<1>7. NoLateShutdown'
  BY DEF TypeOK, NoLateShutdown, TearingDown, Threads
<1>8. NoEarlyEnd'
  BY LifeAssumption DEF LifeAssumption, TypeOK, StageInv, NoEarlyEnd, Threads
<1> QED
  BY <1>1, <1>2, <1>3, <1>4, <1>5, <1>6, <1>7, <1>8

LEMMA HttpEndsIInv ==
  ASSUME IInv, (HttpCloses \/ HttpEnds)
  PROVE  IInv'
<1> USE Facts DEF IInv, At, Busy, Ended, Over, Go, Lock, Unlock, Same, SameSocket, settings,
    HttpCloses, HttpEnds
<1>1. TypeOK'
  BY LifeAssumption DEF LifeAssumption, TypeOK, ActInv, StageInv, MainPlaces, HttpPlaces, Inside,
     Threads, Stops
<1>2. ActInv'
  BY DEF TypeOK, ActInv, StageInv, NoCall, Threads
<1>3. StageInv'
  BY LifeAssumption DEF LifeAssumption, TypeOK, StageInv, Before, Threads
<1>4. FlagInv'
  BY DEF TypeOK, ActInv, StageInv, FlagInv, Threads
<1>5. SocketInv' /\ ListenerServes'
  BY DEF TypeOK, ActInv, StageInv, FlagInv, SocketInv, ListenerServes, Before, Threads
<1>6. JoinInv'
  BY DEF TypeOK, ActInv, StageInv, JoinInv, Joined, Before, Threads
<1>7. NoLateShutdown'
  BY DEF TypeOK, NoLateShutdown, TearingDown, Threads
<1>8. NoEarlyEnd'
  BY LifeAssumption DEF LifeAssumption, TypeOK, StageInv, NoEarlyEnd, Threads
<1> QED
  BY <1>1, <1>2, <1>3, <1>4, <1>5, <1>6, <1>7, <1>8

LEMMA ClientIInv ==
  ASSUME IInv, (Client \/ UNCHANGED vars)
  PROVE  IInv'
<1> USE Facts DEF IInv, At, Busy, Ended, Over, Go, Lock, Unlock, Same, SameSocket, settings,
    Client, vars
<1>1. TypeOK'
  BY LifeAssumption DEF LifeAssumption, TypeOK, ActInv, StageInv, MainPlaces, HttpPlaces, Inside,
     Threads, Stops
<1>2. ActInv'
  BY DEF TypeOK, ActInv, StageInv, NoCall, Threads
<1>3. StageInv'
  BY LifeAssumption DEF LifeAssumption, TypeOK, StageInv, Before, Threads
<1>4. FlagInv'
  BY DEF TypeOK, ActInv, StageInv, FlagInv, Threads
<1>5. SocketInv' /\ ListenerServes'
  BY DEF TypeOK, ActInv, StageInv, FlagInv, SocketInv, ListenerServes, Before, Threads
<1>6. JoinInv'
  BY DEF TypeOK, ActInv, StageInv, JoinInv, Joined, Before, Threads
<1>7. NoLateShutdown'
  BY DEF TypeOK, NoLateShutdown, TearingDown, Threads
<1>8. NoEarlyEnd'
  BY LifeAssumption DEF LifeAssumption, TypeOK, StageInv, NoEarlyEnd, Threads
<1> QED
  BY <1>1, <1>2, <1>3, <1>4, <1>5, <1>6, <1>7, <1>8

LEMMA InitIInv == Init => IInv
<1> SUFFICES ASSUME Init PROVE IInv
  OBVIOUS
<1> USE Facts DEF Init, NoCall
<1>1. TypeOK
  <2>1. act \in [Stops -> [on : Threads \cup {NoThread}, at : {"idle", "lock", "locked", "shut"},
                          fd : {"zero", "none", "server"}]]
    OBVIOUS
  <2>2. at \in [Threads -> MainPlaces \cup HttpPlaces \cup {"read", "counting", "tick", "ticking"}]
    BY DEF MainPlaces, HttpPlaces
  <2>3. /\ at["main"] \in MainPlaces /\ at["http"] \in HttpPlaces
        /\ at["video"] \in {"none", "loop", "read", "count", "counting", "done"}
        /\ at["monitor"] \in {"none", "loop", "tick", "ticking", "done"}
    BY DEF MainPlaces, HttpPlaces, Threads
  <2>4. total \in 0 .. limit + MoreFrames /\ sent \in Stops /\ todo \in 0 .. 5
    BY LifeAssumption DEF LifeAssumption, Stops
  <2> QED
    BY <2>1, <2>2, <2>3, <2>4 DEF TypeOK
<1>2. ActInv /\ FlagInv /\ NoLateShutdown
  BY DEF ActInv, FlagInv, NoLateShutdown, TearingDown, Threads
<1>3. StageInv /\ SocketInv /\ JoinInv
  BY DEF StageInv, SocketInv, JoinInv, Joined, Before, Threads
<1>4. ListenerServes /\ NoEarlyEnd
  BY DEF ListenerServes, NoEarlyEnd, Threads
<1> QED
  BY <1>1, <1>2, <1>3, <1>4 DEF IInv

LEMMA StepIInv == IInv /\ [Next]_vars => IInv'
<1> SUFFICES ASSUME IInv, [Next]_vars PROVE IInv'
  OBVIOUS
<1>1. ASSUME NEW t \in Threads, Signal(t) PROVE IInv'
  BY <1>1, SignalIInv
<1>2. ASSUME NEW t \in Threads, Run(t) PROVE IInv'
  <2>1. CASE \E i \in Stops : act[i].on = t /\ Stop(i)
    BY <2>1, StopIInv
  <2>2. CASE Main
    BY <2>2, MonitorInitIInv, SetupIInv, OptionsIInv, CreateIInv, MainLoopsIInv, MainCountsIInv,
       MainEndsIInv, MainJoinsIInv, MainCleansUpIInv DEF Main
  <2>3. CASE Video \/ Tick
    BY <2>3, VideoIInv, TickIInv
  <2>4. CASE Http
    BY <2>4, HttpStartsIInv, HttpWaitsIInv, HttpServesIInv, HttpEndsIInv DEF Http
  <2> QED
    BY <1>2, <2>1, <2>2, <2>3, <2>4 DEF Run
<1>3. CASE Client \/ UNCHANGED vars
  BY <1>3, ClientIInv
<1> QED
  BY <1>1, <1>2, <1>3 DEF Next

LEMMA Invariant == SafeSpec => []IInv
<1>1. Init => IInv
  BY InitIInv
<1>2. IInv /\ [Next]_vars => IInv'
  BY StepIInv
<1> QED
  BY <1>1, <1>2, PTL DEF SafeSpec
----------------------------------------------------------------------------
(* Every variable keeps its type, and monitor.lock is held only inside a     *)
(* critical section (or by the thread on which the program was killed).      *)
THEOREM LifeTypeCorrect == SafeSpec => []TypeOK
<1>1. IInv => TypeOK
  BY DEF IInv
<1> QED
  BY <1>1, Invariant, PTL

(* The listener is shut down, and the HTTP thread leaves its loop, only when *)
(* the end was asked for, or after an error of poll.                         *)
THEOREM ListenerIsServed == SafeSpec => []ListenerServes
<1>1. IInv => ListenerServes
  BY DEF IInv
<1> QED
  BY <1>1, Invariant, PTL

(* However many handlers are stacked on the threads, http_server_stop never  *)
(* shuts down a descriptor it has read once main takes the media down: its    *)
(* step from the lock to the shutdown is over by then, or never begins.      *)
THEOREM NoShutdownInTeardown == SafeSpec => []NoLateShutdown
<1>1. IInv => NoLateShutdown
  BY DEF IInv
<1> QED
  BY <1>1, Invariant, PTL

(* Without a signal the loop of main ends only when the frames of -n were    *)
(* counted.                                                                  *)
THEOREM EndsOnlyWhenAsked == SafeSpec => []NoEarlyEnd
<1>1. IInv => NoEarlyEnd
  BY DEF IInv
<1> QED
  BY <1>1, Invariant, PTL

(* When main tears the media down, every other thread has been joined, with  *)
(* the handlers on their stacks, nobody else holds the lock, and the socket  *)
(* is closed.                                                                *)
THEOREM TeardownAlone == SafeSpec => []TeardownIsAlone
<1>1. IInv => TeardownIsAlone
  <2> SUFFICES ASSUME IInv, at["main"] \in {"stopMedia", "reset", "resetting", "close", "exited"}
               PROVE  /\ \A t \in Threads \ {"main"} : Joined(t)
                      /\ owner \in {"main", NoThread}
                      /\ listen_fd = "none" /\ server_fd \in {"none", "closed", "hit"}
    BY DEF TeardownIsAlone, TearingDown
  <2>1. \A t \in Threads \ {"main"} : Joined(t)
    BY DEF IInv, JoinInv, Threads
  <2>2. ASSUME owner \in Threads \ {"main"} PROVE FALSE
    <3>1. at[owner] \in {"none", "done"}
      BY <2>1, <2>2 DEF Joined
    <3>2. ~Inside(owner)
      BY <3>1 DEF Inside
    <3>3. \A i \in Stops : act[i].on # owner
      BY <3>1, <2>2 DEF IInv, ActInv
    <3> QED
      BY <2>2, <3>2, <3>3, Facts DEF IInv, TypeOK
  <2>3. owner \in {"main", NoThread}
    BY <2>2 DEF IInv, TypeOK
  <2>4. at["http"] \in {"none", "done"}
    BY <2>1 DEF Joined, Threads
  <2>5. listen_fd = "none" /\ server_fd \in {"none", "closed", "hit"}
    BY <2>4 DEF IInv, TypeOK, StageInv, SocketInv
  <2> QED
    BY <2>1, <2>3, <2>5
<1> QED
  BY <1>1, Invariant, PTL

(* The recorder and MediaMTX get their calls from one thread at a time: no    *)
(* request is handled while main works on its options or tears down, which    *)
(* is what MediaControl takes for granted.                                   *)
THEOREM CommandsTakeTurns ==
  SafeSpec => [](at["http"] \in {"handle", "handling"} =>
                   at["main"] \notin {"options", "option", "stopMedia", "reset", "resetting",
                                     "close", "exited"})
<1>1. IInv => (at["http"] \in {"handle", "handling"} =>
                 at["main"] \notin {"options", "option", "stopMedia", "reset", "resetting",
                                   "close", "exited"})
  BY DEF IInv, StageInv, Before, JoinInv, Joined
<1>2. QED
  BY <1>1, Invariant, PTL
=============================================================================
