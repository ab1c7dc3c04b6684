------------------------------ MODULE MediaMtx ------------------------------
(***************************************************************************)
(* src/src/mediamtx_manager.c: the RTSP server MediaMTX as a child process *)
(* of the program, and the probe of the port it listens on.                *)
(*                                                                         *)
(* One thread at a time calls mediamtx_manager_start and _stop.  Each      *)
(* system call of theirs that another process can run before or after is   *)
(* a step of its own: the probe, the fork, the look at the child one       *)
(* second later, the second probe, the wait for a child that was killed.   *)
(*                                                                         *)
(* Process ids are never reused: Children bounds how often the program can *)
(* fork.  A server that somebody else started may own the port instead.    *)
(***************************************************************************)
EXTENDS Naturals, FiniteSets

CONSTANTS Children,    \* process ids the children get
          NoChild,     \* pid -1
          MtxFaults    \* what the environment may do wrong

ASSUME MtxAssumption ==
  /\ NoChild \notin Children
  /\ MtxFaults \subseteq {"fork", "boot", "slow", "crash", "foreign", "probe"}

VARIABLES mgr,      \* the fields pid and started_by_us of mediamtx_manager_t
          mpc,      \* where the caller is
          spawned,  \* the local pid of mediamtx_manager_start
          mret,     \* what the last mediamtx_manager_start returned
          child,    \* the state of each process
          foreign,  \* someone else's server listens on the port
          calm      \* no such server has come or gone, and no start has missed a
                    \* server with its first probe; for the properties only

vars == <<mgr, mpc, spawned, mret, child, foreign, calm>>

TypeOK ==
  /\ mgr \in [pid : Children \cup {NoChild}, started_by_us : BOOLEAN]
  /\ mpc \in {"idle", "probe", "fork", "look", "reprobe", "reap", "stop", "stopWait", "exited"}
  /\ spawned \in Children \cup {NoChild}
  /\ mret \in {"ok", "fail"}
  /\ child \in [Children -> {"unborn", "booting", "listening", "dying", "zombie", "reaped"}]
  /\ foreign \in BOOLEAN /\ calm \in BOOLEAN

(* mediamtx_manager_init: no child yet.  A server may be there already.     *)
Init ==
  /\ mgr = [pid |-> NoChild, started_by_us |-> FALSE]
  /\ mpc = "idle"
  /\ spawned = NoChild
  /\ mret = "ok"
  /\ child = [k \in Children |-> "unborn"]
  /\ foreign \in BOOLEAN
  /\ calm = TRUE

(* A connect to the port would succeed. *)
PortTaken == foreign \/ \E k \in Children : child[k] = "listening"

(* tcp_port_listening may return `answer`.  Without a descriptor left for its *)
(* own socket it says no, whoever listens.                                  *)
PortListening(answer) == IF answer THEN PortTaken ELSE ~PortTaken \/ "probe" \in MtxFaults

Running(k) == child[k] \in {"booting", "listening", "dying"}

Returns(v) == mpc' = "idle" /\ mret' = v
----------------------------------------------------------------------------
(* mediamtx_manager_start.  The bound Children: it is not called when a fork *)
(* would find no fresh process id.                                          *)
CallStart ==
  /\ mpc = "idle"
  /\ \E k \in Children : child[k] = "unborn"
  /\ mpc' = "probe"
  /\ spawned' = NoChild
  /\ UNCHANGED <<mgr, mret, child, foreign, calm>>

(* Faulty variant: a start that does not probe the port. *)
ForkUnprobed == mpc = "probe" /\ mpc' = "fork" /\ UNCHANGED <<mgr, mret, calm>>

(* A server that answers is reused and, whoever started it, is no longer     *)
(* the manager's child.                                                     *)
ProbeOrReuse ==
  /\ mpc = "probe"
  /\ \/ /\ PortListening(TRUE)
        /\ mgr' = [pid |-> NoChild, started_by_us |-> FALSE]
        /\ Returns("ok")
        /\ UNCHANGED calm
     \/ /\ PortListening(FALSE)
        /\ mpc' = "fork"
        /\ calm' = (calm /\ ~PortTaken)
        /\ UNCHANGED <<mgr, mret>>

Probe == ProbeOrReuse /\ UNCHANGED <<spawned, child, foreign>>

ForkFails ==
  /\ "fork" \in MtxFaults
  /\ mpc = "fork"
  /\ Returns("fail")
  /\ UNCHANGED <<mgr, spawned, child, foreign, calm>>

(* Faulty variant: the child owned before it is known to serve. *)
ForkRecordsEarly(k) ==
  /\ mpc = "fork"
  /\ child[k] = "unborn"
  /\ child' = [child EXCEPT ![k] = "booting"]
  /\ spawned' = k
  /\ mgr' = [pid |-> k, started_by_us |-> TRUE]
  /\ mpc' = "look"
  /\ UNCHANGED <<mret, foreign, calm>>

Fork(k) ==
  /\ mpc = "fork"
  /\ child[k] = "unborn"
  /\ child' = [child EXCEPT ![k] = "booting"]
  /\ spawned' = k
  /\ mpc' = "look"
  /\ UNCHANGED <<mgr, mret, foreign, calm>>

(* One second later: a child that has exited is reaped and the start fails.  *)
Exited(k) == child[k] = "zombie"

LookGone ==
  /\ mpc = "look"
  /\ Exited(spawned)
  /\ child' = [child EXCEPT ![spawned] = "reaped"]
  /\ Returns("fail")
  /\ UNCHANGED <<mgr, spawned, foreign, calm>>

LookAlive ==
  /\ mpc = "look"
  /\ ~Exited(spawned)
  /\ child[spawned] = "booting" => "slow" \in MtxFaults
  /\ mpc' = "reprobe"
  /\ UNCHANGED <<mgr, spawned, mret, child, foreign, calm>>

RecordChild == mgr' = [pid |-> spawned, started_by_us |-> TRUE]

ReprobeListening ==
  /\ mpc = "reprobe"
  /\ PortListening(TRUE)
  /\ RecordChild
  /\ Returns("ok")
  /\ UNCHANGED <<spawned, child, foreign, calm>>

(* Faulty variant: no SIGTERM. *)
LeftAlone(k) == child

Terminated(k) == [child EXCEPT ![k] = IF Running(k) THEN "dying" ELSE @]

(* The child is not found serving in time: kill it and wait for its end.     *)
ReprobeSilent ==
  /\ mpc = "reprobe"
  /\ PortListening(FALSE)
  /\ child' = Terminated(spawned)
  /\ mpc' = "reap"
  /\ UNCHANGED <<mgr, spawned, mret, foreign, calm>>

(* Faulty variant: a failed start that does not wait for its child. *)
ReapNoWait ==
  /\ mpc = "reap"
  /\ Returns("fail")
  /\ UNCHANGED <<mgr, spawned, child, foreign, calm>>

Reap ==
  /\ mpc = "reap"
  /\ child[spawned] = "zombie"
  /\ child' = [child EXCEPT ![spawned] = "reaped"]
  /\ Returns("fail")
  /\ UNCHANGED <<mgr, spawned, foreign, calm>>
----------------------------------------------------------------------------
(* mediamtx_manager_stop, which main calls once, before it exits.           *)
CallStop ==
  /\ mpc = "idle"
  /\ mpc' = "stop"
  /\ UNCHANGED <<mgr, spawned, mret, child, foreign, calm>>

StopNothing ==
  /\ mpc = "stop"
  /\ ~mgr.started_by_us \/ mgr.pid = NoChild
  /\ mpc' = "exited"
  /\ UNCHANGED <<mgr, spawned, mret, child, foreign, calm>>

StopKill ==
  /\ mpc = "stop"
  /\ mgr.started_by_us /\ mgr.pid # NoChild
  /\ child' = Terminated(mgr.pid)
  /\ mpc' = "stopWait"
  /\ UNCHANGED <<mgr, spawned, mret, foreign, calm>>

StopReap ==
  /\ mpc = "stopWait"
  /\ child[mgr.pid] = "zombie"
  /\ child' = [child EXCEPT ![mgr.pid] = "reaped"]
  /\ mgr' = [pid |-> NoChild, started_by_us |-> FALSE]
  /\ mpc' = "exited"
  /\ UNCHANGED <<spawned, mret, foreign, calm>>
----------------------------------------------------------------------------
(* The processes.  A server binds the port if it is free, and exits if not. *)
ChildListens(k) ==
  /\ child[k] = "booting"
  /\ ~PortTaken
  /\ child' = [child EXCEPT ![k] = "listening"]
  /\ UNCHANGED <<mgr, mpc, spawned, mret, foreign, calm>>

ChildExits(k) ==
  /\ \/ child[k] = "booting" /\ (PortTaken \/ "boot" \in MtxFaults)
     \/ child[k] = "listening" /\ "crash" \in MtxFaults
     \/ child[k] = "dying"
  /\ child' = [child EXCEPT ![k] = "zombie"]
  /\ UNCHANGED <<mgr, mpc, spawned, mret, foreign, calm>>

ForeignChanges ==
  /\ "foreign" \in MtxFaults
  /\ foreign \/ ~PortTaken
  /\ foreign' = ~foreign
  /\ calm' = FALSE
  /\ UNCHANGED <<mgr, mpc, spawned, mret, child>>
----------------------------------------------------------------------------
Calls == CallStart \/ CallStop

Manager ==
  \/ Probe \/ ForkFails \/ (\E k \in Children : Fork(k))
  \/ LookGone \/ LookAlive \/ ReprobeListening \/ ReprobeSilent \/ Reap
  \/ StopNothing \/ StopKill \/ StopReap

Processes == ForeignChanges \/ \E k \in Children : ChildListens(k) \/ ChildExits(k)

Next == Calls \/ Manager \/ Processes

(* The caller runs on, and a child that was sent SIGTERM, or that has just   *)
(* been started, gets somewhere.                                            *)
Fairness ==
  /\ WF_vars(Manager)
  /\ \A k \in Children :
       /\ WF_vars(ChildExits(k) /\ child[k] = "dying")
       /\ WF_vars(child[k] = "booting" /\ (ChildListens(k) \/ ChildExits(k)))

SafeSpec == Init /\ [][Next]_vars
Spec == SafeSpec /\ Fairness
----------------------------------------------------------------------------
(* Properties *)

(* The pid the manager would kill is that of a child it has not waited for:  *)
(* a zombie keeps its pid, so SIGTERM never reaches a stranger that got the  *)
(* same number.                                                             *)
KillsOwnChild ==
  /\ mgr.started_by_us => mgr.pid # NoChild /\ child[mgr.pid] \notin {"unborn", "reaped"}
  /\ mpc \in {"look", "reprobe", "reap"} => child[spawned] \notin {"unborn", "reaped"}

(* A start that fails leaves nothing behind: the child it forked is gone.   *)
FailedStartLeavesNoChild ==
  (mpc = "idle" /\ mret = "fail" /\ spawned # NoChild) => child[spawned] = "reaped"

(* Repeated starts never pile up servers: one that runs is found by the      *)
(* probe and reused.  A foreign server that comes and goes between the two   *)
(* probes of a start breaks this, and so does a first probe that finds no    *)
(* descriptor for its socket and misses the server: until one of these has   *)
(* happened it holds, whatever the children and the second probes do.        *)
OneServerAtMost == calm => \A j, k \in Children : Running(j) /\ Running(k) => j = k

(* While the manager believes it owns the server, no other child runs: if    *)
(* a server outlives the program, it is one the manager gave up.  The same   *)
(* two events are excepted: after them the second probe of a start may be    *)
(* answered by another server than the child it forked.                      *)
OwnsTheRunningChild ==
  (calm /\ mpc = "idle" /\ mgr.started_by_us) =>
     \A k \in Children : Running(k) => k = mgr.pid

(* A call waits without a time limit only for a child that has got SIGTERM,  *)
(* in a failed start as well as at the end of the program.                   *)
WaitsForKilled ==
  /\ mpc = "reap" => child[spawned] \in {"dying", "zombie"}
  /\ mpc = "stopWait" => child[mgr.pid] \in {"dying", "zombie"}

(* Every call returns: the waits for a killed child end. *)
MtxCallsReturn == mpc \notin {"idle", "exited"} ~> mpc \in {"idle", "exited"}

(* docs/architecture.md:58 says MediaMTX is cleaned up when the program      *)
(* exits: after the final mediamtx_manager_stop no child of it runs.         *)
CleanedUpOnExit == mpc = "exited" => \A k \in Children : ~Running(k)
=============================================================================
