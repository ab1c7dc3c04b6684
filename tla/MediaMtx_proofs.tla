-------------------------- MODULE MediaMtx_proofs --------------------------
(***************************************************************************)
(* MediaMtx, proved for any number of forks: that the manager only kills   *)
(* its own children and that failed starts leave none, whatever happens;   *)
(* and, until another server comes or goes or a start misses one with its  *)
(* first probe, that servers do not pile up.                               *)
(***************************************************************************)
EXTENDS MediaMtx, TLAPS

Forked == {"look", "reprobe", "reap"}
Known(k) == child[k] \notin {"unborn", "reaped"}

(* The child a start has forked is not the one the manager already owns.     *)
SpawnInv ==
  /\ mpc \in {"probe", "fork"} => spawned = NoChild
  /\ mpc \in Forked => spawned \in Children /\ Known(spawned) /\ spawned # mgr.pid

(* The two fields of the manager agree, and name a child not yet waited for. *)
OwnInv ==
  /\ mgr.started_by_us <=> mgr.pid # NoChild
  /\ mgr.pid # NoChild => Known(mgr.pid)
  /\ mpc = "stopWait" => mgr.pid # NoChild

IInv == TypeOK /\ SpawnInv /\ OwnInv /\ FailedStartLeavesNoChild

(* What is true besides while no other server has come or gone and no first  *)
(* probe has missed one: at each point of a start and between the calls it   *)
(* is known which child may run.                                            *)
ServerInv ==
  /\ mpc \in {"fork"} \cup Forked => ~foreign
  /\ mpc = "fork" => \A k \in Children : ~Running(k)
  /\ mpc \in Forked => \A k \in Children : Running(k) => k = spawned
  /\ mpc \in {"idle", "probe"} =>
       \A k \in Children : Running(k) =>
          child[k] = "listening" /\ (mgr.started_by_us => k = mgr.pid)
  /\ OneServerAtMost

LEMMA InitIInv == Init => IInv
  BY MtxAssumption
  DEF MtxAssumption, Init, IInv, TypeOK, SpawnInv, OwnInv, Forked, FailedStartLeavesNoChild

LEMMA CallIInv == IInv /\ (CallStart \/ CallStop) => IInv'
<1> SUFFICES ASSUME IInv, (CallStart \/ CallStop) PROVE IInv'
  OBVIOUS
<1> USE MtxAssumption DEF MtxAssumption, CallStart, CallStop, IInv
<1>1. TypeOK'
  BY DEF TypeOK, SpawnInv, OwnInv, Forked
<1>2. SpawnInv'
  BY DEF TypeOK, SpawnInv, OwnInv, Forked, Known
<1>3. OwnInv'
  BY DEF TypeOK, SpawnInv, OwnInv, Forked, Known
<1>4. FailedStartLeavesNoChild'
  BY DEF TypeOK, SpawnInv, Forked, FailedStartLeavesNoChild
<1> QED
  BY <1>1, <1>2, <1>3, <1>4

LEMMA ProbeIInv == IInv /\ Probe => IInv'
<1> SUFFICES ASSUME IInv, Probe PROVE IInv'
  OBVIOUS
<1> USE MtxAssumption DEF MtxAssumption, Probe, ProbeOrReuse, PortListening, PortTaken,
    Returns, IInv
<1>1. TypeOK'
  <2>1. mgr' \in [pid : Children \cup {NoChild}, started_by_us : BOOLEAN]
    <3>1. mgr' = mgr \/ mgr' = [pid |-> NoChild, started_by_us |-> FALSE]
      OBVIOUS
    <3>2. CASE mgr' = mgr
      BY <3>2, Zenon DEF TypeOK
    <3>3. CASE mgr' = [pid |-> NoChild, started_by_us |-> FALSE]
      BY <3>3 DEF TypeOK
    <3> QED
      BY <3>1, <3>2, <3>3
  <2>2. /\ mpc' \in {"idle", "probe", "fork", "look", "reprobe", "reap",
                    "stop", "stopWait", "exited"}
        /\ mret' \in {"ok", "fail"}
    BY DEF TypeOK
  <2>3. spawned' \in Children \cup {NoChild}
    BY DEF TypeOK
  <2>4. child' \in [Children -> {"unborn", "booting", "listening", "dying", "zombie", "reaped"}]
    BY DEF TypeOK, SpawnInv, OwnInv, Forked
  <2>5. foreign' \in BOOLEAN /\ calm' \in BOOLEAN
    BY DEF TypeOK
  <2> QED
    BY <2>1, <2>2, <2>3, <2>4, <2>5 DEF TypeOK
<1>2. SpawnInv'
  BY DEF TypeOK, SpawnInv, OwnInv, Forked, Known
<1>3. OwnInv'
  BY DEF TypeOK, SpawnInv, OwnInv, Forked, Known
<1>4. FailedStartLeavesNoChild'
  BY DEF TypeOK, SpawnInv, Forked, FailedStartLeavesNoChild
<1> QED
  BY <1>1, <1>2, <1>3, <1>4

LEMMA ForkIInv == IInv /\ (ForkFails \/ \E k \in Children : Fork(k)) => IInv'
<1> SUFFICES ASSUME IInv, (ForkFails \/ \E k \in Children : Fork(k)) PROVE IInv'
  OBVIOUS
<1> USE MtxAssumption DEF MtxAssumption, ForkFails, Fork, Returns, IInv
<1>1. TypeOK'
  BY DEF TypeOK, SpawnInv, OwnInv, Forked
<1>2. SpawnInv'
  BY DEF TypeOK, SpawnInv, OwnInv, Forked, Known
<1>3. OwnInv'
  BY DEF TypeOK, SpawnInv, OwnInv, Forked, Known
<1>4. FailedStartLeavesNoChild'
  BY DEF TypeOK, SpawnInv, Forked, FailedStartLeavesNoChild
<1> QED
  BY <1>1, <1>2, <1>3, <1>4

LEMMA LookIInv == IInv /\ (LookGone \/ LookAlive) => IInv'
<1> SUFFICES ASSUME IInv, (LookGone \/ LookAlive) PROVE IInv'
  OBVIOUS
<1> USE MtxAssumption DEF MtxAssumption, LookGone, LookAlive, Exited, Returns, IInv
<1>1. TypeOK'
  BY DEF TypeOK, SpawnInv, OwnInv, Forked
<1>2. SpawnInv'
  BY DEF TypeOK, SpawnInv, OwnInv, Forked, Known
<1>3. OwnInv'
  BY DEF TypeOK, SpawnInv, OwnInv, Forked, Known
<1>4. FailedStartLeavesNoChild'
  BY DEF TypeOK, SpawnInv, Forked, FailedStartLeavesNoChild
<1> QED
  BY <1>1, <1>2, <1>3, <1>4

LEMMA ReprobeIInv == IInv /\ (ReprobeListening \/ ReprobeSilent) => IInv'
<1> SUFFICES ASSUME IInv, (ReprobeListening \/ ReprobeSilent) PROVE IInv'
  OBVIOUS
<1> USE MtxAssumption DEF MtxAssumption, ReprobeListening, ReprobeSilent, RecordChild,
    PortListening, PortTaken, Terminated, Running, Returns, IInv
<1>1. TypeOK'
  <2>1. mgr' \in [pid : Children \cup {NoChild}, started_by_us : BOOLEAN]
    <3>1. mgr' = mgr \/ mgr' = [pid |-> spawned, started_by_us |-> TRUE]
      OBVIOUS
    <3>2. CASE mgr' = mgr
      BY <3>2, Zenon DEF TypeOK
    <3>3. CASE mgr' = [pid |-> spawned, started_by_us |-> TRUE]
      BY <3>3 DEF TypeOK
    <3> QED
      BY <3>1, <3>2, <3>3
  <2>2. /\ mpc' \in {"idle", "probe", "fork", "look", "reprobe", "reap",
                    "stop", "stopWait", "exited"}
        /\ mret' \in {"ok", "fail"}
    BY DEF TypeOK
  <2>3. spawned' \in Children \cup {NoChild}
    BY DEF TypeOK
  <2>4. child' \in [Children -> {"unborn", "booting", "listening", "dying", "zombie", "reaped"}]
    BY DEF TypeOK, SpawnInv, OwnInv, Forked
  <2>5. foreign' \in BOOLEAN /\ calm' \in BOOLEAN
    BY DEF TypeOK
  <2> QED
    BY <2>1, <2>2, <2>3, <2>4, <2>5 DEF TypeOK
<1>2. SpawnInv'
  BY DEF TypeOK, SpawnInv, OwnInv, Forked, Known
<1>3. OwnInv'
  BY DEF TypeOK, SpawnInv, OwnInv, Forked, Known
<1>4. FailedStartLeavesNoChild'
  BY DEF TypeOK, SpawnInv, Forked, FailedStartLeavesNoChild
<1> QED
  BY <1>1, <1>2, <1>3, <1>4

LEMMA ReapIInv == IInv /\ Reap => IInv'
<1> SUFFICES ASSUME IInv, Reap PROVE IInv'
  OBVIOUS
<1> USE MtxAssumption DEF MtxAssumption, Reap, Returns, IInv
<1>1. TypeOK'
  BY DEF TypeOK, SpawnInv, OwnInv, Forked
<1>2. SpawnInv'
  BY DEF TypeOK, SpawnInv, OwnInv, Forked, Known
<1>3. OwnInv'
  BY DEF TypeOK, SpawnInv, OwnInv, Forked, Known
<1>4. FailedStartLeavesNoChild'
  BY DEF TypeOK, SpawnInv, Forked, FailedStartLeavesNoChild
<1> QED
  BY <1>1, <1>2, <1>3, <1>4

LEMMA StopIInv == IInv /\ (StopNothing \/ StopKill \/ StopReap) => IInv'
<1> SUFFICES ASSUME IInv, (StopNothing \/ StopKill \/ StopReap) PROVE IInv'
  OBVIOUS
<1> USE MtxAssumption DEF MtxAssumption, StopNothing, StopKill, StopReap, Terminated, Running, IInv
<1>1. TypeOK'
  <2>1. mgr' \in [pid : Children \cup {NoChild}, started_by_us : BOOLEAN]
    <3>1. mgr' = mgr \/ mgr' = [pid |-> NoChild, started_by_us |-> FALSE]
      OBVIOUS
    <3>2. CASE mgr' = mgr
      BY <3>2, Zenon DEF TypeOK
    <3>3. CASE mgr' = [pid |-> NoChild, started_by_us |-> FALSE]
      BY <3>3 DEF TypeOK
    <3> QED
      BY <3>1, <3>2, <3>3
  <2>2. /\ mpc' \in {"idle", "probe", "fork", "look", "reprobe", "reap",
                    "stop", "stopWait", "exited"}
        /\ mret' \in {"ok", "fail"}
    BY DEF TypeOK
  <2>3. spawned' \in Children \cup {NoChild}
    BY DEF TypeOK
  <2>4. child' \in [Children -> {"unborn", "booting", "listening", "dying", "zombie", "reaped"}]
    BY DEF TypeOK, SpawnInv, OwnInv, Forked
  <2>5. foreign' \in BOOLEAN /\ calm' \in BOOLEAN
    BY DEF TypeOK
  <2> QED
    BY <2>1, <2>2, <2>3, <2>4, <2>5 DEF TypeOK
<1>2. SpawnInv'
  BY DEF TypeOK, SpawnInv, OwnInv, Forked, Known
<1>3. OwnInv'
  BY DEF TypeOK, SpawnInv, OwnInv, Forked, Known
<1>4. FailedStartLeavesNoChild'
  BY DEF TypeOK, SpawnInv, Forked, FailedStartLeavesNoChild
<1> QED
  BY <1>1, <1>2, <1>3, <1>4

LEMMA ProcessIInv == IInv /\ (Processes \/ UNCHANGED vars) => IInv'
<1> SUFFICES ASSUME IInv, (Processes \/ UNCHANGED vars) PROVE IInv'
  OBVIOUS
<1> USE MtxAssumption DEF MtxAssumption, Processes, ForeignChanges, ChildListens, ChildExits,
    PortTaken, vars, IInv
<1>1. TypeOK'
  BY DEF TypeOK, SpawnInv, OwnInv, Forked
<1>2. SpawnInv'
  BY DEF TypeOK, SpawnInv, OwnInv, Forked, Known
<1>3. OwnInv'
  BY DEF TypeOK, SpawnInv, OwnInv, Forked, Known
<1>4. FailedStartLeavesNoChild'
  BY DEF TypeOK, SpawnInv, Forked, FailedStartLeavesNoChild
<1> QED
  BY <1>1, <1>2, <1>3, <1>4

LEMMA StepIInv == IInv /\ [Next]_vars => IInv'
<1> SUFFICES ASSUME IInv, [Next]_vars PROVE IInv'
  OBVIOUS
<1>1. CASE Calls
  BY <1>1, CallIInv DEF Calls
<1>2. CASE Manager
  BY <1>2, ProbeIInv, ForkIInv, LookIInv, ReprobeIInv, ReapIInv, StopIInv DEF Manager
<1>3. CASE Processes \/ UNCHANGED vars
  BY <1>3, ProcessIInv
<1> QED
  BY <1>1, <1>2, <1>3 DEF Next

LEMMA Invariant == SafeSpec => []IInv
<1>1. Init => IInv
  BY InitIInv
<1>2. IInv /\ [Next]_vars => IInv'
  BY StepIInv
<1> QED
  BY <1>1, <1>2, PTL DEF SafeSpec

(* The type invariant of the manager. *)
THEOREM MtxTypeCorrect == SafeSpec => []TypeOK
<1>1. IInv => TypeOK
  BY DEF IInv
<1> QED
  BY <1>1, Invariant, PTL

(* The manager only signals and waits for children it has not waited for,    *)
(* whatever servers come and go and whatever fails.                         *)
THEOREM OnlyOwnChildrenKilled == SafeSpec => []KillsOwnChild
<1>1. IInv => KillsOwnChild
  BY DEF IInv, SpawnInv, OwnInv, KillsOwnChild, Known, Forked
<1> QED
  BY <1>1, Invariant, PTL

(* A start that fails has waited for the child it forked. *)
THEOREM FailedStartsLeaveNothing == SafeSpec => []FailedStartLeavesNoChild
<1>1. IInv => FailedStartLeavesNoChild
  BY DEF IInv
<1> QED
  BY <1>1, Invariant, PTL

LEMMA CallServerInv ==
  ASSUME calm, calm', IInv, ServerInv, (CallStart \/ CallStop)
  PROVE  ServerInv'
<1> USE MtxAssumption DEF MtxAssumption, CallStart, CallStop, IInv, Running,
    PortListening, PortTaken, Forked
<1>1. (mpc \in {"fork"} \cup Forked => ~foreign)'
  BY DEF TypeOK, ServerInv
<1>2. (mpc = "fork" => \A k \in Children : ~Running(k))'
  BY DEF TypeOK, ServerInv
<1>3. (mpc \in Forked => \A k \in Children : Running(k) => k = spawned)'
  BY DEF TypeOK, SpawnInv, ServerInv
<1>4. (mpc \in {"idle", "probe"} =>
         \A k \in Children : Running(k) =>
            child[k] = "listening" /\ (mgr.started_by_us => k = mgr.pid))'
  BY DEF TypeOK, SpawnInv, OwnInv, ServerInv
<1>5. OneServerAtMost'
  BY DEF TypeOK, SpawnInv, ServerInv, OneServerAtMost
<1> QED
  BY <1>1, <1>2, <1>3, <1>4, <1>5 DEF ServerInv

LEMMA ProbeServerInv ==
  ASSUME calm, calm', IInv, ServerInv, Probe
  PROVE  ServerInv'
<1> USE MtxAssumption DEF MtxAssumption, Probe, ProbeOrReuse, Returns, IInv, Running,
    PortListening, PortTaken, Forked
<1>1. (mpc \in {"fork"} \cup Forked => ~foreign)'
  BY DEF TypeOK, ServerInv
<1>2. (mpc = "fork" => \A k \in Children : ~Running(k))'
  BY DEF TypeOK, ServerInv
<1>3. (mpc \in Forked => \A k \in Children : Running(k) => k = spawned)'
  BY DEF TypeOK, SpawnInv, ServerInv
<1>4. (mpc \in {"idle", "probe"} =>
         \A k \in Children : Running(k) =>
            child[k] = "listening" /\ (mgr.started_by_us => k = mgr.pid))'
  <2>1. CASE mpc' = "idle"
    BY <2>1 DEF TypeOK, SpawnInv, OwnInv, ServerInv
  <2>2. CASE mpc' = "fork"
    BY <2>2
  <2> QED
    BY <2>1, <2>2
<1>5. OneServerAtMost'
  BY DEF TypeOK, SpawnInv, ServerInv, OneServerAtMost
<1> QED
  BY <1>1, <1>2, <1>3, <1>4, <1>5 DEF ServerInv

LEMMA ForkServerInv ==
  ASSUME calm, calm', IInv, ServerInv, (ForkFails \/ \E k \in Children : Fork(k))
  PROVE  ServerInv'
<1> USE MtxAssumption DEF MtxAssumption, ForkFails, Fork, Returns, IInv, Running, PortListening,
    PortTaken, Forked
<1>1. (mpc \in {"fork"} \cup Forked => ~foreign)'
  BY DEF TypeOK, ServerInv
<1>2. (mpc = "fork" => \A k \in Children : ~Running(k))'
  BY DEF TypeOK, ServerInv
<1>3. (mpc \in Forked => \A k \in Children : Running(k) => k = spawned)'
  BY DEF TypeOK, SpawnInv, ServerInv
<1>4. (mpc \in {"idle", "probe"} =>
         \A k \in Children : Running(k) =>
            child[k] = "listening" /\ (mgr.started_by_us => k = mgr.pid))'
  BY DEF TypeOK, SpawnInv, OwnInv, ServerInv
<1>5. OneServerAtMost'
  BY DEF TypeOK, SpawnInv, ServerInv, OneServerAtMost
<1> QED
  BY <1>1, <1>2, <1>3, <1>4, <1>5 DEF ServerInv

LEMMA LookServerInv ==
  ASSUME calm, calm', IInv, ServerInv, (LookGone \/ LookAlive)
  PROVE  ServerInv'
<1> USE MtxAssumption DEF MtxAssumption, LookGone, LookAlive, Exited, Returns, IInv, Running,
    PortListening, PortTaken, Forked
<1>1. (mpc \in {"fork"} \cup Forked => ~foreign)'
  BY DEF TypeOK, ServerInv
<1>2. (mpc = "fork" => \A k \in Children : ~Running(k))'
  BY DEF TypeOK, ServerInv
<1>3. (mpc \in Forked => \A k \in Children : Running(k) => k = spawned)'
  BY DEF TypeOK, SpawnInv, ServerInv
<1>4. (mpc \in {"idle", "probe"} =>
         \A k \in Children : Running(k) =>
            child[k] = "listening" /\ (mgr.started_by_us => k = mgr.pid))'
  BY DEF TypeOK, SpawnInv, OwnInv, ServerInv
<1>5. OneServerAtMost'
  BY DEF TypeOK, SpawnInv, ServerInv, OneServerAtMost
<1> QED
  BY <1>1, <1>2, <1>3, <1>4, <1>5 DEF ServerInv

LEMMA ReprobeServerInv ==
  ASSUME calm, calm', IInv, ServerInv, (ReprobeListening \/ ReprobeSilent)
  PROVE  ServerInv'
<1> USE MtxAssumption DEF MtxAssumption, ReprobeListening, ReprobeSilent, RecordChild,
    Terminated, Running, Returns, IInv, PortListening, PortTaken, Forked
<1>1. (mpc \in {"fork"} \cup Forked => ~foreign)'
  BY DEF TypeOK, ServerInv
<1>2. (mpc = "fork" => \A k \in Children : ~Running(k))'
  BY DEF TypeOK, ServerInv
<1>3. (mpc \in Forked => \A k \in Children : Running(k) => k = spawned)'
  BY DEF TypeOK, SpawnInv, ServerInv
<1>4. (mpc \in {"idle", "probe"} =>
         \A k \in Children : Running(k) =>
            child[k] = "listening" /\ (mgr.started_by_us => k = mgr.pid))'
  BY DEF TypeOK, SpawnInv, OwnInv, ServerInv
<1>5. OneServerAtMost'
  BY DEF TypeOK, SpawnInv, ServerInv, OneServerAtMost
<1> QED
  BY <1>1, <1>2, <1>3, <1>4, <1>5 DEF ServerInv

LEMMA ReapServerInv ==
  ASSUME calm, calm', IInv, ServerInv, Reap
  PROVE  ServerInv'
<1> USE MtxAssumption DEF MtxAssumption, Reap, Returns, IInv, Running,
    PortListening, PortTaken, Forked
<1>1. (mpc \in {"fork"} \cup Forked => ~foreign)'
  BY DEF TypeOK, ServerInv
<1>2. (mpc = "fork" => \A k \in Children : ~Running(k))'
  BY DEF TypeOK, ServerInv
<1>3. (mpc \in Forked => \A k \in Children : Running(k) => k = spawned)'
  BY DEF TypeOK, SpawnInv, ServerInv
<1>4. (mpc \in {"idle", "probe"} =>
         \A k \in Children : Running(k) =>
            child[k] = "listening" /\ (mgr.started_by_us => k = mgr.pid))'
  BY DEF TypeOK, SpawnInv, OwnInv, ServerInv
<1>5. OneServerAtMost'
  BY DEF TypeOK, SpawnInv, ServerInv, OneServerAtMost
<1> QED
  BY <1>1, <1>2, <1>3, <1>4, <1>5 DEF ServerInv

LEMMA StopServerInv ==
  ASSUME calm, calm', IInv, ServerInv, (StopNothing \/ StopKill \/ StopReap)
  PROVE  ServerInv'
<1> USE MtxAssumption DEF MtxAssumption, StopNothing, StopKill, StopReap, Terminated, Running,
    IInv, PortListening, PortTaken, Forked
<1>1. (mpc \in {"fork"} \cup Forked => ~foreign)'
  BY DEF TypeOK, ServerInv
<1>2. (mpc = "fork" => \A k \in Children : ~Running(k))'
  BY DEF TypeOK, ServerInv
<1>3. (mpc \in Forked => \A k \in Children : Running(k) => k = spawned)'
  BY DEF TypeOK, SpawnInv, ServerInv
<1>4. (mpc \in {"idle", "probe"} =>
         \A k \in Children : Running(k) =>
            child[k] = "listening" /\ (mgr.started_by_us => k = mgr.pid))'
  BY DEF TypeOK, SpawnInv, OwnInv, ServerInv
<1>5. OneServerAtMost'
  BY DEF TypeOK, SpawnInv, ServerInv, OneServerAtMost
<1> QED
  BY <1>1, <1>2, <1>3, <1>4, <1>5 DEF ServerInv

LEMMA ProcessServerInv ==
  ASSUME calm, calm', IInv, ServerInv, (Processes \/ UNCHANGED vars)
  PROVE  ServerInv'
<1> USE MtxAssumption DEF MtxAssumption, Processes, ForeignChanges, ChildListens, ChildExits,
    vars, IInv, Running,
    PortListening, PortTaken, Forked
<1>1. (mpc \in {"fork"} \cup Forked => ~foreign)'
  BY DEF TypeOK, ServerInv
<1>2. (mpc = "fork" => \A k \in Children : ~Running(k))'
  BY DEF TypeOK, ServerInv
<1>3. (mpc \in Forked => \A k \in Children : Running(k) => k = spawned)'
  BY DEF TypeOK, SpawnInv, ServerInv
<1>4. (mpc \in {"idle", "probe"} =>
         \A k \in Children : Running(k) =>
            child[k] = "listening" /\ (mgr.started_by_us => k = mgr.pid))'
  BY DEF TypeOK, SpawnInv, OwnInv, ServerInv
<1>5. OneServerAtMost'
  BY DEF TypeOK, SpawnInv, ServerInv, OneServerAtMost
<1> QED
  BY <1>1, <1>2, <1>3, <1>4, <1>5 DEF ServerInv

LEMMA ServerInvariant == SafeSpec => [](calm => ServerInv)
<1>1. Init => ServerInv
  BY DEF Init, ServerInv, Forked, Running, OneServerAtMost
<1>2. IInv /\ (calm => ServerInv) /\ [Next]_vars => (calm => ServerInv)'
  <2> SUFFICES ASSUME IInv, calm => ServerInv, [Next]_vars, calm' PROVE ServerInv'
    OBVIOUS
  <2>1. calm
    <3>1. CASE Probe
      BY <3>1, Zenon DEF Probe, ProbeOrReuse
    <3>2. CASE UNCHANGED calm \/ ForeignChanges
      BY <3>2, Zenon DEF ForeignChanges
    <3> QED
      BY <3>1, <3>2
      DEF Next, Calls, Manager, Processes, CallStart, CallStop, ForkFails, Fork, LookGone,
          LookAlive, ReprobeListening, ReprobeSilent, Reap, StopNothing, StopKill, StopReap,
          ChildListens, ChildExits, vars
  <2>2. CASE Calls
    BY <2>1, <2>2, CallServerInv DEF Calls
  <2>3. CASE Manager
    BY <2>1, <2>3, ProbeServerInv, ForkServerInv, LookServerInv, ReprobeServerInv,
       ReapServerInv, StopServerInv DEF Manager
  <2>4. CASE Processes \/ UNCHANGED vars
    BY <2>1, <2>4, ProcessServerInv
  <2> QED
    BY <2>2, <2>3, <2>4 DEF Next
<1> QED
  BY <1>1, <1>2, Invariant, PTL DEF SafeSpec

(* Repeated starts, slow or crashing children and a failing second probe     *)
(* included, never leave two servers running, until a foreign server comes   *)
(* or goes or a first probe misses one.                                     *)
THEOREM ServersDoNotPileUp == SafeSpec => []OneServerAtMost
<1>1. (calm => ServerInv) => OneServerAtMost
  BY DEF ServerInv, OneServerAtMost
<1> QED
  BY <1>1, ServerInvariant, PTL

(* A manager that owns a server owns the only one the program runs, until    *)
(* one of the same two events.                                              *)
THEOREM OwnerOfTheServer == SafeSpec => []OwnsTheRunningChild
<1>1. (calm => ServerInv) => OwnsTheRunningChild
  BY DEF ServerInv, OwnsTheRunningChild
<1> QED
  BY <1>1, ServerInvariant, PTL

(* Every wait of the manager is for a child it has sent SIGTERM, so that     *)
(* only a child that ignores the signal could hold it up.                    *)
THEOREM KillsBeforeItWaits == SafeSpec => []WaitsForKilled
<1>1. Init => WaitsForKilled
  BY DEF Init, WaitsForKilled
<1>2. IInv /\ WaitsForKilled /\ [Next]_vars => WaitsForKilled'
  <2> SUFFICES ASSUME IInv, WaitsForKilled, [Next]_vars PROVE WaitsForKilled'
    OBVIOUS
  <2> USE DEF IInv, WaitsForKilled
  <2>1. CASE ReprobeSilent
    <3>1. spawned \in Children /\ child[spawned] \in {"booting", "listening", "dying", "zombie"}
      BY <2>1 DEF ReprobeSilent, TypeOK, SpawnInv, Forked, Known
    <3>2. QED
      BY <2>1, <3>1 DEF ReprobeSilent, Terminated, Running, TypeOK
  <2>2. CASE StopKill
    <3>1. mgr.pid \in Children /\ child[mgr.pid] \in {"booting", "listening", "dying", "zombie"}
      BY <2>2 DEF StopKill, TypeOK, OwnInv, Known
    <3>2. QED
      BY <2>2, <3>1 DEF StopKill, Terminated, Running, TypeOK
  <2>3. CASE Calls \/ (Manager /\ ~ReprobeSilent /\ ~StopKill)
    <3>1. mpc' \notin {"reap", "stopWait"}
      BY <2>3 DEF Calls, Manager, CallStart, CallStop, Probe, ProbeOrReuse, ForkFails, Fork,
         LookGone, LookAlive, ReprobeListening, Reap, StopNothing, StopReap, Returns
    <3>2. QED
      BY <3>1
  <2>4. CASE Processes \/ UNCHANGED vars
    <3>1. UNCHANGED <<mgr, mpc, spawned>>
      BY <2>4 DEF Processes, ForeignChanges, ChildListens, ChildExits, vars
    <3>2. \A k \in Children : child[k] \in {"dying", "zombie"} => child'[k] \in {"dying", "zombie"}
      BY <2>4 DEF Processes, ForeignChanges, ChildListens, ChildExits, vars, TypeOK
    <3>3. /\ mpc = "reap" => spawned \in Children
          /\ mpc = "stopWait" => mgr.pid \in Children
      BY DEF SpawnInv, Forked, OwnInv, TypeOK
    <3>4. QED
      BY <3>1, <3>2, <3>3
  <2>5. QED
    BY <2>1, <2>2, <2>3, <2>4 DEF Next
<1>3. QED
  BY <1>1, <1>2, Invariant, PTL DEF SafeSpec
=============================================================================
