---------------------------- MODULE MCLifecycle ----------------------------
(* Lifecycle for TLC. *)
EXTENDS Lifecycle

MCLimits == {0, 1}
MCNoLimit == {0}
MCBoth == {TRUE, FALSE}
MCNoHttp == {FALSE}
MCFaults == {"setup", "bind", "poll", "hangup"}
MCNoFaults == {}
=============================================================================
