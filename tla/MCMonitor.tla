----------------------------- MODULE MCMonitor -----------------------------
(* Monitor for TLC: a few frames and silences longer than the threshold. *)
EXTENDS Monitor
=============================================================================
