----------------------------- MODULE MCMediaMtx -----------------------------
(* MediaMtx with up to three forks, for TLC. *)
EXTENDS MediaMtx

MCMtxFaults == {"fork", "boot", "slow", "crash", "foreign", "probe"}
=============================================================================
