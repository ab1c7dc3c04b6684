--------------------------- MODULE MCMediaControl ---------------------------
(* MediaControl with the video thread, for TLC. *)
EXTENDS MediaControl

MCFaults == {"build", "pipe", "eos"}
MCMtxFaults == {"fork", "slow"}
=============================================================================
