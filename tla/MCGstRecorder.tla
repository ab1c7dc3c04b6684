---------------------------- MODULE MCGstRecorder ----------------------------
(* GstRecorder with two control threads and the video thread, for TLC. *)
EXTENDS GstRecorder

MCFaults == {"build", "pipe", "eos", "frame"}
=============================================================================
