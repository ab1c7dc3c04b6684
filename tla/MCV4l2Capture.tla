--------------------------- MODULE MCV4l2Capture ---------------------------
(* V4l2Capture with four buffers, for TLC. *)
EXTENDS V4l2Capture

MCCapFaults == {"open", "map", "start", "qbuf", "dqbuf", "unplug"}
=============================================================================
