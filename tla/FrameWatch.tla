----------------------------- MODULE FrameWatch -----------------------------
(***************************************************************************)
(* What the monitor promises, with no lock and no thread in it: each frame *)
(* falls into one second, the rate shown is the number of frames of the    *)
(* last whole second, and the stream is lost exactly while at least        *)
(* Threshold whole seconds in a row have brought no frame.                 *)
(***************************************************************************)
EXTENDS Naturals

CONSTANT Threshold  \* seconds without a frame after which a stream is lost

VARIABLES waiting,    \* frames since the last whole second
          fps,        \* frames of the last whole second
          published,  \* frames of all whole seconds
          quiet,      \* whole seconds since the last frame
          lost        \* whether the stream counts as lost

vars == <<waiting, fps, published, quiet, lost>>

Init ==
  /\ waiting = 0
  /\ fps = 0
  /\ published = 0
  /\ quiet = 0
  /\ lost = FALSE

Frame ==
  /\ waiting' = waiting + 1
  /\ quiet' = 0
  /\ lost' = FALSE
  /\ UNCHANGED <<fps, published>>

Second ==
  /\ fps' = waiting
  /\ published' = published + waiting
  /\ waiting' = 0
  /\ quiet' = IF waiting = 0 THEN quiet + 1 ELSE 0
  /\ lost' = (quiet' >= Threshold)

Next == Frame \/ Second

Spec == Init /\ [][Next]_vars
=============================================================================
