------------------------------ MODULE MCWebUi ------------------------------
(* WebUi for TLC. *)
EXTENDS WebUi
=============================================================================
