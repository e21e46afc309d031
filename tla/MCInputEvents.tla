--------------------------- MODULE MCInputEvents ---------------------------
(* Instance of InputEvents for TLC: four events of any kind. *)
EXTENDS InputEvents

MCKinds == {"key", "wheel_up", "wheel_down", "drag", "release"}
=============================================================================
