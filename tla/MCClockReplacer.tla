--------------------------- MODULE MCClockReplacer ---------------------------
(* Instances of ClockReplacer for TLC. *)
EXTENDS ClockReplacer
=============================================================================
