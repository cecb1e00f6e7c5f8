----------------------------- MODULE MCOpsTicker -----------------------------
(* Small instances of OpsTicker for TLC. *)
EXTENDS OpsTicker

MCSlots == 1..2
=============================================================================
