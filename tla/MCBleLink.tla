----------------------------- MODULE MCBleLink -----------------------------
(***************************************************************************)
(* BleLink for TLC: frames of one, two and three fragments, the longest of *)
(* which fills the buffer exactly.                                         *)
(***************************************************************************)
EXTENDS BleLink

FrameLength(f) == CASE f = "tick" -> 1 [] f = "confirm" -> 3 [] f = "stage" -> 5
=============================================================================
