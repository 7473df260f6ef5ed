---------------------------- MODULE MCRadioFlash ----------------------------
(***************************************************************************)
(* RadioFlash for TLC.  The two networks have the same text, cut into name *)
(* and password at different places.                                       *)
(***************************************************************************)
EXTENDS RadioFlash

\* Two good commands; too short; a length that does not fit; a byte that is
\* not printable.
SetRadioFrames ==
  {<<0, 1, 2, 1, 2, 1>>, <<0, 2, 1, 1, 2, 1>>, <<0, 1>>, <<0, 1, 2, 1, 2>>, <<0, 1, 1, 1, 0>>}
=============================================================================
