-------------------------- MODULE MCControllerFlash --------------------------
(***************************************************************************)
(* ControllerFlash for TLC: two slots beside the recovery admin, so that   *)
(* the roster fills up.                                                    *)
(***************************************************************************)
EXTENDS ControllerFlash
=============================================================================
