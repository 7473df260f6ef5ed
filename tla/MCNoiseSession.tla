--------------------------- MODULE MCNoiseSession ---------------------------
(***************************************************************************)
(* NoiseSession for TLC: one run of the controller that the first boot     *)
(* imports as an admin, and one of a controller that is in no roster yet.  *)
(***************************************************************************)
EXTENDS NoiseSession

CONSTANTS recovery, initiator, laptop, run1, run2

MCStaticKey(c) == IF c = run1 THEN initiator ELSE laptop

ImportedRoster ==
  controller_store_add(controller_store_initialise(recovery), initiator, ADMIN)

Command(op, key, role, slot) == [op |-> op, key |-> key, role |-> role, slot |-> slot]

MixedBodies ==
  {Command("use", ZeroKey, NONE, 0), Command("unknown", ZeroKey, NONE, 0),
   Command("add", laptop, OPERATOR, 0), Command("add", laptop, ADMIN, 0)}
  \cup {Command("revoke", ZeroKey, NONE, slot) : slot \in 0..(LastSlot + 1)}
=============================================================================
