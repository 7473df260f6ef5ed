--------------------------- MODULE ControllerStore ---------------------------
(***************************************************************************)
(* firmware/controller_store.c: the roster of controllers allowed to talk  *)
(* to the device.  Slot 0 is the immutable recovery admin, the others hold *)
(* operators and admins.  A store is a record [generation, slots]; this    *)
(* module is its operations, without state.                                *)
(***************************************************************************)
EXTENDS Naturals

CONSTANTS
  LastSlot,   \* CONTROLLER_STORE_SLOT_COUNT - 1
  PublicKeys, \* the public keys that occur, ZeroKey among them
  ZeroKey     \* the all-zero key of an empty slot

ASSUME StoreAssumption == LastSlot \in Nat \ {0} /\ ZeroKey \in PublicKeys

Slots == 0..LastSlot
NONE == 0
OPERATOR == 1
ADMIN == 2
RECOVERY_ADMIN == 3
Roles == {NONE, OPERATOR, ADMIN, RECOVERY_ADMIN}

Slot == [role : Roles, public_key : PublicKeys]
Store == [generation : Nat, slots : [Slots -> Slot]]

EmptySlot == [role |-> NONE, public_key |-> ZeroKey]

controller_store_empty == [generation |-> 0, slots |-> [i \in Slots |-> EmptySlot]]

\* The conditions of record_valid on the slots of a record.
roster_valid(slots) ==
  /\ \A i \in Slots :
       (slots[i].role = NONE) <=> (slots[i].public_key = ZeroKey)
  /\ \A i, j \in Slots :
       /\ i # j /\ slots[i].role # NONE /\ slots[j].role # NONE
       => slots[i].public_key # slots[j].public_key
  /\ \A i \in Slots : slots[i].role = RECOVERY_ADMIN <=> i = 0

controller_store_initialise(recovery) ==
  [generation |-> 1,
   slots |-> [i \in Slots |-> IF i = 0
                              THEN [role |-> RECOVERY_ADMIN, public_key |-> recovery]
                              ELSE EmptySlot]]

\* controller_store_find returns CONTROLLER_STORE_OK
controller_store_find(store, key) ==
  \E i \in Slots : store.slots[i].role # NONE /\ store.slots[i].public_key = key

\* Seeded fault: an operator passes for an admin.
controller_store_is_admin_any(store, slot) ==
  slot \in Slots /\ store.slots[slot].role # NONE

controller_store_is_admin(store, slot) ==
  slot \in Slots /\ store.slots[slot].role \in {ADMIN, RECOVERY_ADMIN}

FreeSlots(store) == {i \in Slots \ {0} : store.slots[i].role = NONE}

\* Seeded fault: no look for the key among the slots.
add_status_no_find(store, caller, key, role) ==
  IF key = ZeroKey \/ role \notin {OPERATOR, ADMIN} THEN "ARGUMENT"
  ELSE IF ~controller_store_is_admin(store, caller) THEN "ROLE"
  ELSE IF FreeSlots(store) = {} THEN "FULL"
  ELSE "OK"

\* What controller_store_add returns ...
add_status(store, caller, key, role) ==
  IF key = ZeroKey \/ role \notin {OPERATOR, ADMIN} THEN "ARGUMENT"
  ELSE IF ~controller_store_is_admin(store, caller) THEN "ROLE"
  ELSE IF controller_store_find(store, key) THEN "DUPLICATE"
  ELSE IF FreeSlots(store) = {} THEN "FULL"
  ELSE "OK"

FirstFree(store) ==
  CHOOSE i \in FreeSlots(store) : \A j \in FreeSlots(store) : i <= j

\* ... and the store it leaves when it returns OK.
controller_store_add(store, key, role) ==
  [generation |-> store.generation + 1,
   slots |-> [store.slots EXCEPT ![FirstFree(store)] =
                [role |-> role, public_key |-> key]]]

revoke_status(store, caller, target) ==
  IF caller \notin Slots \/ target \notin Slots THEN "ARGUMENT"
  ELSE IF ~controller_store_is_admin(store, caller) THEN "ROLE"
  ELSE IF target = 0 THEN "IMMUTABLE"
  ELSE IF store.slots[target].role = NONE THEN "NOT_FOUND"
  ELSE "OK"

controller_store_revoke(store, target) ==
  [generation |-> store.generation + 1,
   slots |-> [store.slots EXCEPT ![target] = EmptySlot]]

-----------------------------------------------------------------------------
\* The status with which ble_handle_controller_add (firmware/bridge_main.c)
\* answers the controller in slot caller; OK means that candidate is to be
\* committed.
ble_handle_controller_add(store, caller, key, role) ==
  LET st == add_status(store, caller, key, role)
  IN IF ~controller_store_is_admin(store, caller) THEN "OWNER"
     ELSE IF st \notin {"OK", "FULL"} THEN "ARGUMENT"
     ELSE IF st = "FULL" THEN "LIMIT" ELSE "OK"

\* Seeded fault: a controller may revoke itself.
ble_handle_controller_revoke_self(store, caller, target) ==
  LET st == revoke_status(store, caller, target)
  IN IF ~controller_store_is_admin(store, caller) THEN "OWNER"
     ELSE IF st = "IMMUTABLE" THEN "POLICY"
     ELSE IF st # "OK" THEN "ARGUMENT" ELSE "OK"

\* The same for ble_handle_controller_revoke.
ble_handle_controller_revoke(store, caller, target) ==
  LET st == revoke_status(store, caller, target)
  IN IF ~controller_store_is_admin(store, caller) THEN "OWNER"
     ELSE IF target = caller \/ st = "IMMUTABLE" THEN "POLICY"
     ELSE IF st # "OK" THEN "ARGUMENT" ELSE "OK"

-----------------------------------------------------------------------------
\* A flash sector: erased, torn (some bytes differ from 0xff, but there is no
\* record with magic, CRC and commit marker) or holding a record.
Sector == [kind : {"erased", "torn", "record"}, store : Store]
Erased == [kind |-> "erased", store |-> controller_store_empty]
Torn == [kind |-> "torn", store |-> controller_store_empty]
Recorded(store) == [kind |-> "record", store |-> store]

record_valid(sector) == sector.kind = "record" /\ roster_valid(sector.store.slots)

\* controller_store_boot: is there a record, which sector has it, and what
\* is it.  Of two valid records the one with the higher generation counts.
boot_ok(a, b) == record_valid(a) \/ record_valid(b)

boot_takes_a(a, b) ==
  ~record_valid(b) \/ (record_valid(a) /\ a.store.generation >= b.store.generation)

controller_store_boot(a, b) ==
  IF ~boot_ok(a, b) THEN controller_store_empty
  ELSE IF boot_takes_a(a, b) THEN a.store ELSE b.store
=============================================================================
