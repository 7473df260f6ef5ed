------------------------ MODULE ControllerStoreProofs ------------------------
(***************************************************************************)
(* What the operations of ControllerStore preserve, for every number of    *)
(* slots and every set of keys.  The proofs about the roster in flash and  *)
(* about the sessions both rest on these lemmas.                           *)
(***************************************************************************)
EXTENDS ControllerStore, WellFoundedInduction, TLAPS

\* A store that controller_store_boot could have returned.
Sound(store) == store \in Store /\ roster_valid(store.slots)

\* The four roles of enum controller_role are different numbers.
LEMMA RoleFacts ==
  /\ Roles = 0..3
  /\ NONE \in Roles /\ OPERATOR \in Roles /\ ADMIN \in Roles /\ RECOVERY_ADMIN \in Roles
  /\ NONE # OPERATOR /\ NONE # ADMIN /\ NONE # RECOVERY_ADMIN
  /\ RECOVERY_ADMIN # OPERATOR /\ RECOVERY_ADMIN # ADMIN
BY DEF Roles, NONE, OPERATOR, ADMIN, RECOVERY_ADMIN

\* The recovery slot exists.
LEMMA ZeroIsSlot == 0 \in Slots
BY StoreAssumption DEF Slots

\* An empty slot is a slot, and the empty store a store.
LEMMA EmptyStoreType ==
  EmptySlot \in Slot /\ controller_store_empty \in Store /\ controller_store_empty.generation = 0
BY RoleFacts, StoreAssumption DEF EmptySlot, Slot, controller_store_empty, Store

\* controller_store_initialise makes a roster that record_valid accepts.
LEMMA InitialiseSound ==
  ASSUME NEW key \in PublicKeys \ {ZeroKey}
  PROVE  /\ Sound(controller_store_initialise(key))
         /\ controller_store_initialise(key).generation = 1
         /\ controller_store_initialise(key).slots[0].public_key = key
<1> DEFINE s == controller_store_initialise(key)
<1>2. s \in Store
  BY RoleFacts, EmptyStoreType DEF controller_store_initialise, Store, Slot
<1>3. roster_valid(s.slots)
  BY ZeroIsSlot, RoleFacts DEF roster_valid, controller_store_initialise, EmptySlot
<1> QED
  BY <1>2, <1>3, ZeroIsSlot DEF Sound, controller_store_initialise

\* The loop of controller_store_add over the slots finds a free one, if any.
LEMMA FirstFreeIsFree ==
  ASSUME NEW store, FreeSlots(store) # {}
  PROVE  FirstFree(store) \in FreeSlots(store)
<1> DEFINE F == FreeSlots(store)
<1>1. F \subseteq Nat
  BY StoreAssumption DEF FreeSlots, Slots
<1> DEFINE R == OpToRel(<, Nat)
<1>2. IsWellFoundedOn(R, Nat)
  BY NatLessThanWellFounded
<1>3. \A x, y \in Nat : <<x, y>> \in R <=> x < y
  BY DEF OpToRel
<1> HIDE DEF R
<1>4. PICK i \in F : \A j \in F : ~(<<j, i>> \in R)
  BY <1>1, <1>2, WFMin
<1>5. \A j \in F : i <= j
  <2> SUFFICES ASSUME NEW j \in F
               PROVE  i <= j
    OBVIOUS
  <2>1. i \in Nat /\ j \in Nat
    BY <1>1
  <2>2. ~(j < i)
    BY <1>3, <1>4, <2>1
  <2> HIDE DEF F
  <2> QED
    BY <2>1, <2>2
<1> QED
  BY <1>5 DEF FirstFree

\* controller_store_add keeps the roster valid: the new key is not zero and in
\* no other slot, and the slot it takes is not the recovery slot.
LEMMA AddSound ==
  ASSUME NEW store, Sound(store), NEW key \in PublicKeys \ {ZeroKey},
         NEW role \in {OPERATOR, ADMIN}, ~controller_store_find(store, key),
         FreeSlots(store) # {}
  PROVE  /\ Sound(controller_store_add(store, key, role))
         /\ controller_store_add(store, key, role).generation = store.generation + 1
         /\ controller_store_add(store, key, role).slots[0] = store.slots[0]
         /\ \A i \in Slots : store.slots[i].role # NONE =>
              controller_store_add(store, key, role).slots[i] = store.slots[i]
<1> DEFINE f == FirstFree(store)
           slot == [role |-> role, public_key |-> key]
           new == controller_store_add(store, key, role)
<1>1. f \in Slots /\ f # 0 /\ store.slots[f].role = NONE
  BY FirstFreeIsFree DEF FreeSlots
<1>2. store.generation \in Nat /\ store.slots \in [Slots -> Slot]
  BY DEF Sound, Store
<1>3. slot \in Slot /\ slot.role \notin {NONE, RECOVERY_ADMIN} /\ slot.public_key # ZeroKey
  BY RoleFacts DEF Slot
<1> HIDE DEF f
<1>4. new.slots = [store.slots EXCEPT ![f] = slot] /\ new.generation = store.generation + 1
  BY DEF controller_store_add, f
<1>5. new \in Store
  <2>1. [store.slots EXCEPT ![f] = slot] \in [Slots -> Slot]
    BY <1>1, <1>2, <1>3
  <2> QED
    BY <1>2, <2>1 DEF controller_store_add, Store, f
<1> HIDE DEF new
<1>6. \A i \in Slots : new.slots[i] = IF i = f THEN slot ELSE store.slots[i]
  BY <1>1, <1>2, <1>4
<1>7. \A i \in Slots : store.slots[i].role # NONE => store.slots[i].public_key # key
  BY DEF controller_store_find
<1>8. slot.public_key = key
  OBVIOUS
<1> HIDE DEF slot
<1>9. roster_valid(store.slots)
  BY DEF Sound
<1>10. roster_valid(new.slots)
  BY <1>1, <1>3, <1>6, <1>7, <1>8, <1>9 DEF roster_valid
<1> QED
  BY <1>1, <1>4, <1>5, <1>6, <1>10, ZeroIsSlot DEF Sound, new

\* controller_store_revoke keeps the roster valid.
LEMMA RevokeSound ==
  ASSUME NEW store, Sound(store), NEW target \in Slots \ {0}
  PROVE  /\ Sound(controller_store_revoke(store, target))
         /\ controller_store_revoke(store, target).generation = store.generation + 1
         /\ controller_store_revoke(store, target).slots[0] = store.slots[0]
         /\ \A i \in Slots \ {target} :
              controller_store_revoke(store, target).slots[i] = store.slots[i]
<1> DEFINE new == controller_store_revoke(store, target)
<1>1. store.generation \in Nat /\ store.slots \in [Slots -> Slot] /\ roster_valid(store.slots)
  BY DEF Sound, Store
<1>2. new \in Store /\ new.generation = store.generation + 1
  BY <1>1, EmptyStoreType DEF controller_store_revoke, Store
<1>3. \A i \in Slots : new.slots[i] = IF i = target THEN EmptySlot ELSE store.slots[i]
  BY <1>1 DEF controller_store_revoke
<1>4. EmptySlot.role = NONE /\ EmptySlot.public_key = ZeroKey
  BY DEF EmptySlot
<1> HIDE DEF new
<1>5. roster_valid(new.slots)
  BY <1>1, <1>3, <1>4, RoleFacts DEF roster_valid
<1> QED
  BY <1>2, <1>3, <1>5, ZeroIsSlot DEF Sound, new

\* When the command ADD goes on to the flash, controller_store_add has made
\* all its checks.
LEMMA AddCommandChecks ==
  ASSUME NEW store, NEW caller, NEW key, NEW role,
         ble_handle_controller_add(store, caller, key, role) = "OK"
  PROVE  /\ key # ZeroKey /\ role \in {OPERATOR, ADMIN}
         /\ ~controller_store_find(store, key) /\ FreeSlots(store) # {}
         /\ controller_store_is_admin(store, caller)
<1>1. /\ add_status(store, caller, key, role) \in {"OK", "FULL"}
      /\ add_status(store, caller, key, role) # "FULL"
      /\ controller_store_is_admin(store, caller)
  BY DEF ble_handle_controller_add
<1> QED
  BY <1>1 DEF add_status

\* When the command REVOKE goes on to the flash, the candidate is a sound
\* roster one generation on, and an admin asked for it.
LEMMA RevokeCommandSound ==
  ASSUME NEW store, Sound(store), NEW caller, NEW target,
         ble_handle_controller_revoke(store, caller, target) = "OK"
  PROVE  /\ Sound(controller_store_revoke(store, target))
         /\ controller_store_revoke(store, target).generation = store.generation + 1
         /\ controller_store_revoke(store, target).slots[0] = store.slots[0]
         /\ \A i \in Slots \ {target} :
              controller_store_revoke(store, target).slots[i] = store.slots[i]
         /\ controller_store_is_admin(store, caller) /\ target # caller
         /\ target \in Slots \ {0}
<1>1. /\ revoke_status(store, caller, target) = "OK" /\ target # caller
      /\ controller_store_is_admin(store, caller)
  BY DEF ble_handle_controller_revoke
<1>2. target \in Slots \ {0}
  BY <1>1 DEF revoke_status
<1> QED
  BY <1>1, <1>2, RevokeSound
=============================================================================
