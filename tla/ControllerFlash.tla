--------------------------- MODULE ControllerFlash ---------------------------
(***************************************************************************)
(* firmware/controller_store_flash.c and its callers in bridge_main.c: the *)
(* roster in two flash sectors, its first seeding and import at boot, the  *)
(* commands that change it, and loss of power at any moment.               *)
(*                                                                         *)
(* program_sector erases the sector that does not hold the current record, *)
(* programs the record without its commit marker, then programs the        *)
(* marker.  Power may fail before, during and after each of the three; a   *)
(* sector caught in the middle of an operation is torn.  Nothing else runs *)
(* meanwhile (flash_safe_execute), so a commit is a sequence of steps that *)
(* only power loss interrupts.                                             *)
(***************************************************************************)
EXTENDS ControllerStore

CONSTANTS
  RecoveryKey,   \* PICO_BRIDGE_RECOVERY_ADMIN_PUBLIC
  InitiatorKey,  \* PICO_BRIDGE_AUTHORIZED_INITIATOR_PUBLIC
  MaxGeneration  \* bound on the number of changes, far below 2^32

ASSUME KeyAssumption ==
  /\ {RecoveryKey, InitiatorKey} \subseteq PublicKeys \ {ZeroKey}
  /\ RecoveryKey # InitiatorKey
  /\ MaxGeneration \in Nat

VARIABLES
  flash,      \* the sectors: flash["A"], flash["B"]
  pc,         \* "off", "boot", "setup", "running", "halted" or a commit step
  ram,        \* the global controllers
  op,         \* the commit in progress: [caller, target, store]
  status,     \* what the last command returned
  committed,  \* history: the last store that a commit reported or a boot adopted
  attempted   \* history: the store that was being written when power failed

vars == <<flash, pc, ram, op, status, committed, attempted>>

NoOp == [caller |-> "none", target |-> "A", store |-> controller_store_empty]

InCommit == pc \in {"erase", "body", "marker", "verify"}

\* A device fresh from the factory: both sectors erased.
Init ==
  /\ flash = [s \in {"A", "B"} |-> Erased]
  /\ pc = "off"
  /\ ram = controller_store_empty
  /\ op = NoOp
  /\ status = "OK"
  /\ committed = controller_store_empty
  /\ attempted = controller_store_empty

BootOk == boot_ok(flash["A"], flash["B"])
Current == controller_store_boot(flash["A"], flash["B"])

-----------------------------------------------------------------------------
\* Seeded fault: the sector of the current record is overwritten.
CommitTarget_same ==
  IF BootOk /\ record_valid(flash["A"]) /\ flash["A"].store.generation = Current.generation
  THEN "A" ELSE "B"

\* The sector that controller_store_flash_commit overwrites.
CommitTarget ==
  IF BootOk /\ record_valid(flash["A"]) /\ flash["A"].store.generation = Current.generation
  THEN "B" ELSE "A"

\* Where a failed commit leaves its caller: main() returns, or the command
\* answers STATE and the roster in RAM is not replaced.
CommitFailed(caller) ==
  /\ pc' = IF caller = "command" THEN "running" ELSE "halted"
  /\ status' = IF caller = "command" THEN "STATE" ELSE status
  /\ op' = NoOp
  /\ UNCHANGED committed

\* controller_store_flash_commit up to program_sector.
BeginCommit(caller, store) ==
  \/ /\ ~(BootOk /\ Current.generation = store.generation)
     /\ op' = [caller |-> caller, target |-> CommitTarget, store |-> store]
     /\ pc' = "erase"
     /\ UNCHANGED <<status, committed>>
  \/ \* flash_safe_execute fails before it touches the flash
     CommitFailed(caller)

\* boot_or_seed; a damaged store is never replaced.
BootExisting ==
  /\ pc = "boot" /\ BootOk
  /\ ram' = Current
  /\ committed' = Current
  /\ attempted' = controller_store_empty
  /\ pc' = "setup"
  /\ UNCHANGED <<flash, op, status>>

BootSeed ==
  /\ pc = "boot" /\ ~BootOk
  /\ flash["A"] = Erased /\ flash["B"] = Erased
  /\ ram' = controller_store_initialise(RecoveryKey)
  /\ BeginCommit("seed", controller_store_initialise(RecoveryKey))
  /\ UNCHANGED <<flash, attempted>>

BootRefused ==
  /\ pc = "boot" /\ ~BootOk
  /\ ~(flash["A"] = Erased /\ flash["B"] = Erased)
  /\ ram' = controller_store_empty
  /\ pc' = "halted"
  /\ UNCHANGED <<flash, op, status, committed, attempted>>

\* controller_setup: the first boot imports the previous sole controller.
MustImport ==
  ram.generation = 1 /\ \A i \in Slots \ {0} : ram.slots[i].role = NONE

Import ==
  /\ pc = "setup" /\ MustImport
  /\ ram' = controller_store_add(ram, InitiatorKey, ADMIN)
  /\ BeginCommit("import", controller_store_add(ram, InitiatorKey, ADMIN))
  /\ UNCHANGED <<flash, attempted>>

SetupDone ==
  /\ pc = "setup" /\ ~MustImport
  /\ pc' = "running"
  /\ UNCHANGED <<flash, ram, op, status, committed, attempted>>

-----------------------------------------------------------------------------
\* program_sector
Erase ==
  /\ pc = "erase" /\ pc' = "body"
  /\ flash' = [flash EXCEPT ![op.target] = Erased]
  /\ UNCHANGED <<ram, op, status, committed, attempted>>

ProgramBody ==
  /\ pc = "body" /\ pc' = "marker"
  /\ flash' = [flash EXCEPT ![op.target] = Torn]
  /\ UNCHANGED <<ram, op, status, committed, attempted>>

\* The last program operation succeeds, or the flash does not take it.
ProgramMarker ==
  /\ pc = "marker" /\ pc' = "verify"
  /\ \/ flash' = [flash EXCEPT ![op.target] = Recorded(op.store)]
     \/ UNCHANGED flash
  /\ UNCHANGED <<ram, op, status, committed, attempted>>

\* The read-back of controller_store_flash_commit (seeded fault: left out)
\* and the return to its caller: a command then replaces the roster in RAM.
Verified_unchecked == TRUE

Verified == BootOk /\ Current.generation = op.store.generation

CommitDone ==
  /\ pc = "verify" /\ Verified
  /\ pc' = IF op.caller = "seed" THEN "setup" ELSE "running"
  /\ ram' = op.store
  /\ status' = IF op.caller = "command" THEN "OK" ELSE status
  /\ committed' = op.store
  /\ op' = NoOp
  /\ UNCHANGED <<flash, attempted>>

VerifyFailed ==
  /\ pc = "verify" /\ ~Verified
  /\ CommitFailed(op.caller)
  /\ UNCHANGED <<flash, ram, attempted>>

-----------------------------------------------------------------------------
\* The commands of an authenticated controller in slot caller.
Refuse(st) ==
  status' = st /\ UNCHANGED <<flash, pc, ram, op, committed, attempted>>

ControllerAdd(caller, key, role) ==
  /\ pc = "running" /\ ram.generation < MaxGeneration
  /\ LET st == ble_handle_controller_add(ram, caller, key, role)
     IN \/ st # "OK" /\ Refuse(st)
        \/ /\ st = "OK"
           /\ BeginCommit("command", controller_store_add(ram, key, role))
           /\ UNCHANGED <<flash, ram, attempted>>

ControllerRevoke(caller, target) ==
  /\ pc = "running" /\ ram.generation < MaxGeneration
  /\ LET st == ble_handle_controller_revoke(ram, caller, target)
     IN \/ st # "OK" /\ Refuse(st)
        \/ /\ st = "OK"
           /\ BeginCommit("command", controller_store_revoke(ram, target))
           /\ UNCHANGED <<flash, ram, attempted>>

\* Power fails; the sector under an erase or program operation may be torn.
PowerLoss ==
  /\ pc # "off"
  /\ pc' = "off"
  /\ ram' = controller_store_empty
  /\ op' = NoOp
  /\ attempted' = IF InCommit THEN op.store ELSE attempted
  /\ \/ UNCHANGED flash
     \/ /\ pc \in {"erase", "body", "marker"}
        /\ ~(pc = "erase" /\ flash[op.target] = Erased)
        /\ flash' = [flash EXCEPT ![op.target] = Torn]
  /\ UNCHANGED <<status, committed>>

PowerOn ==
  /\ pc = "off" /\ pc' = "boot"
  /\ UNCHANGED <<flash, ram, op, status, committed, attempted>>

Next ==
  \/ PowerOn \/ PowerLoss
  \/ BootExisting \/ BootSeed \/ BootRefused
  \/ Import \/ SetupDone
  \/ Erase \/ ProgramBody \/ ProgramMarker
  \/ CommitDone \/ VerifyFailed
  \/ \E caller \in Slots, key \in PublicKeys, role \in Roles :
       ControllerAdd(caller, key, role)
  \/ \E caller \in Slots, target \in 0..(LastSlot + 1) :
       ControllerRevoke(caller, target)

Spec == Init /\ [][Next]_vars

-----------------------------------------------------------------------------
\* Types; a command never returns a status of the store (BRIDGE_ERR_*).
FlashTypeOK ==
  /\ flash \in [{"A", "B"} -> Sector]
  /\ pc \in {"off", "boot", "setup", "running", "halted", "erase", "body", "marker",
             "verify"}
  /\ ram \in Store
  /\ op \in [caller : {"none", "seed", "import", "command"}, target : {"A", "B"},
             store : Store]
  /\ status \in {"OK", "STATE", "OWNER", "LIMIT", "ARGUMENT", "POLICY"}
  /\ committed \in Store
  /\ attempted \in Store

(***************************************************************************)
(* Durability: a roster whose commit was reported successful, or that a    *)
(* boot adopted, is what the next boot finds, unless a newer change had    *)
(* begun; an interrupted change is found completely or not at all.         *)
(***************************************************************************)
BootFindsCommitted ==
  committed.generation # 0 => BootOk /\ Current \in {committed, attempted, op.store}

\* The generation that a boot would find never goes back: no revoked
\* controller returns with an old record.
GenerationNeverBack ==
  [][Current'.generation >= Current.generation]_vars

\* While commands are served the roster in RAM is the one a reboot finds.
RamIsFlash == pc = "running" => BootOk /\ ram = Current

\* Every record in flash passes the checks of record_valid, and the two
\* sectors never hold the same generation: the tie in controller_store_boot
\* is never decided.
RecordsSound ==
  /\ \A s \in {"A", "B"} : flash[s].kind = "record" => record_valid(flash[s])
  /\ flash["A"].kind = "record" /\ flash["B"].kind = "record" =>
       flash["A"].store.generation # flash["B"].store.generation

\* SECURITY.md calls the store "power-fail safe": whenever power is off, the
\* next boot finds a roster or seeds a new one.
AlwaysBootable ==
  pc = "off" => BootOk \/ (flash["A"] = Erased /\ flash["B"] = Erased)
=============================================================================
