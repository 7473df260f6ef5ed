----------------------------- MODULE FlashProofs -----------------------------
(***************************************************************************)
(* What the flash holds, for every number of slots, every set of keys,     *)
(* every size of the radio record and every number of changes.             *)
(*                                                                         *)
(* First the roster (ControllerFlash): it survives loss of power at any    *)
(* moment.  Then the radio record (RadioFlash): what radio_config_build2   *)
(* writes, parse2 reads back; no interrupted flash operation leaves a      *)
(* record that parses to anything else; and the roster keeps all that the  *)
(* first part shows while the radio commands run.                          *)
(***************************************************************************)
EXTENDS RadioFlash, ControllerStoreProofs, SequenceTheorems

Other(s) == IF s = "A" THEN "B" ELSE "A"

\* Every record names the recovery admin that the firmware was built with.
RecoveryKept ==
  \A s \in {"A", "B"} :
    flash[s].kind = "record" => flash[s].store.slots[0].public_key = RecoveryKey

\* During a commit: the sector that is not being written holds the committed
\* roster (or, while seeding, nothing), the new roster is one generation on,
\* and the sector being written is as far as the step of program_sector says.
CommitShape ==
  /\ op.caller \in {"seed", "import", "command"}
  /\ Sound(op.store) /\ op.store.slots[0].public_key = RecoveryKey
  /\ op.store.generation = committed.generation + 1
  /\ op.caller = "command" => ram = committed
  /\ op.caller = "seed" => committed.generation = 0
  /\ flash[Other(op.target)] = IF op.caller = "seed" THEN Erased ELSE Recorded(committed)
  /\ pc = "erase" /\ flash[op.target].kind = "record" =>
       flash[op.target].store.generation < committed.generation
  /\ pc = "body" => flash[op.target] = Erased
  /\ pc = "marker" => flash[op.target] = Torn
  /\ pc = "verify" => flash[op.target] \in {Torn, Recorded(op.store)}

\* Between commits nothing is under way, and what was committed is there.
RestShape ==
  /\ op = NoOp
  /\ committed.generation # 0 => BootOk /\ Current \in {committed, attempted}
  /\ pc \in {"setup", "running"} => BootOk /\ Current = committed /\ ram = committed

FlashInv ==
  /\ FlashTypeOK
  /\ RecordsSound
  /\ RecoveryKept
  /\ InCommit => CommitShape
  /\ ~InCommit => RestShape

-----------------------------------------------------------------------------
\* The kinds of sector are sectors; what the fields of each are.
LEMMA SectorFacts ==
  /\ Erased \in Sector /\ Torn \in Sector
  /\ Erased.kind = "erased" /\ Torn.kind = "torn"
  /\ \A store \in Store : /\ Recorded(store) \in Sector
                          /\ Recorded(store).kind = "record"
                          /\ Recorded(store).store = store
BY EmptyStoreType DEF Erased, Torn, Recorded, Sector

\* controller_store_boot takes the only valid record, or the newer of two.
LEMMA BootTakes ==
  ASSUME NEW f \in [{"A", "B"} -> Sector], NEW s \in {"A", "B"},
         record_valid(f[s]),
         record_valid(f[Other(s)]) =>
           f[Other(s)].store.generation < f[s].store.generation
  PROVE  /\ boot_ok(f["A"], f["B"])
         /\ controller_store_boot(f["A"], f["B"]) = f[s].store
<1>1. \A t \in {"A", "B"} : f[t].store.generation \in Nat
  BY DEF Sector, Store
<1>2. CASE s = "A"
  BY <1>1, <1>2 DEF Other, boot_ok, boot_takes_a, controller_store_boot
<1>3. CASE s = "B"
  BY <1>1, <1>3 DEF Other, boot_ok, boot_takes_a, controller_store_boot
<1> QED
  BY <1>2, <1>3

\* Without a record there is nothing to boot from.
LEMMA BootFindsNothing ==
  ASSUME NEW a, NEW b, a.kind # "record", b.kind # "record"
  PROVE  ~boot_ok(a, b) /\ controller_store_boot(a, b) = controller_store_empty
BY DEF boot_ok, record_valid, controller_store_boot

\* When records are sound and of different generations, the record that boot
\* takes is in some sector and the other sector holds none that is newer.
LEMMA BootSource ==
  ASSUME FlashTypeOK, RecordsSound, BootOk
  PROVE  \E s \in {"A", "B"} :
           /\ flash[s] = Recorded(Current)
           /\ flash[Other(s)].kind = "record" =>
                flash[Other(s)].store.generation < Current.generation
<1>1. /\ flash \in [{"A", "B"} -> Sector]
      /\ \A t \in {"A", "B"} : flash[t].store.generation \in Nat
  BY DEF FlashTypeOK, Sector, Store
<1>2. ASSUME NEW s \in {"A", "B"}, record_valid(flash[s])
      PROVE  flash[s] = Recorded(flash[s].store)
  BY <1>1, <1>2 DEF record_valid, Recorded, Sector
<1>3. \A s \in {"A", "B"} : flash[s].kind = "record" <=> record_valid(flash[s])
  BY DEF RecordsSound, record_valid
<1>4. CASE boot_takes_a(flash["A"], flash["B"])
  <2>1. record_valid(flash["A"]) /\ Current = flash["A"].store
    BY <1>4 DEF BootOk, Current, boot_ok, boot_takes_a, controller_store_boot
  <2>2. flash["B"].kind = "record" => flash["B"].store.generation < Current.generation
    BY <1>1, <1>3, <1>4, <2>1 DEF boot_takes_a, RecordsSound
  <2> QED
    BY <1>2, <2>1, <2>2 DEF Other
<1>5. CASE ~boot_takes_a(flash["A"], flash["B"])
  <2>1. record_valid(flash["B"]) /\ Current = flash["B"].store
    BY <1>5 DEF BootOk, Current, boot_ok, boot_takes_a, controller_store_boot
  <2>2. flash["A"].kind = "record" => flash["A"].store.generation < Current.generation
    BY <1>1, <1>3, <1>5, <2>1 DEF boot_takes_a
  <2> QED
    BY <1>2, <2>1, <2>2 DEF Other
<1> QED
  BY <1>4, <1>5

\* controller_store_flash_commit never aims at the sector of the current
\* record.
LEMMA TargetIsOther ==
  ASSUME FlashTypeOK, RecordsSound, BootOk
  PROVE  /\ CommitTarget \in {"A", "B"}
         /\ flash[Other(CommitTarget)] = Recorded(Current)
         /\ flash[CommitTarget].kind = "record" =>
              flash[CommitTarget].store.generation < Current.generation
<1>1. PICK s \in {"A", "B"} :
        /\ flash[s] = Recorded(Current)
        /\ flash[Other(s)].kind = "record" =>
             flash[Other(s)].store.generation < Current.generation
  BY BootSource
<1>2. flash[s].kind = "record" /\ flash[s].store = Current
  BY <1>1 DEF Recorded
<1>3. record_valid(flash[s])
  BY <1>2 DEF RecordsSound
<1>4. Current.generation \in Nat /\ flash["A"].store.generation \in Nat
  BY <1>2 DEF FlashTypeOK, Sector, Store
<1>5. CommitTarget = Other(s)
  <2>1. CASE s = "A"
    BY <1>2, <1>3, <2>1 DEF CommitTarget, Other
  <2>2. CASE s = "B"
    <3>1. ~(record_valid(flash["A"]) /\ flash["A"].store.generation = Current.generation)
      BY <1>1, <1>4, <2>2 DEF Other, record_valid
    <3> QED
      BY <3>1, <2>2 DEF CommitTarget, Other
  <2> QED
    BY <2>1, <2>2
<1>6. Other(Other(s)) = s /\ Other(s) \in {"A", "B"}
  BY DEF Other
<1> QED
  BY <1>1, <1>5, <1>6

-----------------------------------------------------------------------------
\* What a boot would find if the sector being written held x: the committed
\* roster as long as x is no record or an older one, else the new roster.
LEMMA SectorWritten ==
  ASSUME FlashTypeOK, RecordsSound, RecoveryKept, CommitShape, NEW x \in Sector,
         \/ x.kind # "record"
         \/ x = Recorded(op.store)
         \/ x = flash[op.target] /\ x.store.generation < committed.generation
  PROVE  LET f == [flash EXCEPT ![op.target] = x]
             found == controller_store_boot(f["A"], f["B"])
         IN /\ f \in [{"A", "B"} -> Sector]
            /\ \A s \in {"A", "B"} :
                 f[s].kind = "record" =>
                   record_valid(f[s]) /\ f[s].store.slots[0].public_key = RecoveryKey
            /\ f["A"].kind = "record" /\ f["B"].kind = "record" =>
                 f["A"].store.generation # f["B"].store.generation
            /\ x = Recorded(op.store) => boot_ok(f["A"], f["B"]) /\ found = op.store
            /\ x # Recorded(op.store) /\ op.caller # "seed" =>
                 boot_ok(f["A"], f["B"]) /\ found = committed
            /\ x # Recorded(op.store) /\ op.caller = "seed" =>
                 ~boot_ok(f["A"], f["B"]) /\ found = controller_store_empty
<1> DEFINE f == [flash EXCEPT ![op.target] = x]
           t == op.target
<1>1. /\ t \in {"A", "B"} /\ Other(t) \in {"A", "B"} /\ Other(t) # t
      /\ Other(Other(t)) = t /\ {"A", "B"} = {t, Other(t)}
  BY DEF FlashTypeOK, Other
<1>2. f \in [{"A", "B"} -> Sector] /\ f[t] = x /\ f[Other(t)] = flash[Other(t)]
  BY <1>1 DEF FlashTypeOK
<1>3. /\ committed \in Store /\ op.store \in Store /\ roster_valid(op.store.slots)
      /\ committed.generation \in Nat /\ op.store.generation = committed.generation + 1
  BY DEF FlashTypeOK, CommitShape, Sound, Store
<1>4. IF op.caller = "seed" THEN f[Other(t)] = Erased ELSE f[Other(t)] = Recorded(committed)
  BY <1>2 DEF CommitShape
<1>5. /\ f[Other(t)].kind = "record" =>
           /\ record_valid(f[Other(t)]) /\ f[Other(t)].store.slots[0].public_key = RecoveryKey
           /\ f[Other(t)].store = committed /\ op.caller # "seed"
      /\ op.caller # "seed" => f[Other(t)].kind = "record"
  BY <1>1, <1>2, <1>3, <1>4, SectorFacts DEF RecordsSound, RecoveryKept
<1>6. x.kind = "record" =>
        /\ record_valid(x) /\ x.store.slots[0].public_key = RecoveryKey
        /\ x.store.generation # committed.generation /\ x.store.generation \in Nat
  <2>1. CASE x.kind # "record"
    BY <2>1
  <2>2. CASE x = Recorded(op.store)
    BY <1>3, <2>2, SectorFacts DEF record_valid, CommitShape
  <2>3. CASE x = flash[op.target] /\ x.store.generation < committed.generation
    BY <1>1, <1>3, <2>3 DEF RecordsSound, RecoveryKept, FlashTypeOK, Sector, Store
  <2> QED
    BY <2>1, <2>2, <2>3
<1>7. /\ \A s \in {"A", "B"} :
           f[s].kind = "record" =>
             record_valid(f[s]) /\ f[s].store.slots[0].public_key = RecoveryKey
      /\ f["A"].kind = "record" /\ f["B"].kind = "record" =>
           f["A"].store.generation # f["B"].store.generation
  <2>1. f[t].kind = "record" /\ f[Other(t)].kind = "record" =>
          f[t].store.generation # f[Other(t)].store.generation
    BY <1>2, <1>5, <1>6
  <2> QED
    BY <1>1, <1>2, <1>5, <1>6, <2>1
<1>8. CASE x = Recorded(op.store)
  <2>1. record_valid(f[t]) /\ f[t].store = op.store
    BY <1>2, <1>3, <1>6, <1>8, SectorFacts
  <2>2. record_valid(f[Other(t)]) => f[Other(t)].store.generation < f[t].store.generation
    BY <1>3, <1>5, <2>1 DEF record_valid
  <2>3. boot_ok(f["A"], f["B"]) /\ controller_store_boot(f["A"], f["B"]) = op.store
    BY <1>1, <1>2, <2>1, <2>2, BootTakes
  <2> QED
    BY <1>2, <1>7, <1>8, <2>3
<1>9. CASE x # Recorded(op.store) /\ op.caller # "seed"
  <2>1. record_valid(f[Other(t)]) /\ f[Other(t)].store = committed
    BY <1>5, <1>9
  <2>2. record_valid(f[t]) => f[t].store.generation < f[Other(t)].store.generation
    BY <1>2, <1>9, <2>1 DEF record_valid
  <2>3. boot_ok(f["A"], f["B"]) /\ controller_store_boot(f["A"], f["B"]) = committed
    BY <1>1, <1>2, <2>1, <2>2, BootTakes
  <2> QED
    BY <1>2, <1>7, <1>9, <2>3
<1>10. CASE x # Recorded(op.store) /\ op.caller = "seed"
  <2>1. x.kind # "record"
    <3>1. committed.generation = 0
      BY <1>10 DEF CommitShape
    <3>2. ~(x.kind = "record" /\ x.store.generation < committed.generation)
      BY <1>6, <3>1
    <3> QED
      BY <1>10, <3>2
  <2>2. f[t].kind # "record" /\ f[Other(t)].kind # "record"
    BY <1>2, <1>5, <1>10, <2>1
  <2>3. f["A"].kind # "record" /\ f["B"].kind # "record"
    BY <1>1, <2>2
  <2>4. /\ ~boot_ok(f["A"], f["B"])
        /\ controller_store_boot(f["A"], f["B"]) = controller_store_empty
    BY <2>3, BootFindsNothing
  <2> QED
    BY <1>2, <1>7, <1>10, <2>4
<1> QED
  BY <1>8, <1>9, <1>10

\* The same for the flash as it is, in every step of a commit.
LEMMA CommitFinds ==
  ASSUME FlashInv, InCommit
  PROVE  /\ flash[op.target] = Recorded(op.store) => BootOk /\ Current = op.store
         /\ flash[op.target] # Recorded(op.store) /\ op.caller # "seed" =>
              BootOk /\ Current = committed
         /\ flash[op.target] # Recorded(op.store) /\ op.caller = "seed" =>
              ~BootOk /\ Current = controller_store_empty
<1> DEFINE x == flash[op.target]
<1>1. FlashTypeOK /\ RecordsSound /\ RecoveryKept /\ CommitShape
  BY DEF FlashInv
<1>2. op.target \in {"A", "B"} /\ flash \in [{"A", "B"} -> Sector]
  BY <1>1 DEF FlashTypeOK
<1>3. x \in Sector /\ [flash EXCEPT ![op.target] = x] = flash
  BY <1>2
<1>4. \/ x.kind # "record"
      \/ x = Recorded(op.store)
      \/ x = flash[op.target] /\ x.store.generation < committed.generation
  BY <1>1, SectorFacts DEF InCommit, CommitShape
<1> HIDE DEF x
<1>5. LET f == [flash EXCEPT ![op.target] = x]
          found == controller_store_boot(f["A"], f["B"])
      IN /\ x = Recorded(op.store) => boot_ok(f["A"], f["B"]) /\ found = op.store
         /\ x # Recorded(op.store) /\ op.caller # "seed" =>
              boot_ok(f["A"], f["B"]) /\ found = committed
         /\ x # Recorded(op.store) /\ op.caller = "seed" =>
              ~boot_ok(f["A"], f["B"]) /\ found = controller_store_empty
  BY <1>1, <1>3, <1>4, SectorWritten
<1> QED
  BY <1>3, <1>5 DEF x, BootOk, Current

-----------------------------------------------------------------------------
\* The invariant holds in a device fresh from the factory.
LEMMA FlashInvInit == Init => FlashInv
<1> SUFFICES ASSUME Init PROVE FlashInv
  OBVIOUS
<1>1. FlashTypeOK
  BY SectorFacts, EmptyStoreType DEF Init, FlashTypeOK, NoOp
<1>2. flash["A"].kind # "record" /\ flash["B"].kind # "record"
  BY SectorFacts DEF Init
<1>3. ~InCommit /\ RestShape
  BY EmptyStoreType DEF Init, InCommit, RestShape
<1> QED
  BY <1>1, <1>2, <1>3 DEF FlashInv, RecordsSound, RecoveryKept

\* What depends on the flash alone stays when the flash does.
LEMMA FlashUnchanged ==
  ASSUME FlashInv, flash' = flash
  PROVE  /\ RecordsSound' /\ RecoveryKept' /\ BootOk' = BootOk /\ Current' = Current
         /\ flash' \in [{"A", "B"} -> Sector]
BY DEF FlashInv, FlashTypeOK, RecordsSound, RecoveryKept, BootOk, Current

\* A commit that fails leaves the roster that was committed in force.
LEMMA CommitFailedInv ==
  ASSUME FlashInv, NEW caller \in {"seed", "import", "command"},
         CommitFailed(caller), flash' = flash, attempted' = attempted, ram' \in Store,
         caller = "command" => ram' = committed,
         caller = "seed" => committed.generation = 0,
         caller # "seed" => BootOk /\ Current = committed
  PROVE  FlashInv'
<1>1. /\ RecordsSound' /\ RecoveryKept' /\ BootOk' = BootOk /\ Current' = Current
      /\ flash' \in [{"A", "B"} -> Sector]
  BY FlashUnchanged
<1>2. FlashTypeOK'
  BY <1>1, EmptyStoreType DEF FlashInv, FlashTypeOK, CommitFailed, NoOp
<1>3. ~InCommit' /\ RestShape'
  BY <1>1 DEF CommitFailed, InCommit, RestShape, NoOp
<1> QED
  BY <1>1, <1>2, <1>3 DEF FlashInv

\* controller_store_flash_commit up to program_sector, for each of its callers.
LEMMA BeginCommitInv ==
  ASSUME FlashInv, NEW caller \in {"seed", "import", "command"}, NEW store,
         BeginCommit(caller, store), flash' = flash, attempted' = attempted, ram' \in Store,
         Sound(store), store.slots[0].public_key = RecoveryKey,
         store.generation = committed.generation + 1,
         caller = "command" => ram' = committed,
         caller = "seed" =>
           committed.generation = 0 /\ flash["A"] = Erased /\ flash["B"] = Erased,
         caller # "seed" => BootOk /\ Current = committed
  PROVE  FlashInv'
<1>1. CASE CommitFailed(caller)
  BY <1>1, CommitFailedInv
<1>2. CASE /\ op' = [caller |-> caller, target |-> CommitTarget, store |-> store]
           /\ pc' = "erase"
           /\ UNCHANGED <<status, committed>>
  <2>1. /\ RecordsSound' /\ RecoveryKept'
        /\ flash' \in [{"A", "B"} -> Sector]
    BY FlashUnchanged
  <2>2. CommitTarget \in {"A", "B"} /\ store \in Store
    BY DEF CommitTarget, Sound
  <2>3. FlashTypeOK'
    BY <1>2, <2>1, <2>2 DEF FlashInv, FlashTypeOK
  <2>4. /\ flash[Other(CommitTarget)] =
             IF caller = "seed" THEN Erased ELSE Recorded(committed)
        /\ flash[CommitTarget].kind = "record" =>
             flash[CommitTarget].store.generation < committed.generation
    <3>1. CASE caller = "seed"
      BY <2>2, <3>1, SectorFacts DEF Other
    <3>2. CASE caller # "seed"
      BY <3>2, TargetIsOther DEF FlashInv
    <3> QED
      BY <3>1, <3>2
  <2>5. InCommit' /\ CommitShape'
    BY <1>2, <2>2, <2>4 DEF InCommit, CommitShape
  <2> QED
    BY <2>1, <2>3, <2>5 DEF FlashInv
<1> QED
  BY <1>1, <1>2 DEF BeginCommit

\* PowerOn, and the boot that finds a record, or finds damage and stops.
LEMMA BootInv ==
  ASSUME FlashInv, PowerOn \/ BootExisting \/ BootRefused \/ SetupDone
  PROVE  FlashInv'
<1>1. flash' = flash /\ ~InCommit /\ ~InCommit' /\ op' = NoOp /\ op = NoOp
  BY DEF PowerOn, BootExisting, BootRefused, SetupDone, InCommit, FlashInv, RestShape
<1>2. /\ RecordsSound' /\ RecoveryKept' /\ BootOk' = BootOk /\ Current' = Current
      /\ flash' \in [{"A", "B"} -> Sector]
  BY <1>1, FlashUnchanged
<1>3. FlashTypeOK /\ RestShape
  BY <1>1 DEF FlashInv
<1>4. BootOk => Current \in Store
  BY <1>3 DEF FlashTypeOK, Sector, BootOk, Current, boot_ok, controller_store_boot
<1>5. CASE PowerOn
  BY <1>1, <1>2, <1>3, <1>5 DEF PowerOn, FlashInv, FlashTypeOK, RestShape
<1>6. CASE BootExisting
  BY <1>1, <1>2, <1>3, <1>4, <1>6, EmptyStoreType
  DEF BootExisting, FlashInv, FlashTypeOK, RestShape
<1>7. CASE BootRefused
  BY <1>1, <1>2, <1>3, <1>7, EmptyStoreType DEF BootRefused, FlashInv, FlashTypeOK, RestShape
<1>8. CASE SetupDone
  BY <1>1, <1>2, <1>3, <1>8 DEF SetupDone, FlashInv, FlashTypeOK, RestShape
<1> QED
  BY <1>5, <1>6, <1>7, <1>8

\* The first boot of a new device.
LEMMA BootSeedInv ==
  ASSUME FlashInv, BootSeed
  PROVE  FlashInv'
<1> DEFINE new == controller_store_initialise(RecoveryKey)
<1>1. RecoveryKey \in PublicKeys \ {ZeroKey}
  BY KeyAssumption
<1>2. Sound(new) /\ new.generation = 1 /\ new.slots[0].public_key = RecoveryKey
  BY <1>1, InitialiseSound
<1>3. committed.generation = 0
  BY DEF BootSeed, FlashInv, InCommit, RestShape
<1> HIDE DEF new
<1>4. /\ BeginCommit("seed", new) /\ ram' = new /\ flash' = flash /\ attempted' = attempted
      /\ flash["A"] = Erased /\ flash["B"] = Erased
  BY DEF BootSeed, new
<1>5. new \in Store
  BY <1>2 DEF Sound
<1> QED
  BY <1>2, <1>3, <1>4, <1>5, BeginCommitInv

\* The record that a boot took is sound and names the recovery admin.
LEMMA CurrentSound ==
  ASSUME FlashInv, BootOk
  PROVE  Sound(Current) /\ Current.slots[0].public_key = RecoveryKey
<1>1. PICK s \in {"A", "B"} : flash[s] = Recorded(Current)
  BY BootSource DEF FlashInv
<1>2. flash[s].kind = "record" /\ flash[s].store = Current
  BY <1>1 DEF Recorded
<1>3. flash[s].store \in Store
  BY DEF FlashInv, FlashTypeOK, Sector
<1> QED
  BY <1>2, <1>3 DEF FlashInv, RecordsSound, RecoveryKept, record_valid, Sound

\* controller_setup on the first boot.
LEMMA ImportInv ==
  ASSUME FlashInv, Import
  PROVE  FlashInv'
<1>1. BootOk /\ Current = committed /\ ram = committed /\ MustImport
  BY DEF Import, FlashInv, InCommit, RestShape
<1>2. Sound(ram) /\ ram.slots[0].public_key = RecoveryKey
  BY <1>1, CurrentSound
<1>3. InitiatorKey \in PublicKeys \ {ZeroKey} /\ InitiatorKey # RecoveryKey
  BY KeyAssumption
<1>4. ~controller_store_find(ram, InitiatorKey)
  BY <1>1, <1>2, <1>3 DEF MustImport, controller_store_find
<1>5. FreeSlots(ram) # {}
  <2>1. LastSlot \in Slots \ {0}
    BY StoreAssumption DEF Slots
  <2> QED
    BY <1>1, <2>1 DEF MustImport, FreeSlots
<1> DEFINE new == controller_store_add(ram, InitiatorKey, ADMIN)
<1>6. /\ Sound(new) /\ new.generation = ram.generation + 1
      /\ new.slots[0].public_key = RecoveryKey
  BY <1>2, <1>3, <1>4, <1>5, AddSound
<1>7. BeginCommit("import", new) /\ ram' = new /\ flash' = flash /\ attempted' = attempted
  BY DEF Import
<1> HIDE DEF new
<1>8. new \in Store
  BY <1>6 DEF Sound
<1> QED
  BY <1>1, <1>6, <1>7, <1>8, BeginCommitInv

\* Refused commands change nothing but the answer.
LEMMA RefuseInv ==
  ASSUME FlashInv, NEW st \in {"OK", "STATE", "OWNER", "LIMIT", "ARGUMENT", "POLICY"},
         Refuse(st)
  PROVE  FlashInv'
<1>1. RecordsSound' /\ RecoveryKept' /\ BootOk' = BootOk /\ Current' = Current
  BY FlashUnchanged DEF Refuse
<1> QED
  BY <1>1 DEF Refuse, FlashInv, FlashTypeOK, InCommit, CommitShape, RestShape

\* The command CONTROLLER_ADD.
LEMMA ControllerAddInv ==
  ASSUME FlashInv, NEW caller \in Slots, NEW key \in PublicKeys, NEW role \in Roles,
         ControllerAdd(caller, key, role)
  PROVE  FlashInv'
<1> DEFINE st == ble_handle_controller_add(ram, caller, key, role)
           new == controller_store_add(ram, key, role)
<1>1. BootOk /\ Current = committed /\ ram = committed
  BY DEF ControllerAdd, FlashInv, InCommit, RestShape
<1>2. Sound(ram) /\ ram.slots[0].public_key = RecoveryKey
  BY <1>1, CurrentSound
<1>3. CASE st # "OK" /\ Refuse(st)
  <2>1. st \in {"OK", "STATE", "OWNER", "LIMIT", "ARGUMENT", "POLICY"}
    BY DEF ble_handle_controller_add
  <2> QED
    BY <1>3, <2>1, RefuseInv
<1>4. CASE /\ st = "OK" /\ BeginCommit("command", new)
           /\ UNCHANGED <<flash, ram, attempted>>
  <2>1. /\ Sound(new) /\ new.generation = committed.generation + 1
        /\ new.slots[0].public_key = RecoveryKey
    <3>1. st = "OK"
      BY <1>4
    <3>2. /\ key # ZeroKey /\ role \in {OPERATOR, ADMIN}
          /\ ~controller_store_find(ram, key) /\ FreeSlots(ram) # {}
      BY <3>1, AddCommandChecks
    <3> QED
      BY <1>1, <1>2, <3>2, AddSound
  <2>2. ram' \in Store /\ ram' = committed
    BY <1>1, <1>4 DEF FlashInv, FlashTypeOK
  <2> HIDE DEF new
  <2> QED
    BY <1>1, <1>4, <2>1, <2>2, BeginCommitInv
<1> QED
  BY <1>3, <1>4 DEF ControllerAdd

\* The command CONTROLLER_REVOKE.
LEMMA ControllerRevokeInv ==
  ASSUME FlashInv, NEW caller \in Slots, NEW target, ControllerRevoke(caller, target)
  PROVE  FlashInv'
<1> DEFINE st == ble_handle_controller_revoke(ram, caller, target)
           new == controller_store_revoke(ram, target)
<1>1. BootOk /\ Current = committed /\ ram = committed
  BY DEF ControllerRevoke, FlashInv, InCommit, RestShape
<1>2. Sound(ram) /\ ram.slots[0].public_key = RecoveryKey
  BY <1>1, CurrentSound
<1>3. CASE st # "OK" /\ Refuse(st)
  <2>1. st \in {"OK", "STATE", "OWNER", "LIMIT", "ARGUMENT", "POLICY"}
    BY DEF ble_handle_controller_revoke
  <2> QED
    BY <1>3, <2>1, RefuseInv
<1>4. CASE /\ st = "OK" /\ BeginCommit("command", new)
           /\ UNCHANGED <<flash, ram, attempted>>
  <2>1. /\ Sound(new) /\ new.generation = committed.generation + 1
        /\ new.slots[0].public_key = RecoveryKey
    BY <1>1, <1>2, <1>4, RevokeCommandSound
  <2>2. ram' \in Store /\ ram' = committed
    BY <1>1, <1>4 DEF FlashInv, FlashTypeOK
  <2> HIDE DEF new
  <2> QED
    BY <1>1, <1>4, <2>1, <2>2, BeginCommitInv
<1> QED
  BY <1>3, <1>4 DEF ControllerRevoke

\* The three flash operations of program_sector.
LEMMA ProgramSectorInv ==
  ASSUME FlashInv, Erase \/ ProgramBody \/ ProgramMarker
  PROVE  FlashInv' /\ Current'.generation >= Current.generation
<1>1. InCommit /\ FlashTypeOK /\ RecordsSound /\ RecoveryKept /\ CommitShape
  BY DEF Erase, ProgramBody, ProgramMarker, InCommit, FlashInv
<1>2. PICK x \in Sector :
        /\ flash' = [flash EXCEPT ![op.target] = x]
        /\ x.kind # "record" \/ x = Recorded(op.store)
        /\ Erase => x = Erased
        /\ ProgramBody => x = Torn
        /\ ProgramMarker => x \in {Torn, Recorded(op.store)}
  <2>1. CASE Erase
    BY <2>1, SectorFacts DEF Erase, ProgramBody, ProgramMarker
  <2>2. CASE ProgramBody
    BY <2>2, SectorFacts DEF Erase, ProgramBody, ProgramMarker
  <2>3. CASE ProgramMarker
    <3>1. flash[op.target] = Torn /\ flash = [flash EXCEPT ![op.target] = Torn]
      BY <1>1, <2>3 DEF ProgramMarker, CommitShape, FlashTypeOK
    <3>2. Torn \in Sector /\ Recorded(op.store) \in Sector /\ Torn.kind # "record"
      BY <1>1, SectorFacts DEF FlashTypeOK
    <3> QED
      BY <2>3, <3>1, <3>2 DEF Erase, ProgramBody, ProgramMarker
  <2> QED
    BY <2>1, <2>2, <2>3
<1>3. /\ flash' \in [{"A", "B"} -> Sector] /\ RecordsSound' /\ RecoveryKept'
      /\ x = Recorded(op.store) => Current' = op.store
      /\ x # Recorded(op.store) /\ op.caller # "seed" => Current' = committed
      /\ x # Recorded(op.store) /\ op.caller = "seed" => Current' = controller_store_empty
  BY <1>1, <1>2, SectorWritten DEF RecordsSound, RecoveryKept, Current
<1>4. UNCHANGED <<ram, op, status, committed, attempted>>
  BY DEF Erase, ProgramBody, ProgramMarker
<1>5. FlashTypeOK'
  BY <1>1, <1>3, <1>4 DEF FlashTypeOK, Erase, ProgramBody, ProgramMarker
<1>6. /\ op.target \in {"A", "B"} /\ Other(op.target) \in {"A", "B"}
      /\ Other(op.target) # op.target
  BY <1>1 DEF FlashTypeOK, Other
<1>7. flash'[op.target] = x /\ flash'[Other(op.target)] = flash[Other(op.target)]
  BY <1>1, <1>2, <1>6 DEF FlashTypeOK
<1>8. CommitShape' /\ InCommit'
  <2>1. /\ op.caller \in {"seed", "import", "command"}
        /\ Sound(op.store) /\ op.store.slots[0].public_key = RecoveryKey
        /\ op.store.generation = committed.generation + 1
        /\ op.caller = "command" => ram = committed
        /\ op.caller = "seed" => committed.generation = 0
        /\ flash'[Other(op.target)] = IF op.caller = "seed" THEN Erased ELSE Recorded(committed)
    BY <1>1, <1>7 DEF CommitShape
  <2>2. /\ pc' \in {"body", "marker", "verify"}
        /\ pc' = "body" => x = Erased
        /\ pc' = "marker" => x = Torn
        /\ pc' = "verify" => x \in {Torn, Recorded(op.store)}
    BY <1>2 DEF Erase, ProgramBody, ProgramMarker
  <2> QED
    BY <1>4, <1>7, <2>1, <2>2 DEF CommitShape, InCommit
<1>9. Current'.generation >= Current.generation
  <2>1. committed.generation \in Nat /\ op.store.generation = committed.generation + 1
    BY <1>1 DEF FlashTypeOK, Store, CommitShape
  <2>2. flash[op.target] # Recorded(op.store)
    <3>1. op.store \in Store
      BY <1>1 DEF FlashTypeOK
    <3> QED
      BY <1>1, <2>1, <3>1, SectorFacts DEF CommitShape, Erase, ProgramBody, ProgramMarker
  <2>3. Current = IF op.caller = "seed" THEN controller_store_empty ELSE committed
    BY <1>1, <2>2, CommitFinds
  <2> QED
    BY <1>3, <2>1, <2>3, EmptyStoreType
<1> QED
  BY <1>3, <1>5, <1>8, <1>9 DEF FlashInv

\* The read-back at the end of controller_store_flash_commit.
LEMMA CommitEndInv ==
  ASSUME FlashInv, CommitDone \/ VerifyFailed
  PROVE  FlashInv'
<1>1. InCommit /\ FlashTypeOK /\ CommitShape /\ pc = "verify" /\ flash' = flash
  BY DEF CommitDone, VerifyFailed, InCommit, FlashInv
<1>2. /\ RecordsSound' /\ RecoveryKept' /\ BootOk' = BootOk /\ Current' = Current
      /\ flash' \in [{"A", "B"} -> Sector]
  BY <1>1, FlashUnchanged
<1>3. committed.generation \in Nat /\ op.store.generation = committed.generation + 1
  BY <1>1 DEF FlashTypeOK, Store, CommitShape
<1>4. Verified <=> flash[op.target] = Recorded(op.store)
  BY <1>1, <1>3, CommitFinds DEF Verified
<1>5. CASE CommitDone
  <2>1. BootOk /\ Current = op.store
    BY <1>1, <1>4, <1>5, CommitFinds DEF CommitDone
  <2>2. FlashTypeOK'
    BY <1>1, <1>2, <1>5, EmptyStoreType DEF CommitDone, FlashTypeOK, NoOp
  <2>3. ~InCommit' /\ RestShape'
    BY <1>2, <1>5, <2>1 DEF CommitDone, InCommit, RestShape, NoOp
  <2> QED
    BY <1>2, <2>2, <2>3 DEF FlashInv
<1>6. CASE VerifyFailed
  <2>1. op.caller # "seed" => BootOk /\ Current = committed
    BY <1>1, <1>4, <1>6, CommitFinds DEF VerifyFailed
  <2>2. /\ CommitFailed(op.caller) /\ op.caller \in {"seed", "import", "command"}
        /\ attempted' = attempted /\ ram' = ram /\ ram \in Store
        /\ op.caller = "command" => ram = committed
        /\ op.caller = "seed" => committed.generation = 0
    BY <1>1, <1>6 DEF VerifyFailed, CommitShape, FlashTypeOK
  <2> QED
    BY <1>1, <2>1, <2>2, CommitFailedInv
<1> QED
  BY <1>5, <1>6

\* Loss of power at any moment, in the middle of a flash operation included.
LEMMA PowerLossInv ==
  ASSUME FlashInv, PowerLoss
  PROVE  FlashInv' /\ Current'.generation >= Current.generation
<1>1. FlashTypeOK /\ RecordsSound /\ RecoveryKept /\ committed \in Store /\ op.store \in Store
      /\ committed.generation \in Nat
  BY DEF FlashInv, FlashTypeOK, Store
<1>2. Current.generation \in Nat
  BY <1>1, EmptyStoreType
  DEF Current, controller_store_boot, boot_takes_a, FlashTypeOK, Sector, Store
<1>3. CASE flash' = flash
  <2>1. /\ RecordsSound' /\ RecoveryKept' /\ BootOk' = BootOk /\ Current' = Current
        /\ flash' \in [{"A", "B"} -> Sector]
    BY <1>3, FlashUnchanged
  <2>2. FlashTypeOK'
    BY <1>1, <2>1, EmptyStoreType DEF FlashTypeOK, PowerLoss, NoOp
  <2>3. committed.generation # 0 => BootOk /\ Current \in {committed, attempted'}
    <3>1. CASE InCommit
      BY <3>1, CommitFinds DEF PowerLoss, FlashInv, CommitShape
    <3>2. CASE ~InCommit
      BY <3>2 DEF PowerLoss, FlashInv, RestShape
    <3> QED
      BY <3>1, <3>2
  <2>4. ~InCommit' /\ RestShape'
    BY <2>1, <2>3 DEF PowerLoss, InCommit, RestShape, NoOp
  <2> QED
    BY <1>2, <2>1, <2>2, <2>4 DEF FlashInv
<1>4. CASE /\ pc \in {"erase", "body", "marker"}
           /\ flash' = [flash EXCEPT ![op.target] = Torn]
  <2>1. InCommit /\ CommitShape
    BY <1>4 DEF InCommit, FlashInv
  <2>2. Torn \in Sector /\ Torn.kind # "record" /\ Torn # Recorded(op.store)
    BY <1>1, SectorFacts
  <2>3. /\ flash' \in [{"A", "B"} -> Sector] /\ RecordsSound' /\ RecoveryKept'
        /\ op.caller # "seed" => BootOk' /\ Current' = committed
        /\ op.caller = "seed" => Current' = controller_store_empty
    BY <1>1, <1>4, <2>1, <2>2, SectorWritten DEF RecordsSound, RecoveryKept, BootOk, Current
  <2>4. FlashTypeOK'
    BY <1>1, <2>3, EmptyStoreType DEF FlashTypeOK, PowerLoss, NoOp
  <2>5. ~InCommit' /\ RestShape'
    BY <2>1, <2>3 DEF PowerLoss, InCommit, RestShape, NoOp, CommitShape
  <2>6. Current = Current'
    <3>1. op.store.generation = committed.generation + 1
      BY <2>1 DEF CommitShape
    <3>2. flash[op.target] # Recorded(op.store)
      BY <1>1, <1>4, <2>1, <3>1, SectorFacts DEF CommitShape
    <3> QED
      BY <2>1, <2>3, <3>2, CommitFinds
  <2> QED
    BY <1>2, <2>3, <2>4, <2>5, <2>6 DEF FlashInv
<1> QED
  BY <1>3, <1>4 DEF PowerLoss

-----------------------------------------------------------------------------
\* Every step keeps the invariant, and no step takes a boot back to an older
\* roster.
LEMMA FlashInvStep ==
  ASSUME FlashInv, [Next]_vars
  PROVE  FlashInv' /\ Current'.generation >= Current.generation
<1>1. Current.generation \in Nat
  BY EmptyStoreType
  DEF FlashInv, Current, controller_store_boot, boot_takes_a, FlashTypeOK, Sector, Store
<1>2. flash' = flash => Current'.generation >= Current.generation
  BY <1>1, FlashUnchanged
<1>3. CASE PowerOn \/ BootExisting \/ BootRefused \/ SetupDone
  BY <1>2, <1>3, BootInv DEF PowerOn, BootExisting, BootRefused, SetupDone
<1>4. CASE PowerLoss
  BY <1>4, PowerLossInv
<1>5. CASE BootSeed
  BY <1>2, <1>5, BootSeedInv DEF BootSeed
<1>6. CASE Import
  BY <1>2, <1>6, ImportInv DEF Import
<1>7. CASE Erase \/ ProgramBody \/ ProgramMarker
  BY <1>7, ProgramSectorInv
<1>8. CASE CommitDone \/ VerifyFailed
  BY <1>2, <1>8, CommitEndInv DEF CommitDone, VerifyFailed
<1>9. CASE \E caller \in Slots, key \in PublicKeys, role \in Roles :
             ControllerAdd(caller, key, role)
  BY <1>2, <1>9, ControllerAddInv DEF ControllerAdd, Refuse
<1>10. CASE \E caller \in Slots, target \in 0..(LastSlot + 1) : ControllerRevoke(caller, target)
  BY <1>2, <1>10, ControllerRevokeInv DEF ControllerRevoke, Refuse
<1>11. CASE UNCHANGED vars
  <2>1. UNCHANGED <<flash, pc, ram, op, status, committed, attempted>>
    BY <1>11 DEF vars
  <2>2. /\ RecordsSound' /\ RecoveryKept' /\ BootOk' = BootOk /\ Current' = Current
    BY <2>1, FlashUnchanged
  <2> QED
    BY <1>2, <2>1, <2>2 DEF FlashInv, FlashTypeOK, InCommit, CommitShape, RestShape
<1> QED
  BY <1>3, <1>4, <1>5, <1>6, <1>7, <1>8, <1>9, <1>10, <1>11 DEF Next

\* The invariant is strong enough for what the run checks.
LEMMA FlashInvImplies ==
  FlashInv => FlashTypeOK /\ RecordsSound /\ RamIsFlash /\ BootFindsCommitted
<1> SUFFICES ASSUME FlashInv PROVE RamIsFlash /\ BootFindsCommitted
  BY DEF FlashInv
<1>1. CASE InCommit
  <2>1. pc # "running"
    BY <1>1 DEF InCommit
  <2>2. CommitShape
    BY <1>1 DEF FlashInv
  <2>3. committed.generation # 0 => BootOk /\ Current \in {committed, op.store}
    BY <1>1, <2>2, CommitFinds DEF CommitShape
  <2> QED
    BY <2>1, <2>3 DEF RamIsFlash, BootFindsCommitted
<1>2. CASE ~InCommit
  BY <1>2 DEF FlashInv, RestShape, RamIsFlash, BootFindsCommitted
<1> QED
  BY <1>1, <1>2

\* FlashInv is an invariant of the roster in flash.
THEOREM FlashInvariant == Spec => []FlashInv
<1>1. FlashInv /\ [Next]_vars => FlashInv'
  BY FlashInvStep
<1> QED
  BY FlashInvInit, <1>1, PTL DEF Spec

\* A roster that was reported committed, or adopted by a boot, is what the
\* next boot finds, unless a newer change had begun (controller_store_boot
\* after any sequence of power failures).
THEOREM CommittedRosterSurvives == Spec => []BootFindsCommitted
BY FlashInvariant, FlashInvImplies, PTL

\* While commands are served, the roster in RAM is the one a reboot finds.
THEOREM RamAgreesWithFlash == Spec => []RamIsFlash
BY FlashInvariant, FlashInvImplies, PTL

\* Every record passes record_valid and the two sectors never hold the same
\* generation.
THEOREM RecordsAlwaysSound == Spec => []RecordsSound
BY FlashInvariant, FlashInvImplies, PTL

\* The recovery admin that the firmware was built with is in every record, in
\* whatever order admins add and revoke controllers and power fails.
THEOREM RecoveryAdminKept == Spec => []RecoveryKept
<1>1. FlashInv => RecoveryKept
  BY DEF FlashInv
<1> QED
  BY FlashInvariant, <1>1, PTL

\* The generation that a boot would find never goes back.
THEOREM GenerationHolds == Spec => GenerationNeverBack
<1>1. FlashInv /\ [Next]_vars => [Current'.generation >= Current.generation]_vars
  BY FlashInvStep
<1> QED
  BY FlashInvariant, <1>1, PTL DEF Spec, GenerationNeverBack

-----------------------------------------------------------------------------
(***************************************************************************)
(* The radio record.                                                       *)
(***************************************************************************)

\* Two bodies that agree on their first n bytes have the same parts there.
LEMMA SamePrefix ==
  ASSUME NEW n \in Nat, NEW f \in [1..SectorSize -> Nat], NEW g \in [1..SectorSize -> Nat],
         n <= SectorSize, SubSeq(f, 1, n) = SubSeq(g, 1, n),
         NEW i \in 1..(n + 1), NEW j \in 0..n
  PROVE  SubSeq(f, i, j) = SubSeq(g, i, j)
<1>1. SectorSize \in Nat
  BY RadioAssumption
<1>2. \A k \in 1..n : f[k] = g[k]
  <2> TAKE k \in 1..n
  <2>1. /\ \A m \in 1..n : f[m] \in Nat /\ g[m] \in Nat
    BY <1>1
  <2>2. SubSeq(f, 1, n)[k] = f[k] /\ SubSeq(g, 1, n)[k] = g[k]
    BY <2>1, SubSeqProperties
  <2> QED
    BY <2>2
<1>3. \A k \in i..j : f[k] \in Nat /\ g[k] \in Nat /\ f[k] = g[k]
  BY <1>1, <1>2
<1>4. /\ SubSeq(f, i, j) \in Seq(Nat) /\ SubSeq(g, i, j) \in Seq(Nat)
      /\ Len(SubSeq(f, i, j)) = IF i <= j THEN j - i + 1 ELSE 0
      /\ Len(SubSeq(g, i, j)) = IF i <= j THEN j - i + 1 ELSE 0
      /\ \A k \in 1..(j - i + 1) : SubSeq(f, i, j)[k] = f[i + k - 1]
      /\ \A k \in 1..(j - i + 1) : SubSeq(g, i, j)[k] = g[i + k - 1]
  BY <1>3, SubSeqProperties
<1>5. \A k \in 1..Len(SubSeq(f, i, j)) : SubSeq(f, i, j)[k] = SubSeq(g, i, j)[k]
  BY <1>3, <1>4
<1> QED
  BY <1>4, <1>5, SeqEqual

\* The fields of the record that radio_config_build2 makes.
LEMMA BuildFields ==
  ASSUME NEW ssid \in Seq(Nat), NEW psk \in Seq(Nat), build2_ok(ssid, psk)
  PROVE  LET s == radio_config_build2(ssid, psk)
         IN /\ s.magic = "PBRAD02" /\ s.a = Len(ssid) /\ s.b = Len(psk)
            /\ s.c = 0 /\ s.d = 0 /\ s.total = Len(ssid) + Len(psk)
            /\ s.crc = Covered(s.a, s.b, s.c, s.d, s.body)
            /\ s.body \in [1..SectorSize -> Nat]
            /\ \A i \in 1..Len(ssid) : s.body[i] = ssid[i]
            /\ \A i \in 1..Len(psk) : s.body[Len(ssid) + i] = psk[i]
            /\ \A i \in (s.total + 1)..SectorSize : s.body[i] = Blank
            /\ Len(ssid) + Len(psk) <= SectorSize
<1> DEFINE s == radio_config_build2(ssid, psk)
           text == ssid \o psk
<1>1. Len(ssid) + Len(psk) <= SectorSize /\ SectorSize \in Nat /\ Blank \in Nat
  BY RadioAssumption DEF build2_ok
<1>2. /\ text \in Seq(Nat) /\ Len(text) = Len(ssid) + Len(psk)
      /\ \A i \in 1..Len(ssid) : text[i] = ssid[i]
      /\ \A i \in 1..Len(psk) : text[Len(ssid) + i] = psk[i]
  OBVIOUS
<1> HIDE DEF text
<1>3. /\ s.magic = "PBRAD02" /\ s.a = Len(ssid) /\ s.b = Len(psk)
      /\ s.c = 0 /\ s.d = 0 /\ s.total = Len(ssid) + Len(psk)
      /\ s.crc = Covered(s.a, s.b, s.c, s.d, s.body)
      /\ s.body = [i \in 1..SectorSize |-> IF i <= Len(text) THEN text[i] ELSE Blank]
  BY <1>2 DEF radio_config_build2, text
<1> HIDE DEF s
<1>4. s.body \in [1..SectorSize -> Nat]
  BY <1>1, <1>2, <1>3
<1>5. \A i \in 1..SectorSize : s.body[i] = IF i <= Len(text) THEN text[i] ELSE Blank
  BY <1>3
<1>6. Len(ssid) \in Nat /\ Len(psk) \in Nat
  OBVIOUS
<1>7. \A i \in 1..Len(ssid) : s.body[i] = ssid[i]
  <2> TAKE i \in 1..Len(ssid)
  <2>1. i \in 1..SectorSize /\ i <= Len(text)
    BY <1>1, <1>2, <1>6
  <2> QED
    BY <1>2, <1>5, <2>1
<1>8. \A i \in 1..Len(psk) : s.body[Len(ssid) + i] = psk[i]
  <2> TAKE i \in 1..Len(psk)
  <2>1. Len(ssid) + i \in 1..SectorSize /\ Len(ssid) + i <= Len(text)
    BY <1>1, <1>2, <1>6
  <2> QED
    BY <1>2, <1>5, <2>1
<1>9. \A i \in (s.total + 1)..SectorSize : s.body[i] = Blank
  <2> TAKE i \in (s.total + 1)..SectorSize
  <2>1. i \in 1..SectorSize /\ ~(i <= Len(text))
    BY <1>1, <1>2, <1>3, <1>6
  <2> QED
    BY <1>5, <2>1
<1> QED
  BY <1>1, <1>3, <1>4, <1>7, <1>8, <1>9 DEF s

\* The bytes that build2 accepts are printable.
LEMMA BuildPrintable ==
  ASSUME NEW ssid \in Seq(Nat), NEW psk \in Seq(Nat), build2_ok(ssid, psk)
  PROVE  /\ \A i \in 1..Len(ssid) : ssid[i] \in Printable
         /\ \A i \in 1..Len(psk) : psk[i] \in Printable
<1>1. /\ \A i \in 1..Len(ssid) : (ssid \o psk)[i] = ssid[i]
      /\ \A i \in 1..Len(psk) : (ssid \o psk)[Len(ssid) + i] = psk[i]
      /\ DOMAIN (ssid \o psk) = 1..(Len(ssid) + Len(psk))
  OBVIOUS
<1>2. \A i \in 1..(Len(ssid) + Len(psk)) : (ssid \o psk)[i] \in Printable
  BY <1>1 DEF build2_ok, ToSet
<1>3. \A i \in 1..Len(ssid) : i \in 1..(Len(ssid) + Len(psk))
  OBVIOUS
<1>4. \A i \in 1..Len(psk) : Len(ssid) + i \in 1..(Len(ssid) + Len(psk))
  OBVIOUS
<1> QED
  BY <1>1, <1>2, <1>3, <1>4, Zenon

(***************************************************************************)
(* Round trip: every name and password that radio_config_build2 accepts    *)
(* make a record that radio_config_parse2 accepts and reads back as        *)
(* exactly this name and this password.  The branch in SET_RADIO for a     *)
(* record that does not parse is therefore never taken.                    *)
(***************************************************************************)
THEOREM BuildParses ==
  ASSUME NEW ssid \in Seq(Nat), NEW psk \in Seq(Nat), build2_ok(ssid, psk)
  PROVE  /\ radio_config_parse2(radio_config_build2(ssid, psk))
         /\ NetworkOf(radio_config_build2(ssid, psk)) = <<ssid, psk>>
<1> DEFINE s == radio_config_build2(ssid, psk)
<1>1. /\ s.magic = "PBRAD02" /\ s.a = Len(ssid) /\ s.b = Len(psk)
      /\ s.c = 0 /\ s.d = 0 /\ s.total = Len(ssid) + Len(psk)
      /\ s.crc = Covered(s.a, s.b, s.c, s.d, s.body)
      /\ s.body \in [1..SectorSize -> Nat]
      /\ \A i \in 1..Len(ssid) : s.body[i] = ssid[i]
      /\ \A i \in 1..Len(psk) : s.body[Len(ssid) + i] = psk[i]
      /\ \A i \in (s.total + 1)..SectorSize : s.body[i] = Blank
      /\ Len(ssid) + Len(psk) <= SectorSize
  BY BuildFields
<1> HIDE DEF s
<1>2. s.a \in 1..MaxSsid /\ s.b \in MinPsk..MaxPsk /\ SectorSize \in Nat
  BY <1>1, RadioAssumption DEF build2_ok
<1>3. \A i \in 1..(s.a + s.b) : s.body[i] \in Printable
  <2> TAKE i \in 1..(s.a + s.b)
  <2>1. CASE i <= s.a
    BY <1>1, <2>1, BuildPrintable
  <2>2. CASE ~(i <= s.a)
    <3>1. s.a \in Nat /\ s.b \in Nat /\ s.a = Len(ssid) /\ s.b = Len(psk)
      BY <1>1
    <3>2. PICK j \in 1..Len(psk) : i = Len(ssid) + j
      <4>1. i - s.a \in 1..Len(psk) /\ i = Len(ssid) + (i - s.a)
        BY <2>2, <3>1
      <4> QED
        BY <4>1
    <3>3. s.body[i] = psk[j] /\ psk[j] \in Printable
      BY <1>1, <3>2, BuildPrintable
    <3> QED
      BY <3>3
  <2> QED
    BY <2>1, <2>2
<1>4. radio_config_parse2(s)
  BY <1>1, <1>2, <1>3, RadioAssumption DEF radio_config_parse2, CrcMatches
<1>5. SubSeq(s.body, 1, s.a) = ssid
  <2>1. \A i \in 1..s.a : s.body[i] \in Nat
    BY <1>1, <1>2
  <2>2. /\ SubSeq(s.body, 1, s.a) \in Seq(Nat) /\ Len(SubSeq(s.body, 1, s.a)) = s.a
        /\ \A i \in 1..s.a : SubSeq(s.body, 1, s.a)[i] = s.body[i]
    BY <1>1, <2>1, SubSeqProperties
  <2> QED
    BY <1>1, <2>2, SeqEqual
<1>6. SubSeq(s.body, s.a + 1, s.a + s.b) = psk
  <2>1. \A i \in (s.a + 1)..(s.a + s.b) : s.body[i] \in Nat
    BY <1>1, <1>2
  <2>2. /\ SubSeq(s.body, s.a + 1, s.a + s.b) \in Seq(Nat)
        /\ Len(SubSeq(s.body, s.a + 1, s.a + s.b)) = s.b
        /\ \A i \in 1..s.b : SubSeq(s.body, s.a + 1, s.a + s.b)[i] = s.body[s.a + i]
    BY <1>1, <2>1, SubSeqProperties
  <2> QED
    BY <1>1, <2>2, SeqEqual
<1> QED
  BY <1>4, <1>5, <1>6 DEF NetworkOf, s

-----------------------------------------------------------------------------
\* The parts of a SET_RADIO frame of the right length are sequences.
LEMMA FrameParts ==
  ASSUME NEW p \in RadioFrames, Len(p) >= 3, LengthOk(p)
  PROVE  Ssid(p) \in Seq(Nat) /\ Psk(p) \in Seq(Nat)
<1>1. p \in Seq(Nat)
  BY RadioAssumption
<1>2. p[2] \in Nat /\ p[3] \in Nat /\ Len(p) \in Nat /\ Len(p) = 3 + p[2] + p[3]
  BY <1>1 DEF LengthOk
<1>3. /\ \A i \in 4..(3 + p[2]) : p[i] \in Nat
      /\ \A i \in (4 + p[2])..Len(p) : p[i] \in Nat
  <2>1. /\ \A i \in 4..(3 + p[2]) : i \in 1..Len(p)
        /\ \A i \in (4 + p[2])..Len(p) : i \in 1..Len(p)
    BY <1>2
  <2>2. \A i \in 1..Len(p) : p[i] \in Nat
    BY <1>1, ElementOfSeq
  <2> QED
    BY <2>1, <2>2, Zenon
<1> QED
  BY <1>2, <1>3, SubSeqProperties DEF Ssid, Psk

\* Every record that a command writes parses, without a certificate area.
LEMMA RecordFacts ==
  ASSUME NEW s \in Records
  PROVE  /\ radio_config_parse2(s) /\ s.c = 0 /\ s.d = 0
         /\ s.body \in [1..SectorSize -> Nat]
         /\ s.crc = Covered(s.a, s.b, s.c, s.d, s.body)
<1>1. PICK p \in RadioFrames :
        /\ Len(p) >= 3 /\ LengthOk(p) /\ build2_ok(Ssid(p), Psk(p))
        /\ s = radio_config_build2(Ssid(p), Psk(p))
  BY DEF Records
<1>2. Ssid(p) \in Seq(Nat) /\ Psk(p) \in Seq(Nat)
  BY <1>1, FrameParts
<1> DEFINE u == Ssid(p)
           v == Psk(p)
<1>3. u \in Seq(Nat) /\ v \in Seq(Nat) /\ build2_ok(u, v) /\ s = radio_config_build2(u, v)
  BY <1>1, <1>2
<1> HIDE DEF u, v
<1>4. radio_config_parse2(s)
  BY <1>3, BuildParses
<1>5. /\ s.c = 0 /\ s.d = 0 /\ s.body \in [1..SectorSize -> Nat]
      /\ s.crc = Covered(s.a, s.b, s.c, s.d, s.body)
  BY <1>3, BuildFields
<1> QED
  BY <1>4, <1>5

(***************************************************************************)
(* Whatever an interrupted erase or program operation leaves of a record,  *)
(* if it parses it is the same network: the CRC covers the four lengths    *)
(* and the text.                                                           *)
(***************************************************************************)
THEOREM InterruptedParsesSame ==
  ASSUME NEW s \in Records, NEW t \in Between(s), radio_config_parse2(t)
  PROVE  NetworkOf(t) = NetworkOf(s) /\ t.c = 0 /\ t.d = 0
<1>1. /\ radio_config_parse2(s) /\ s.c = 0 /\ s.d = 0
      /\ s.body \in [1..SectorSize -> Nat]
      /\ s.crc = Covered(s.a, s.b, s.c, s.d, s.body)
  BY RecordFacts
<1>2. t.crc \in {s.crc, <<>>} /\ t.body \in [1..SectorSize -> 0..Blank]
  BY DEF Between
<1>3. t.crc = Covered(t.a, t.b, t.c, t.d, t.body)
  BY DEF radio_config_parse2, CrcMatches
<1>4. t.crc # <<>>
  BY <1>3 DEF Covered
<1>5. Covered(t.a, t.b, t.c, t.d, t.body) = Covered(s.a, s.b, s.c, s.d, s.body)
  BY <1>1, <1>2, <1>3, <1>4
<1>6. /\ t.a = s.a /\ t.b = s.b /\ t.c = s.c /\ t.d = s.d
      /\ SubSeq(t.body, 1, t.a + t.b + t.c + t.d) = SubSeq(s.body, 1, s.a + s.b + s.c + s.d)
  BY <1>5 DEF Covered
<1>7. /\ s.a \in Nat /\ s.b \in Nat /\ s.a + s.b <= SectorSize
  BY <1>1, RadioAssumption, SMTT(60) DEF radio_config_parse2
<1>8. SubSeq(t.body, 1, s.a + s.b) = SubSeq(s.body, 1, s.a + s.b)
  <2>1. s.a + s.b + s.c + s.d = s.a + s.b
    BY <1>1, <1>7
  <2> QED
    BY <1>6, <2>1
<1>9. t.body \in [1..SectorSize -> Nat]
  BY <1>2, RadioAssumption
<1>10. /\ SubSeq(t.body, 1, s.a) = SubSeq(s.body, 1, s.a)
       /\ SubSeq(t.body, s.a + 1, s.a + s.b) = SubSeq(s.body, s.a + 1, s.a + s.b)
  <2>1. /\ s.a + s.b \in Nat /\ 1 \in 1..(s.a + s.b + 1) /\ s.a + 1 \in 1..(s.a + s.b + 1)
        /\ s.a \in 0..(s.a + s.b) /\ s.a + s.b \in 0..(s.a + s.b)
    BY <1>7
  <2> QED
    BY <1>1, <1>7, <1>8, <1>9, <2>1, SamePrefix
<1> QED
  BY <1>1, <1>6, <1>10 DEF NetworkOf

\* An erased sector and a torn one are never parsed.
LEMMA NoRecordNoNetwork ==
  /\ ~radio_config_parse2(ErasedImage) /\ ~radio_config_parse2(Garbage)
  /\ NetworkOf(ErasedImage) = NoNetwork
BY DEF radio_config_parse2, ErasedImage, Garbage, NetworkOf

\* What power loss leaves of an image in the sector is the image, garbage, or
\* a record that parses to the same network.
LEMMA InterruptedFacts ==
  ASSUME NEW s, NEW t \in Interrupted(s), radio_config_parse2(t)
  PROVE  \/ t = s
         \/ /\ NetworkOf(t) = NetworkOf(s) /\ t.c = 0 /\ t.d = 0
            /\ radio_config_parse2(s)
<1> SUFFICES ASSUME t # s
             PROVE  /\ NetworkOf(t) = NetworkOf(s) /\ t.c = 0 /\ t.d = 0
                    /\ radio_config_parse2(s)
  OBVIOUS
<1>1. t # Garbage
  BY NoRecordNoNetwork
<1>2. PICK l \in Legible : l[1] = s /\ l[2] = t
  BY <1>1 DEF Interrupted
<1>3. PICK r \in Records : l \in {<<r, u>> : u \in {w \in Between(r) : radio_config_parse2(w)}}
  BY DEF Legible
<1>4. PICK u \in Between(r) : l = <<r, u>>
  BY <1>3
<1>5. r = s /\ u = t
  BY <1>2, <1>4
<1> QED
  BY <1>4, <1>5, InterruptedParsesSame, RecordFacts

-----------------------------------------------------------------------------
\* The operation in progress writes a record of some command, or clears the
\* sector, and its network is among those begun since the last OK.
OperationShape ==
  /\ rop.step \in {"idle", "erase", "program", "verify"}
  /\ rop.image \in Records \cup {ErasedImage}
  /\ rop.step # "idle" => NetworkOf(rop.image) \in since

RadioInv == FlashInv /\ OperationShape /\ AcknowledgedRadioStays /\ RadioNeverMixed

\* The invariant holds at first.
LEMMA RadioInvInit == RadioInit => RadioInv
<1> SUFFICES ASSUME RadioInit PROVE RadioInv
  OBVIOUS
<1>1. FlashInv
  BY FlashInvInit DEF RadioInit
<1>2. rop.step = "idle" /\ rop.image = ErasedImage
  BY DEF RadioInit, NoRadioOp
<1> QED
  BY <1>1, <1>2, NoRecordNoNetwork
  DEF RadioInit, RadioInv, OperationShape, AcknowledgedRadioStays, RadioNeverMixed

\* The radio commands leave the roster alone: only the answer changes.
LEMMA RosterApart ==
  ASSUME FlashInv, UNCHANGED <<flash, pc, ram, op, committed, attempted>>,
         status' \in {"OK", "STATE", "OWNER", "LIMIT", "ARGUMENT", "POLICY"}
  PROVE  FlashInv' /\ Current'.generation >= Current.generation
<1>1. RecordsSound' /\ RecoveryKept' /\ BootOk' = BootOk /\ Current' = Current
  BY FlashUnchanged
<1>2. Current.generation \in Nat
  BY EmptyStoreType
  DEF FlashInv, Current, controller_store_boot, boot_takes_a, FlashTypeOK, Sector, Store
<1> QED
  BY <1>1, <1>2 DEF FlashInv, FlashTypeOK, InCommit, CommitShape, RestShape

\* SET_RADIO and CLEAR_RADIO up to the flash operation.
LEMMA RadioCommandInv ==
  ASSUME RadioInv, NEW caller \in Slots, NEW mounted \in BOOLEAN,
         RadioCommand(caller, mounted)
  PROVE  RadioInv' /\ Current'.generation >= Current.generation
<1> DEFINE Answers == {"OK", "STATE", "OWNER", "LIMIT", "ARGUMENT", "POLICY"}
<1>1. PICK image \in Records \cup {ErasedImage}, st \in Answers :
        BeginRadio(image) \/ RadioRefuse(st)
  <2>1. CASE ble_handle_clear_radio(caller, mounted)
    BY <2>1 DEF ble_handle_clear_radio
  <2>2. ASSUME NEW p \in RadioFrames, ble_handle_set_radio(caller, p, mounted)
        PROVE  \E image \in Records \cup {ErasedImage}, st \in Answers :
                 BeginRadio(image) \/ RadioRefuse(st)
    <3> DEFINE st == set_radio_verdict(caller, p, mounted)
    <3>1. CASE st # "OK"
      <4>1. st \in Answers
        BY DEF set_radio_verdict
      <4>2. RadioRefuse(st)
        BY <2>2, <3>1 DEF ble_handle_set_radio
      <4> QED
        BY <4>1, <4>2
    <3>2. CASE st = "OK"
      <4>1. ~(Len(p) < 3) /\ LengthOk(p) /\ build2_ok(Ssid(p), Psk(p))
        BY <3>2 DEF set_radio_verdict
      <4>2. Len(p) >= 3
        BY <4>1, RadioAssumption
      <4>3. radio_config_build2(Ssid(p), Psk(p)) \in Records
        BY <4>1, <4>2 DEF Records
      <4>4. BeginRadio(radio_config_build2(Ssid(p), Psk(p)))
        BY <2>2, <3>2 DEF ble_handle_set_radio
      <4> QED
        BY <4>3, <4>4
    <3> QED
      BY <3>1, <3>2
  <2> QED
    BY <2>1, <2>2 DEF RadioCommand
<1>2. FlashInv' /\ Current'.generation >= Current.generation
  <2>1. status' \in Answers
    <3>1. status \in Answers
      BY DEF RadioInv, FlashInv, FlashTypeOK
    <3> QED
      BY <1>1, <3>1 DEF BeginRadio, RadioFailed, RadioRefuse
  <2> QED
    BY <2>1, RosterApart DEF RadioInv, RadioCommand
<1>3. CASE RadioRefuse(st)
  BY <1>2, <1>3 DEF RadioRefuse, radioVars, RadioInv, OperationShape, AcknowledgedRadioStays,
                    RadioNeverMixed
<1>4. CASE RadioFailed
  BY <1>2, <1>4 DEF RadioFailed, NoRadioOp, RadioInv, OperationShape, AcknowledgedRadioStays,
                    RadioNeverMixed
<1>5. CASE /\ rop' = [step |-> "erase", image |-> image]
           /\ since' = since \cup {NetworkOf(image)}
           /\ UNCHANGED <<radio, granted, status>>
  BY <1>1, <1>2, <1>5 DEF RadioInv, OperationShape, AcknowledgedRadioStays, RadioNeverMixed
<1> QED
  BY <1>1, <1>3, <1>4, <1>5 DEF BeginRadio

\* The two flash operations and the read-back of radio_provision_flash.c.
LEMMA RadioOperationInv ==
  ASSUME RadioInv, EraseRadio \/ ProgramRadio \/ RadioDone
  PROVE  RadioInv' /\ Current'.generation >= Current.generation
<1>1. FlashInv' /\ Current'.generation >= Current.generation
  <2>1. /\ UNCHANGED <<flash, pc, ram, op, committed, attempted>>
        /\ status' \in {status, "OK", "STATE"}
    BY DEF EraseRadio, ProgramRadio, RadioDone, RadioFailed, vars
  <2> QED
    BY <2>1, RosterApart DEF RadioInv, FlashInv, FlashTypeOK
<1>2. rop.step # "idle" /\ NetworkOf(rop.image) \in since /\ OperationShape
  BY DEF RadioInv, OperationShape, EraseRadio, ProgramRadio, RadioDone
<1>3. radio_config_parse2(rop.image) => rop.image.c = 0 /\ rop.image.d = 0
  BY <1>2, RecordFacts, NoRecordNoNetwork DEF OperationShape
<1>4. CASE EraseRadio
  <2>1. OperationShape'
    BY <1>2, <1>4 DEF EraseRadio, OperationShape
  <2>2. since' = since /\ since # {} /\ granted' = granted
    BY <1>2, <1>4 DEF EraseRadio
  <2>3. RadioNeverMixed'
    BY <1>4, <2>2, NoRecordNoNetwork DEF EraseRadio, RadioInv, RadioNeverMixed
  <2> QED
    BY <1>1, <2>1, <2>2, <2>3 DEF RadioInv, AcknowledgedRadioStays
<1>5. CASE ProgramRadio
  <2>1. OperationShape'
    BY <1>2, <1>5 DEF ProgramRadio, OperationShape
  <2>2. since' = since /\ since # {} /\ granted' = granted
    BY <1>2, <1>5 DEF ProgramRadio
  <2>3. radio' \in {radio, rop.image, Garbage}
    BY <1>5 DEF ProgramRadio
  <2>4. RadioNeverMixed'
    BY <1>2, <1>3, <2>2, <2>3, NoRecordNoNetwork DEF RadioInv, RadioNeverMixed
  <2> QED
    BY <1>1, <2>1, <2>2, <2>4 DEF RadioInv, AcknowledgedRadioStays
<1>6. CASE RadioDone
  <2>1. rop' = NoRadioOp /\ radio' = radio
    BY <1>6 DEF RadioDone, RadioFailed
  <2>2. OperationShape'
    BY <2>1 DEF OperationShape, NoRadioOp
  <2>3. CASE RadioVerified /\ granted' = NetworkOf(rop.image) /\ since' = {}
    BY <1>1, <2>1, <2>2, <2>3
    DEF RadioVerified, RadioInv, AcknowledgedRadioStays, RadioNeverMixed
  <2>4. CASE RadioFailed
    BY <1>1, <2>1, <2>2, <2>4
    DEF RadioFailed, RadioInv, AcknowledgedRadioStays, RadioNeverMixed
  <2> QED
    BY <1>6, <2>3, <2>4 DEF RadioDone
<1> QED
  BY <1>4, <1>5, <1>6

\* Loss of power in the middle of an operation on the radio sector.
LEMMA RadioPowerLossInv ==
  ASSUME RadioInv, RadioPowerLoss
  PROVE  RadioInv' /\ Current'.generation >= Current.generation
<1>1. FlashInv' /\ Current'.generation >= Current.generation
  BY PowerLossInv DEF RadioPowerLoss, RadioInv
<1>2. /\ rop' = NoRadioOp /\ granted' = granted /\ since' = since
      /\ NetworkOf(rop.image) \in since /\ OperationShape
  BY DEF RadioPowerLoss, RadioInv, OperationShape
<1>3. OperationShape' /\ AcknowledgedRadioStays'
  BY <1>2 DEF OperationShape, NoRadioOp, AcknowledgedRadioStays
<1>4. \/ radio' \in Interrupted(radio)
      \/ radio' \in Interrupted(rop.image)
      \/ radio' \in {ErasedImage, Garbage, radio}
  BY <1>2 DEF RadioPowerLoss, OperationShape
<1>5. RadioNeverMixed'
  <2> SUFFICES ASSUME radio_config_parse2(radio')
               PROVE  /\ NetworkOf(radio') \in {granted} \cup since
                      /\ radio'.c = 0 /\ radio'.d = 0
    BY <1>2 DEF RadioNeverMixed
  <2>1. radio_config_parse2(radio) =>
          /\ NetworkOf(radio) \in {granted} \cup since /\ radio.c = 0 /\ radio.d = 0
    BY DEF RadioInv, RadioNeverMixed
  <2>2. CASE radio' \in Interrupted(radio)
    BY <2>1, <2>2, InterruptedFacts
  <2>3. CASE radio' \in Interrupted(rop.image)
    <3>1. CASE radio' = rop.image
      BY <1>2, <3>1, RecordFacts, NoRecordNoNetwork DEF OperationShape
    <3>2. CASE radio' # rop.image
      BY <1>2, <2>3, <3>2, InterruptedFacts
    <3> QED
      BY <3>1, <3>2
  <2>4. CASE radio' \in {ErasedImage, Garbage, radio}
    BY <2>1, <2>4, NoRecordNoNetwork
  <2> QED
    BY <1>4, <2>2, <2>3, <2>4
<1> QED
  BY <1>1, <1>3, <1>5 DEF RadioInv

\* Every step of the roster and of the radio record keeps the invariant.
LEMMA RadioInvStep ==
  ASSUME RadioInv, [RadioNext]_<<vars, radioVars>>
  PROVE  RadioInv' /\ Current'.generation >= Current.generation
<1>1. CASE [Next]_vars /\ UNCHANGED radioVars
  BY <1>1, FlashInvStep
  DEF RadioInv, radioVars, OperationShape, AcknowledgedRadioStays, RadioNeverMixed
<1>2. CASE \E caller \in Slots, mounted \in BOOLEAN : RadioCommand(caller, mounted)
  BY <1>2, RadioCommandInv
<1>3. CASE EraseRadio \/ ProgramRadio \/ RadioDone
  BY <1>3, RadioOperationInv
<1>4. CASE RadioPowerLoss
  BY <1>4, RadioPowerLossInv
<1>5. CASE UNCHANGED <<vars, radioVars>>
  BY <1>1, <1>5
<1> QED
  BY <1>1, <1>2, <1>3, <1>4, <1>5 DEF RadioNext, RadioIdle

\* RadioInv is an invariant of the flash as a whole.
THEOREM RadioInvariant == RadioSpec => []RadioInv
<1>1. RadioInv /\ [RadioNext]_<<vars, radioVars>> => RadioInv'
  BY RadioInvStep
<1> QED
  BY RadioInvInit, <1>1, PTL DEF RadioSpec

\* A network that SET_RADIO or CLEAR_RADIO acknowledged is the one that the
\* next boot reads, until the sector is next touched.
THEOREM AcknowledgedRadioHolds == RadioSpec => []AcknowledgedRadioStays
<1>1. RadioInv => AcknowledgedRadioStays
  BY DEF RadioInv
<1> QED
  BY RadioInvariant, <1>1, PTL

\* A torn write never leaves a record that parses as a network nobody gave.
THEOREM RadioMixtureImpossible == RadioSpec => []RadioNeverMixed
<1>1. RadioInv => RadioNeverMixed
  BY DEF RadioInv
<1> QED
  BY RadioInvariant, <1>1, PTL

\* The guarantees about the roster, with the radio commands in between.
THEOREM RosterSafeWithRadio ==
  RadioSpec => [](BootFindsCommitted /\ RamIsFlash /\ RecordsSound) /\ GenerationNeverBack
<1>1. RadioInv => BootFindsCommitted /\ RamIsFlash /\ RecordsSound
  BY FlashInvImplies DEF RadioInv
<1>2. RadioInv /\ [RadioNext]_<<vars, radioVars>> =>
        [Current'.generation >= Current.generation]_vars
  BY RadioInvStep
<1> QED
  BY RadioInvariant, <1>1, <1>2, PTL DEF RadioSpec, GenerationNeverBack
=============================================================================
