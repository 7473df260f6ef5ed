# PicoBridge in TLA+

PicoBridge is a USB dongle (Pico 2 W). A controller stages a text over BLE or Wi-Fi, confirms it,
and the dongle types it into the USB host as key strokes. This directory holds TLA+ models of the
firmware and of the client side of its protocols, the TLC configurations that check them, and TLAPS
proofs of every safety property that the passing runs check.

`PROJECT.json` lists components, runs, seeded faults, the map from definitions to source lines,
findings, hazards and theorems.

## 1. Inventory

| Component | Source | State | Operations | Correct when |
|---|---|---|---|---|
| transaction core | `firmware/core/bridge_core.c` | one job (strokes, cursor, TTL), 64-entry replay ledger | stage, confirm, cancel, tick, next, abort | a text is typed at most once, in order, only after confirmation and within its TTL, and is then gone from memory |
| text compilation | same file | none | decode UTF-8, US and DE maps, stage loop | the host's layout turns the strokes back into the text, or the text is refused |
| main loop | `firmware/bridge_main.c` | `usb_now_ms`, `ble_now_ms`, last drain | tud_task, drain, tick, poll | wrap-around of the clock never shows; nothing is stuck |
| USB output | `usb_hid_drain`, callbacks | stall guard, endpoint | press, wait, release, suspend, unmount | the host receives exactly the plan, every key is released |
| controller roster | `controller_store.c` | 5 slots, generation | boot, initialise, find, add, revoke | valid roster, recovery admin immovable, only admins change it |
| roster in flash | `controller_store_flash.c` | two sectors | commit, boot or seed, import | a reported commit survives power loss; an older roster never returns |
| Noise session | `noise_ik.c`, `tools/pico_bridge_ctl.py` | keys, nonces, slot, role | handshake, decrypt, receipt | only listed peers; each command once and in order; a receipt answers its own command |
| BLE characteristic | `bridge_main.c`, `pico_bridge_ctl.py` | reassembly buffer, read slot | write fragment, read | a frame that arrives is intact, an old answer is not read |
| BLE advertising | `bridge_main.c` | flag, deadline | disconnect event, poll | visible again soon after a disconnect |
| Wi-Fi endpoint | `net_endpoint.c` | state, back-off, listener, session, two buffers | start, poll, accept, receive, sent, error | frames and receipts exact, ready again after any outage, silent once the record is gone, open to the owner |
| radio record | `firmware/radio/radio_config.c`, `radio_provision_flash.c`, two handlers | one sector without a second copy | set, clear, read | an acknowledged change is what the next boot reads; an interrupted one is never read as something nobody sent |
| send tools | `tools/pico_send.py`, `pico_tcp_send.py` | ids, position in the script, retries | stage until idle, confirm, Enter | nothing is typed that was not confirmed; Enter follows the whole text; OK means typed |
| scan, diagnostics | `net_endpoint.c` | three counters | start, read | not modelled, section 7 |
| provisioning and fleet tools, USB descriptors, idle image, unused radio parsers | `tools/`, `firmware/` | files, constants | | not modelled, section 7 |

**Interaction.** The main loop owns everything. `tud_task` runs the USB callbacks, which abort the
job; the drain takes strokes from the core and calls `tud_task` again while it waits for a press to
complete; `async_context_poll` runs BTstack and lwIP, whose callbacks reassemble frames, open the
Noise session and call the core, the roster or the radio record. BLE and TCP share one Noise session.
The roster in RAM is written to flash before a change takes effect.

**What is hard.** Callbacks inside the drain; two clock samples, both wrapping; a host that fetches
reports at its own pace or not at all; loss of power inside a flash commit; lost, doubled and replayed
frames over two transports with one session; a roster that changes under an open session; TCP
segmentation and a full send buffer; link loss, reconnection and back-off; an in-place rewrite of a flash
record; a client that does not know whether its last command was executed.

## 2. Modules

| Module | Models | Remarks |
|---|---|---|
| `BridgeJob` | what the core promises | abstract: accepted jobs, confirmation, a growing typed prefix |
| `BridgeCore` | `bridge_core.c` | one action per call of `bridge_core.h`; `CompileText` is a constant, so proofs hold for every compilation |
| `KeyMap` | decoder and maps | operators and recursive functions, used as `CompileText` by the runs; `MCKeyMap` lets texts grow and states what is right about them |
| `BridgeCommands` | STAGE, CONFIRM, CANCEL, TICK handlers | defaults of a short or unknown field included |
| `BridgeClock` | core + loop clock, bounded time between ticks | extends `BridgeCommands` |
| `BridgeOutput` | core + main loop + drain + USB + host | extends `BridgeCommands`; the drain is split where `tud_task` runs inside it |
| `ControllerStore` | `controller_store.c` and its two handlers | operators; a sector is erased, torn or a record |
| `ControllerFlash` | flash commits, boot, import | extends `ControllerStore` |
| `RadioFlash` | the radio record and SET_RADIO, CLEAR_RADIO | extends `ControllerFlash`: the roster decides who may, and both share the power supply |
| `NoiseSession` | responder, dispatch, initiator | extends `ControllerStore`; symbolic cryptography |
| `BleLink` | fragmentation, reassembly, read slot | |
| `Advertising` | restart of advertising | |
| `NetEndpoint` | Wi-Fi state machine, TCP session, power cycle | sees the radio record as present or absent |
| `SendTools` | the send tools against the core | extends `BridgeClock`; the session is reduced to what `NoiseSession` shows of it: a command is executed at most once and answered with its own status |
| `BridgeCoreProofs`, `BridgeOutputProofs`, `SendToolsProofs`, `ControllerStoreProofs`, `FlashProofs`, `NoiseSessionProofs`, `BleLinkProofs`, `ByteProofs` | theorems and their proofs | section 5; `SendToolsProofs` is about `BridgeClock` and `SendTools`, `FlashProofs` about `ControllerFlash` and `RadioFlash`, `ByteProofs` about `NetEndpoint` and `KeyMap` |
| `MC*` | constants for TLC | |

Definitions keep the source's names. Names ending in `_something` next to a definition and marked
"Seeded fault" are deliberate mistakes used to see that the properties notice them; nothing uses them.

**External parties**, modelled from how the code uses them: TinyUSB and the host (a report is accepted
when the endpoint is free, fetched at some time or never, completion noticed by `tud_task`); the host's
US and German layouts with dead keys; the flash chip (an interrupted operation leaves a torn sector, a
program may not take); BTstack (the second argument of an event handler is the channel); the BLE link
(in order, may lose a write without response); the Wi-Fi driver, lwIP and the TCP peer (the link and the
address are separate: the interface keeps its address when the link goes down, until the lease runs out
or `cyw43_arch_disable_sta_mode` removes the interface; `tcp_write` may refuse any receipt, in flight or
not, each by itself).

**Abstractions.** A key of a Noise session is the pair (client run, device ephemeral); a packet opens
only under its own key and nonce. A byte of a frame is a pair (frame, position) in `BleLink` and a
digit in `NetEndpoint`, where lwIP hands over chains of pbufs whose possible lengths are the constant
`Chains` (any chains of pbufs up to `TCP_MSS`, for the proofs). The compile loop and what the host reads
are computed from the end of the text, so that the recursion goes over positions. The German host is
that of the core's own test (`de_ascii_dead_key_profile`), where the tilde is a dead key. A sector of the
roster is erased, torn or recorded. The radio record, whose only guard is its CRC, is an image with its fields: a torn one has numbers between those of the record and
the erased value (an erase sets bits, programming clears them), and the CRC stands for the bytes it is
computed from, so that the model trusts it to tell different contents apart. An image that does not
parse is as good as any other, so one of them stands for all. "use" in `NoiseSession`
stands for all commands that leave the roster alone.

The loop models are those of the network image, in which every command runs inside
`async_context_poll`. In the BLE-only image (`CMakeLists.txt:32`) `pico_cyw43_arch_none` may serve
Bluetooth from an interrupt; see section 7.

## 3. Runs

All passing runs also show that no behaviour gets stuck, except `keymap`, which enumerates inputs and
ends.

| Run | Checks | Bounds, and why they are enough |
|---|---|---|
| `bridge_clock` | `NoResidue`, `LedgerExact`, `TypedFollowsPlan`, `AtMostOnce`, `CompletedIsWhole`, refinement `ImplementsBridgeJob`, `ExpiryExact`, `StagedLifetimeBounded`, `StagedEnds` | four valid requests over three (owner, id) pairs and one for each kind of refusal; ledger of 2, so that it fills; clock of 8 with TTL 3 and at most 2 between ticks, so that it wraps while jobs are staged. Ages are in time of the samples at the top of the loop, which is exact for staged jobs because the drain waits only while one is executing (`output` has the two samples apart). The gap between two ticks is below two watchdog periods, since the watchdog is fed behind the tick. The safety part is proved in general. |
| `send_tools` | `NothingTypedUnasked`, `EnterOnlyAfterText`, `OkMeansTyped` | one run with two characters and Enter, one with a character, so that each finds the device busy with the other; one retry; TTL 1, so that a job expires between stage and confirmation; any command or receipt lost, any run given up at any moment. The first two are proved in general. |
| `keymap` | `HostReadsText`, `AcceptsExactly`, `StrokesFit`, `DecodeExact` | every character of the maps and unmapped ones, followed by the characters that matter after a dead key or CR; every byte sequence up to 4 over the bytes next to each limit of the decoder. All proved for texts of any length over all bytes and characters. |
| `output` | `PressesFollowPlan`, `CompletedIsDelivered`, `NoSpuriousExpiry`, `ExecutingEnds` | two clients' jobs (2 and 1 strokes), clock of 4, periods 1 or 2: abort, replacement and wrap all fall between a press and its release. `DrainLag` is 1, as in the code, whose wait samples a millisecond clock in a loop of microseconds; with more `NoSpuriousExpiry` fails (section 4). `MaxLag`, which covers a poll with a flash write in it, is 1 in the run; an instance with `MaxLag` 2 and a clock of 6 (2.4 million states) passes too. `PressesFollowPlan` and `CompletedIsDelivered` are proved for every lag, `NoSpuriousExpiry` for every lag outside the drain. |
| `controller_flash` | `BootFindsCommitted`, `RamIsFlash`, `RecordsSound`, `GenerationNeverBack`, `AcknowledgedRadioStays`, `RadioNeverMixed` | 3 slots and 4 keys, so the roster fills; generation up to 4: seed, import and two changes write each sector twice. Two networks with the same text cut at different places, one command for each refusal; fields of 0 to 5 and bytes of 0 to 3, enough for a torn length, a torn byte and a certificate area that nobody wrote to pass all tests of the parser but the CRC. All proved in general. |
| `noise_session` | `AuthenticatedInRoster`, `CommandsOnceInOrder`, `ReceiptMatchesCommand`, `NonceNeverReused`, `RosterChangedByAdmin` | two runs with different keys, three answered handshakes, two commands each: takeover, re-adding a revoked key, replay across sessions. All proved in general. |
| `ble_link` | `LinkTypeOK`, `CleanFrameHandled`, `ReadIsFresh` | frames of 1, 2 and 3 fragments, the longest filling the buffer, so that one doubled fragment overflows it. `ReadIsFresh` is about frames whose fragments all arrived once; after a lost last fragment an older answer is read, and the receipt's nonce tells (`ReceiptMatchesCommand`). All proved in general. |
| `net_endpoint` | `NetTypeOK`, `FramesExact`, `ReceiptsExact`, `OwnerServed`, `ReadyAgain`, `ClearTakesEffect` | bits for bytes, a prefix of two; a stream of two frames, one with length 0 and one too long; segments up to the longest the buffer allows; a send buffer shorter than a receipt; any answer refused by `tcp_write`; clock of 5, delays 1 and 2; link loss with the address kept or lost; power cycles, SET and CLEAR at any time. `ReadyAgain` asks for the link and the address too, because with a kept address READY alone says nothing. The first three are proved in general. |
| `stall_guard`, `held_key`, `first_boot`, `readvertise` | violated, section 4 | |

**Fairness.** `StagedEnds`: the loop keeps calling `bridge_core_tick` (`WF(Poll)`; the watchdog resets
the chip otherwise) and time passes. `ExecutingEnds`: the loop and time go on; nothing is assumed of the
host, the bus or the clients. `ReadyAgain`: the loop goes on; a healthy driver that is told to join again
and again succeeds once (strong fairness of `Associate`, external) and gets a lease if it stays joined, and a
lease runs out if the link stays down (lwIP counts its age); nothing is assumed of the peer, and the property speaks only of behaviours in which the network is
healthy and power stays on from some moment on. `ClearTakesEffect` needs only that
the loop goes on and that such a lease runs out.
`OwnerServed` is about a user who tries again and again (strong fairness of `net_accept_cb` for the
owner's stream, an assumption on the environment that the other properties do not need) and only about
behaviours in which the device is reachable without a session again and again. `OkMeansTyped`: while a
job is executing, the loop drains a stroke or one of the guards ends the job (`WF(Device(Typing))`, what
`ExecutingEnds` shows in detail). No other fairness is put on a client action.

**Bounds that abstract real limits**: `DrainLag` and `MaxLag` (time between two clock samples, in the drain and
anywhere), `TickGap`, `MaxGeneration`, `MaxHandshakes`, `MaxSent`. The generation and the nonces are far
from 2^32 and 2^64 in any real life of a device and their overflow is not modelled.

## 4. Findings

1. `stall_guard`. The guard is meant for a job "with no endpoint progress" (`bridge_main.c:152`). It
   measures the time since the first drain that saw the job executing and is not renewed by progress,
   so a job that takes more than 2 s is aborted while the endpoint is ready.
2. `held_key`. When a press is not fetched within 100 ms the drain gives up and no release is ever due.
   If the host fetches the press afterwards and the job is over, the key stays down
   (`docs/LIMITATIONS.md:69` calls the missing release fixed).
3. `first_boot`. Power loss during the very first write leaves one sector that is neither erased nor
   valid; every later boot refuses it, although the store is called power-fail safe (`SECURITY.md:30`).
4. `readvertise`. The event handler compares BTstack's channel argument with the event code, so the
   flag that restarts advertising is never set (`bridge_main.c:577` says what it is for).

Noted, without a run: the wait for a press compares absolute times (`bridge_main.c:179`). If its deadline
lies just below 2^32 and two samples, more than 1 ms apart, step over it, the wait goes on for a whole lap
of the clock, feeding the watchdog, as long as the host does not fetch the press, and the stall guard ("Abort
after a bounded stall.", `bridge_main.c:154`) is not reached. The attempt to prove `NoSpuriousExpiry` for
every lag led to it: `ble_now_ms` goes stale during such a wait, and TLC finds the violation in the run
`output` with `DrainLag = MaxLag = 2` and a clock of 8. With `DrainLag = 1` it is a theorem (section 5).

After 64 accepted transactions every stage is refused until power is cycled (the
core's test `replay_ledger_exhaustion_fails_closed` intends it; `tools/pico_send.py:15` expects fresh ids
to be accepted). The interface keeps its address when the link goes down, so the endpoint notices the loss
only when the lease runs out, although `net_endpoint.c:312` speaks of "Association or lease lost"; until
then it is READY and leaves rejoining to the driver. A receipt that `tcp_write` refuses while nothing is in
flight (`net_endpoint.c:82`) is never tried again and stays pending until the session ends. A tool whose
confirmation was executed but whose receipt was lost reports a failure for a text that is typed. On a
German host whose tilde is not a dead key the text gets a space behind each tilde. A silent TCP peer keeps the single session (`net_endpoint.c:165` says a scanner cannot
lock out the owner; `OwnerServed` says what does hold). CLEAR_RADIO does not stop an endpoint that is
READY (`docs/PROVISIONING.md` says an absent record means no radio; `ClearTakesEffect` says what does
hold), and SET_RADIO does not wake one that found no record at boot. A text that a suspend, an unmount or the
stall guard cuts short is followed by Enter all the same, because no receipt tells the tool
(`EnterOnlyAfterText` leaves out exactly these). NET_IP: `net_endpoint.h:54` promises network order, the
shift in `net_endpoint.c:369` takes the highest byte of lwIP's word first, which on this little-endian
chip is the last octet. `docs/USAGE.md` lets the countdown run before the BLE connection;
`pico_send.py:243` connects first.

## 5. Proofs

Every theorem holds for all values of the constants that satisfy the named assumptions of the module it
is about: any number of runs, keys, slots, frames and bytes. The assumptions say of the constants what
the code says of its own (limits are numbers, the clock is longer than a TTL and a turn of the loop, two
runs draw different ids, a packet that a client sends fits the buffer). Each module finds an inductive
invariant, shows with one lemma per action that it is preserved, and derives the properties from it. TLC
checked every invariant that it can evaluate on the bounds of the run (`LagInv` with `DrainLag` 1, `MaxLag` 2
and a clock of 7). `TextInv` says that positions exist, which TLC cannot enumerate.

**`BridgeCoreProofs`** (`BridgeCore`). `CoreInv == TypeOK /\ NoResidue /\ LedgerExact /\ TypedFollowsPlan`
is inductive (`CoreSafe`). The ledger part is needed to know that a fresh pair has no plan yet, the plan
part to know that strokes in memory continue what was typed. Every call ends in one of five ways and
there is one lemma for each. `TypeCorrect`, `NoResidueAlways`, `LedgerAlwaysExact` and
`TypedAlwaysFollowsPlan` follow; `AtMostOnceHolds` and `CompletedIsWholeHolds` are the action properties;
`Refinement` shows that `BridgeCore` implements `BridgeJob`. `CompileText` is arbitrary.

**`BridgeOutputProofs`** (`BridgeOutput`). `OutputInv` adds to `CoreInv` an account of every job's strokes
(`StrokeAccounted`): what the host has pressed, plus the press that still waits in the endpoint, is what
the core has handed out. It has to speak of all jobs and not only of the open one, because a press
outlives its job. `PressesFollow` and `DeliveredHolds` follow, and `CoreSafeInLoop` and `PromiseInLoop`:
callbacks that abort the job in the middle of the drain break neither the core's invariant nor its
refinement of `BridgeJob`. None of these depends on how the periods and the lag compare with the clock.

`NoSpuriousExpiryHolds` is about the two clock samples, under the hypothesis `ShortLag`: the drain samples
at least once per millisecond, and a release wait or a TTL with two lags fits into the clock (100 ms and
15 s against 2^32 ms). `LagInv` says that `usb_now_ms` and `ble_now_ms` are apart by no more than the
release wait, that inside the wait the sample has not passed the deadline without wrapping, and that a
staged job was either young at the last tick or staged since, with a sample as old as the wait. The
disjunction is needed because a job staged right after a long wait carries a time that is already in the
past: that can only make it older, so the tick is never early, as long as the difference does not wrap.

**`SendToolsProofs`** (`BridgeClock` and `SendTools`, on `BridgeCoreProofs`). `ClockSafe`: the wrapped
difference equals the real age of the staged job, and the age is below TTL + time since the last poll; the second part keeps the first from
wrapping. `LifetimeBounded` and `ExpiryIsExact` follow. `PromiseUnderClock` carries the refinement and the
action properties of the core to this specification: every step is one call of the core or leaves it alone
(`StepIsCall`, `PromiseKept`).

For the tools, `ToolInv` says for each line of a script how
far its run must have come when the core has the line, types it or is done with it (`LineFollows`), and
that the device takes Enter only when the text is over (`EnterWaits`), which holds because the core is
BUSY until then. `NothingUnaskedHolds`, `EnterAfterTextHolds` and `OkMeansSettled`, the safety half of
`OkMeansTyped`, follow; `PromiseBelowTools` carries the promise of `BridgeJob` to the composed system, so no
retry types a text twice. The proof needs the Enter keys of different runs to differ, which
`ScriptAssumption` now says (both ids are random).

**`ControllerStoreProofs`** (`ControllerStore`). Lemmas: the first free slot is free, adding and revoking
keep a roster valid, the two handlers refuse what they must. Used by the next two.

**`FlashProofs`** (`ControllerFlash`, `RadioFlash`). `FlashInv` ties each step of a commit to the two
sectors (`CommitShape`): the other sector holds the committed roster, and the target is as far as the
step says, with an older generation until it is erased; `RestShape` says what is there between commits.
`CommitTarget` is the sector that a boot would not take (`TargetIsOther`), so power loss at any step
leaves the committed record. From it `CommittedRosterSurvives`, `RamAgreesWithFlash`,
`RecordsAlwaysSound`, `RecoveryAdminKept` and the action property `GenerationHolds`. For the radio
record, `BuildParses` shows that what `radio_config_build2` makes is read back as the same network, and
`InterruptedParsesSame` that an image between a record and an erased sector that parses is read as that
record's network: the CRC fixes the bytes and the magic and lengths fix where they are cut. `RadioInv`,
`AcknowledgedRadioHolds` and `RadioMixtureImpossible` follow; `RosterSafeWithRadio` carries the roster's
results to the composed system.

**`NoiseSessionProofs`** (`NoiseSession`). `SessionInv` relates the two ends and the wire: a run's key comes
from a response to it (`KeysDrawn`, `RunShape`); the commands in the air were sealed by the run that
holds their key, one per nonce (`CommandsSealed`); the n-th receipt under a key answers the n-th command
(`ReceiptsAnswer`); and a device that has executed a command without sealing its receipt will see no
further command (`CountersAgree`), which is what keeps receipts aligned when one cannot be sent.
`AuthenticatedHolds`, `CommandsOnceHolds`, `ReceiptMatchHolds`, `NonceHolds` and the action property
`RosterChangeHolds` follow. The cryptography is symbolic, as in section 2.

**`BleLinkProofs`** (`BleLink`). `LinkInv`: the queue is the rest of the frame's fragments, and while
nothing was lost or interposed the buffer holds exactly the part already written (`BufferFollows`).
`BufferBounded`, `CleanFrameHolds` and `ReadFreshHolds` follow, for every buffer and fragment size.

**`ByteProofs`** (`NetEndpoint`, `KeyMap` with `MCKeyMap`). Both are loops over bytes. The library's
induction theorems take a predicate, which the provers cannot instantiate, so `Induction` and its downward
form speak of a *set* of indices and come from the well-foundedness of `<` on Nat. With them each recursive
function is shown to satisfy its equation, and a second induction gives what it computes for every length.

- The endpoint. `SessionOK` says what holds of a session between any two bytes: what was heard of the
  stream is the frames handled, with their prefixes, followed by what is in `net_rx`; `net_rx` holds a
  proper part of a frame whose length is in range, or a bad length has been noticed; what was sent and
  what is pending are the answers, with their prefixes, in order. One byte keeps it, so a pbuf, a chain
  and the callback do. `During` bounds `net_rx` inside a pbuf after a bad length, because the loop copies
  the rest of that pbuf before the session is closed; this is where `PrefixLen + MaxSegment - 1 <= FrameMax`
  is used. `NetInv` adds the state machine. `NetTypeCorrect`, `FramesAlwaysExact` and
  `ReceiptsAlwaysExact` follow, for any base, prefix length, buffer, stream, chain and send buffer, and
  whichever receipts `tcp_write` refuses.
- The decoder. A text begins with one of the rows of Table 3-7 or with none, and in each case the value
  gathered from the continuation bytes is computed; `DecodeAlwaysExact` says that `decode_utf8` accepts
  exactly these rows and that encoding the result gives back the bytes.
- The compile loop. From the last offset down, the strokes of the rest are at most two for each byte and
  none is empty (`StrokesAlwaysFit`). `TextInv` places each character's encoding in the text, so the loop
  stops at character positions only; `TextAcceptedExactly` and `HostAlwaysReadsText` then follow by
  induction over characters. The second needs that what a host reads from the end of the strokes does
  not depend on what is in front of it, which dead keys would break and the added space restores, and a
  table of all keys of both layouts.

**Only model-checked**

- Liveness: `StagedEnds`, `ExecutingEnds`, `OkMeansTyped`, `OwnerServed`, `ReadyAgain`,
  `ClearTakesEffect`. The prover does not reason about fairness.

The safety half of `OkMeansTyped` is proved (`OkMeansSettled`).

## 6. Plan

The plan of modules, runs and proofs has been carried out. What could come next:

1. A model of lwIP's pcb lifetime, to say what `net_recv_cb` may still touch after an abort (section 7).
2. The BLE-only image with an interrupting Bluetooth context, once the SDK's configuration is pinned.
3. When a finding of section 4 is repaired, its run becomes a passing one and its property a candidate for
   a theorem: `NoKeyLeftDown` and `AbortOnlyWhenStalled` over `OutputInv`, the first boot over `FlashInv`.

## 7. Not modelled

- **Pre-emption in the BLE-only image.** Whether a Bluetooth command can interrupt a call of the core
  depends on how the SDK configures its async context, which is not part of the repository
  (`bridge_core.h:51` asks for serialised calls). The models take the polling context of the Wi-Fi image.
- **lwIP's side of an aborted connection.** `net_recv_cb` goes on after `net_process_frame` may have
  aborted the connection; what that does depends on the lifetime of lwIP's pcb.
- **Scan and diagnostics** (`net_endpoint.c` 210-233, 324-388): getters that change nothing, and three
  counters with one writer that nothing else reads.
- **Provisioning and fleet tools, the other subcommands of the control tool**: one-shot reading and
  writing of files and a serial line.
- **USB descriptors, idle image**: constant tables; an image without transactions or transports.
- **`http_parser.c`, `dhcp_wire.c`, `entropy_fill.c`**: linked into the image and called by nothing.
- **Arithmetic of the primitives**: curve, cipher, hash and CRC are symbolic.
