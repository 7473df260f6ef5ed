---------------------------- MODULE Advertising ----------------------------
(***************************************************************************)
(* How a disconnected device becomes visible again: ble_event_handler and  *)
(* ble_readvertise_poll of firmware/bridge_main.c.                         *)
(*                                                                         *)
(* External: BTstack calls a registered event handler with the packet type,*)
(* the channel, the packet and its size.  For HCI events the channel is 0  *)
(* and the event code is the first byte of the packet.  The controller     *)
(* stops advertising when a central connects and may or may not resume by  *)
(* itself when it leaves.                                                  *)
(***************************************************************************)
EXTENDS Naturals

CONSTANTS
  ClockMod,  \* 2^32
  Pause,     \* 100 ms between disabling and enabling
  MaxLag     \* bound: milliseconds between two polls of the main loop
             \* (2 * (Pause + MaxLag) < ClockMod, or Reached means nothing)

DISCONNECTION_COMPLETE == 5  \* HCI_EVENT_DISCONNECTION_COMPLETE
HCI_CHANNEL == 0             \* what BTstack passes as the second argument

VARIABLES
  now,         \* usb_now_ms
  lag,         \* milliseconds since the last poll
  connected,   \* is a central connected
  visible,     \* does the controller advertise
  readvertise_needed,
  readvertise_disable_ms,
  hidden       \* history: milliseconds since a disconnect without being visible

flags == <<readvertise_needed, readvertise_disable_ms>>
vars == <<now, lag, connected, visible, readvertise_needed, readvertise_disable_ms, hidden>>

Init ==
  /\ now \in 0..(ClockMod - 1) /\ lag = 0
  /\ connected = FALSE /\ visible = TRUE
  /\ readvertise_needed = FALSE /\ readvertise_disable_ms = 0
  /\ hidden = 0

\* (int32_t)(now_ms - deadline) >= 0
Reached(deadline) == ((now + ClockMod - deadline) % ClockMod) < ClockMod \div 2

\* The handler takes its second argument for the event code.
ble_event_handler(event) ==
  readvertise_needed' = (readvertise_needed \/ event = DISCONNECTION_COMPLETE)

Connect ==
  /\ ~connected /\ visible
  /\ connected' = TRUE /\ visible' = FALSE /\ hidden' = 0
  /\ UNCHANGED <<now, lag, flags>>

Disconnect ==
  /\ connected
  /\ connected' = FALSE
  /\ visible' \in {visible, TRUE}
  /\ hidden' = 0
  /\ ble_event_handler(HCI_CHANNEL)
  /\ UNCHANGED <<now, lag, readvertise_disable_ms>>

ble_readvertise_poll ==
  /\ \/ ~readvertise_needed /\ UNCHANGED <<visible, flags>>
     \/ /\ readvertise_needed /\ readvertise_disable_ms = 0
        /\ visible' = FALSE
        /\ readvertise_disable_ms' = (now + Pause) % ClockMod
        /\ UNCHANGED readvertise_needed
     \/ /\ readvertise_needed /\ readvertise_disable_ms # 0
        /\ ~Reached(readvertise_disable_ms)
        /\ UNCHANGED <<visible, flags>>
     \/ /\ readvertise_needed /\ readvertise_disable_ms # 0
        /\ Reached(readvertise_disable_ms)
        /\ visible' = TRUE
        /\ readvertise_disable_ms' = 0
        /\ readvertise_needed' = FALSE
  /\ lag' = 0
  /\ UNCHANGED <<now, connected, hidden>>

Time ==
  /\ lag < MaxLag
  /\ now' = (now + 1) % ClockMod
  /\ lag' = lag + 1
  /\ hidden' = IF connected \/ visible THEN 0 ELSE hidden + 1
  /\ UNCHANGED <<connected, visible, flags>>

Next == Connect \/ Disconnect \/ ble_readvertise_poll \/ Time

Spec == Init /\ [][Next]_vars

-----------------------------------------------------------------------------
(***************************************************************************)
(* bridge_main.c: "force advertising back on ~100ms after a disconnect".   *)
(* A device without a central is invisible for the pause, one turn of the  *)
(* loop before it and one after it, and one more where the clock wraps and *)
(* the deadline happens to be 0, which stands for none.                    *)
(***************************************************************************)
ReadvertisedInTime == hidden <= Pause + 3 * MaxLag
=============================================================================
