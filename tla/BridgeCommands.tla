--------------------------- MODULE BridgeCommands ---------------------------
(***************************************************************************)
(* firmware/bridge_main.c: the handlers of the four client commands that   *)
(* reach the transaction core.  A request here is what the bytes of a      *)
(* frame say; the handler normalises it before it calls the core.          *)
(***************************************************************************)
EXTENDS BridgeCore

\* ble_handle_stage reads the layout and mode bytes with a default and always
\* stages with BRIDGE_TTL_MS.
Decoded(r) ==
  [r EXCEPT !.layout = IF @ = 2 THEN 2 ELSE 1,
            !.mode = IF @ = 2 THEN 2 ELSE 1,
            !.ttl = MaxTTL]

ASSUME DecodedAssumption == \A r \in Requests : Decoded(r) \in Requests

ble_handle_stage(r, t) == bridge_core_stage(Decoded(r), t)
ble_handle_confirm(k, t) == bridge_core_confirm(k[1], k[2], t)
ble_handle_cancel(k) == bridge_core_cancel(k[1], k[2])
ble_handle_tick(t) == bridge_core_tick(t)

\* A frame shorter than its command needs never reaches the core.
ShortFrame == Return("ARGUMENT")

\* What one command frame can do, with t the loop's clock sample; the time of
\* a TICK is the client's.
Command(t) ==
  \/ \E r \in Requests : ble_handle_stage(r, t)
  \/ \E k \in Keys : ble_handle_confirm(k, t)
  \/ \E k \in Keys : ble_handle_cancel(k)
  \/ \E c \in Clock : ble_handle_tick(c)
  \/ ShortFrame
=============================================================================
