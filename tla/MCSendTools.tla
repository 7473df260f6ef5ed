----------------------------- MODULE MCSendTools -----------------------------
(***************************************************************************)
(* SendTools for TLC: one run types "ab" and Enter, another one "c"        *)
(* without Enter while the first is on its way.                            *)
(***************************************************************************)
EXTENDS SendTools

CONSTANTS run1, run2

Map == INSTANCE KeyMap

KeyMapCompile(layout, mode, flags, text) == Map!Compile(layout, mode, flags, text)

Req(owner, id, mode, flags, text) ==
  [owner |-> owner, id |-> id, layout |-> 1, mode |-> mode, flags |-> flags,
   text |-> text, ttl |-> MaxTTL]

Texts(t) == IF t = run1 THEN Req(1, 1, 1, 0, <<97, 98>>) ELSE Req(1, 3, 1, 0, <<99>>)

\* BRIDGE_MODE_TEXT with BRIDGE_FLAG_ALLOW_LF
Enters(t) == Req(1, 2, 2, 1, <<10>>)

OnlyFirst(t) == t = run1

ToolRequests == {Texts(run1), Texts(run2), Enters(run1)}
=============================================================================
