---------------------------- MODULE MCBridgeClock ----------------------------
(***************************************************************************)
(* BridgeClock for TLC: the core, the handlers of its commands and a clock *)
(* that wraps within every few steps.  The texts are compiled by KeyMap.   *)
(***************************************************************************)
EXTENDS BridgeClock

Map == INSTANCE KeyMap

KeyMapCompile(layout, mode, flags, text) == Map!Compile(layout, mode, flags, text)

Req(owner, id, layout, mode, flags, text) ==
  [owner |-> owner, id |-> id, layout |-> layout, mode |-> mode,
   flags |-> flags, text |-> text, ttl |-> MaxTTL]

\* Two owners and three pairs; "ab", "b" and "^", which takes two strokes on
\* the German layout; a second text under a pair of the first.
ValidRequests ==
  {Req(1, 1, 1, 1, 0, <<97, 98>>), Req(1, 2, 2, 2, 0, <<94>>), Req(2, 1, 1, 1, 0, <<98>>),
   Req(1, 2, 1, 1, 0, <<98>>)}

\* One request per way to be refused.
RefusedRequests ==
  {Req(1, 1, 1, 1, 0, <<>>),           \* no text
   Req(1, 1, 1, 1, 0, <<97, 97, 97>>), \* too long
   Req(0, 1, 1, 1, 0, <<97>>),         \* no owner
   Req(2, 1, 1, 1, 1, <<97>>),         \* flags in PASSWORD mode
   Req(2, 1, 1, 1, 0, <<228>>),        \* a lone continuation byte
   Req(1, 2, 1, 1, 0, <<195, 164>>),   \* an umlaut on the US layout
   Req(1, 2, 1, 2, 0, <<10>>)}         \* a line break without its flag

\* A frame with a layout and a mode that the handler does not know.
UnknownRequests == {Req(2, 1, 0, 7, 0, <<98>>)}

MixedRequests == ValidRequests \cup RefusedRequests \cup UnknownRequests
=============================================================================
