--------------------------- MODULE MCBridgeOutput ---------------------------
(***************************************************************************)
(* BridgeOutput for TLC, with the periods scaled down in proportion.       *)
(***************************************************************************)
EXTENDS BridgeOutput

Map == INSTANCE KeyMap

KeyMapCompile(layout, mode, flags, text) == Map!Compile(layout, mode, flags, text)

Req(owner, text) ==
  [owner |-> owner, id |-> 1, layout |-> 1, mode |-> 1, flags |-> 0,
   text |-> text, ttl |-> MaxTTL]

\* "ab", and after it "c" of another owner.
OneJob == {Req(1, <<97, 98>>)}
TwoJobs == OneJob \cup {Req(2, <<99>>)}
=============================================================================
