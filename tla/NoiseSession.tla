---------------------------- MODULE NoiseSession ----------------------------
(***************************************************************************)
(* The authenticated session: the responder of firmware/noise_ik.c, the    *)
(* dispatch of command frames in firmware/bridge_main.c, and the initiator *)
(* of tools/pico_bridge_ctl.py.  The device has one session for both of    *)
(* its transports; a handshake on either one takes it over.                *)
(*                                                                         *)
(* Cryptography is symbolic.  A client run has a static key and draws one  *)
(* ephemeral key, so that the run itself names both; the n-th handshake    *)
(* that the device answers draws its n-th ephemeral.  The transport keys   *)
(* of the two sides agree exactly when they saw the same pair <<run, n>>,  *)
(* and a packet opens only under the key and the nonce it was sealed with. *)
(* Frames and answers stay in the air for ever: they may be lost, doubled, *)
(* delayed and overtake each other.                                        *)
(***************************************************************************)
EXTENDS ControllerStore, Sequences

CONSTANTS
  Clients,        \* runs of a client tool
  StaticKey(_),   \* the public static key of a run
  FirstRoster,    \* the roster that controller_setup leaves behind
  Bodies,         \* the plaintext commands clients send, see Body
  MaxHandshakes,  \* bound on the handshakes the device answers
  MaxSent         \* bound on the commands of one run

Body == [op : {"use", "unknown", "add", "revoke"}, key : PublicKeys,
         role : Roles, slot : Nat]

ASSUME SessionAssumption ==
  /\ \A c \in Clients : StaticKey(c) \in PublicKeys \ {ZeroKey}
  /\ FirstRoster \in Store /\ roster_valid(FirstRoster.slots)
  /\ Bodies \subseteq Body
  /\ MaxHandshakes \in Nat /\ MaxSent \in Nat

VARIABLES
  controllers,  \* the roster, shared with nctx.controllers
  nctx,         \* the device's session
  handshakes,   \* how many ephemeral keys the device has drawn
  clients,      \* clients[c]: the state of run c
  responses,    \* handshake responses in the air: pairs <<run, n>>
  commands,     \* encrypted commands in the air
  receipts,     \* encrypted receipts in the air
  executed      \* history: executed[k], the commands run under key k

air == <<responses, commands, receipts>>
vars == <<controllers, nctx, handshakes, clients, responses, commands, receipts, executed>>

SessionKeys == Clients \X (1..MaxHandshakes)
NoSessionKey == <<>>

\* reset_handshake_state
NoSession == [ready |-> FALSE, slot |-> LastSlot + 1, role |-> NONE,
              key |-> NoSessionKey, receive_nonce |-> 0, send_nonce |-> 0]

NewClient == [phase |-> "new", key |-> NoSessionKey, send_nonce |-> 0,
              receive_nonce |-> 0, accepted |-> <<>>]

Init ==
  /\ controllers = FirstRoster
  /\ nctx = NoSession
  /\ handshakes = 0
  /\ clients = [c \in Clients |-> NewClient]
  /\ responses = {} /\ commands = {} /\ receipts = {}
  /\ executed = [k \in SessionKeys |-> <<>>]

-----------------------------------------------------------------------------
\* The initiator.  A failed check raises NoiseHandshakeError and ends the run.

begin_handshake(c) ==
  /\ clients[c].phase = "new"
  /\ clients' = [clients EXCEPT ![c].phase = "waiting"]
  /\ UNCHANGED <<controllers, nctx, handshakes, air, executed>>

\* The response opens only if it answers this run's ephemeral key.
complete_handshake(c) ==
  /\ clients[c].phase = "waiting"
  /\ \E k \in responses :
       /\ k[1] = c
       /\ clients' = [clients EXCEPT ![c].phase = "ready", ![c].key = k]
  /\ UNCHANGED <<controllers, nctx, handshakes, air, executed>>

\* send_command up to the wait for the receipt.
encrypt_packet(c, body) ==
  LET me == clients[c]
  IN /\ me.phase = "ready" /\ me.send_nonce < MaxSent
     /\ commands' = commands \cup {[key |-> me.key, nonce |-> me.send_nonce, body |-> body]}
     /\ clients' = [clients EXCEPT ![c].phase = "sent", ![c].send_nonce = @ + 1]
     /\ UNCHANGED <<controllers, nctx, handshakes, responses, receipts, executed>>

\* Seeded fault: any receipt of the session will do.
ReceiptExpected_any(c, r) == r.key = clients[c].key

ReceiptExpected(c, r) ==
  r.key = clients[c].key /\ r.nonce = clients[c].receive_nonce

\* Status BUSY is retried (send_stage_until_idle), any other refusal raises.
GoesOn(status) == status \in {"OK", "BUSY"}

verify_transport_ack(c) ==
  /\ clients[c].phase = "sent"
  /\ \E r \in receipts :
       /\ ReceiptExpected(c, r)
       /\ clients' = [clients EXCEPT
            ![c].phase = IF GoesOn(r.status) THEN "ready" ELSE "closed",
            ![c].receive_nonce = @ + 1,
            ![c].accepted = Append(@, r.status)]
  /\ UNCHANGED <<controllers, nctx, handshakes, air, executed>>

\* The run is over: done, link lost, no answer, or an answer that fails a check.
Close(c) ==
  /\ clients[c].phase \in {"waiting", "ready", "sent"}
  /\ clients' = [clients EXCEPT ![c].phase = "closed"]
  /\ UNCHANGED <<controllers, nctx, handshakes, air, executed>>

-----------------------------------------------------------------------------
\* The responder: command_process_frame on a NOISE frame.

MatchedSlot(key) ==
  CHOOSE i \in Slots : controllers.slots[i].role # NONE /\ controllers.slots[i].public_key = key

noise_ik_handshake_respond(c) ==
  /\ clients[c].phase # "new"   \* its message is in the air, perhaps not for the first time
  /\ IF controller_store_find(controllers, StaticKey(c))
     THEN LET slot == MatchedSlot(StaticKey(c))
              key == <<c, handshakes + 1>>
          IN /\ handshakes < MaxHandshakes
             /\ handshakes' = handshakes + 1
             /\ responses' = responses \cup {key}
             /\ nctx' = [ready |-> TRUE, slot |-> slot, role |-> controllers.slots[slot].role,
                         key |-> key, receive_nonce |-> 0, send_nonce |-> 0]
     ELSE nctx' = NoSession /\ UNCHANGED <<handshakes, responses>>
  /\ UNCHANGED <<controllers, clients, commands, receipts, executed>>

\* A NOISE frame that does not open, a failing primitive, or a reboot.
HandshakeReset ==
  /\ nctx' = NoSession
  /\ UNCHANGED <<controllers, handshakes, clients, air, executed>>

-----------------------------------------------------------------------------
\* command_process_frame on an ENCRYPTED frame.

noise_decrypt_packet(p) ==
  nctx.ready /\ p.nonce = nctx.receive_nonce /\ p.key = nctx.key

Candidate(body) ==
  IF body.op = "add" THEN controller_store_add(controllers, body.key, body.role)
  ELSE controller_store_revoke(controllers, body.slot)

\* A change of the roster is committed to flash first, which may fail.
Changed(body, verdict) ==
  IF verdict = "OK"
  THEN {[status |-> "OK", receipt |-> TRUE, roster |-> Candidate(body)],
        [status |-> "STATE", receipt |-> TRUE, roster |-> controllers]}
  ELSE {[status |-> verdict, receipt |-> TRUE, roster |-> controllers]}

\* ble_handle_authenticated_command: "use" stands for the commands that leave
\* the roster alone and always get a receipt, "unknown" for those that get none.
ble_handle_authenticated_command(body) ==
  CASE body.op = "use" ->
         {[status |-> st, receipt |-> TRUE, roster |-> controllers] : st \in {"OK", "BUSY", "STATE"}}
    [] body.op = "unknown" ->
         {[status |-> "ARGUMENT", receipt |-> FALSE, roster |-> controllers]}
    [] body.op = "add" ->
         Changed(body, ble_handle_controller_add(controllers, nctx.slot, body.key, body.role))
    [] body.op = "revoke" ->
         Changed(body, ble_handle_controller_revoke(controllers, nctx.slot, body.slot))

\* Seeded faults: a nonce is not advanced.
Received_again == nctx.receive_nonce
Acknowledged_again == nctx.send_nonce

Received == nctx.receive_nonce + 1
Acknowledged == nctx.send_nonce + 1

\* noise_encrypt_transport_ack, when a receipt is due.
Answer(out) ==
  IF out.receipt
  THEN /\ receipts' = receipts \cup {[key |-> nctx.key, nonce |-> nctx.send_nonce,
                                      status |-> out.status]}
       /\ nctx' = [nctx EXCEPT !.receive_nonce = Received, !.send_nonce = Acknowledged]
  ELSE nctx' = [nctx EXCEPT !.receive_nonce = Received] /\ UNCHANGED receipts

EncryptedFrame(p) ==
  /\ noise_decrypt_packet(p)
  /\ \E out \in ble_handle_authenticated_command(p.body) :
       /\ controllers' = out.roster
       /\ Answer(out)
       /\ executed' = [executed EXCEPT ![nctx.key] =
                         Append(@, [body |-> p.body, status |-> out.status])]
  /\ UNCHANGED <<handshakes, clients, responses, commands>>

Next ==
  \/ \E c \in Clients :
       \/ begin_handshake(c) \/ complete_handshake(c)
       \/ \E body \in Bodies : encrypt_packet(c, body)
       \/ verify_transport_ack(c) \/ Close(c)
       \/ noise_ik_handshake_respond(c)
  \/ HandshakeReset
  \/ \E p \in commands : EncryptedFrame(p)

Spec == Init /\ [][Next]_vars

-----------------------------------------------------------------------------
\* Types.
SessionTypeOK ==
  /\ controllers \in Store
  /\ nctx \in [ready : BOOLEAN, slot : 0..(LastSlot + 1), role : Roles,
               key : SessionKeys \cup {NoSessionKey}, receive_nonce : 0..MaxSent,
               send_nonce : 0..MaxSent]
  /\ handshakes \in 0..MaxHandshakes
  /\ \A c \in Clients :
       /\ clients[c].phase \in {"new", "waiting", "ready", "sent", "closed"}
       /\ clients[c].key \in SessionKeys \cup {NoSessionKey}
       /\ clients[c].send_nonce \in 0..MaxSent /\ clients[c].receive_nonce \in 0..MaxSent
  /\ responses \subseteq SessionKeys
  /\ \A p \in commands : p.key \in SessionKeys /\ p.nonce \in 0..MaxSent /\ p.body \in Bodies
  /\ \A r \in receipts : r.key \in SessionKeys /\ r.nonce \in 0..MaxSent

(***************************************************************************)
(* "This avoids a post-revocation authenticated command window"            *)
(* (bridge_main.c): as long as a session is open, the slot and role noted  *)
(* at its handshake are still those of its peer in the roster, whatever    *)
(* was added, revoked and added again since; and once it is gone nothing   *)
(* of it is left to authenticate with (reset_handshake_state).             *)
(***************************************************************************)
AuthenticatedInRoster ==
  IF nctx.ready
  THEN /\ nctx.slot \in Slots
       /\ nctx.role # NONE
       /\ controllers.slots[nctx.slot] =
            [role |-> nctx.role, public_key |-> StaticKey(nctx.key[1])]
  ELSE nctx = NoSession

(***************************************************************************)
(* Every command that is executed was sent by the run that holds the key,  *)
(* is executed once and in the order of sending, without a gap: a doubled, *)
(* delayed or replayed frame of this or of an earlier session does nothing *)
(* (noise_decrypt_packet).                                                 *)
(***************************************************************************)
CommandsOnceInOrder ==
  \A k \in SessionKeys :
    /\ executed[k] # <<>> => clients[k[1]].key = k
    /\ \A i \in 1..Len(executed[k]) :
         [key |-> k, nonce |-> i - 1, body |-> executed[k][i].body] \in commands

(***************************************************************************)
(* The receipt that a run accepts for its i-th command is the device's     *)
(* answer to that very command: a stale receipt left over from an earlier  *)
(* one is never taken for it (verify_transport_ack).                       *)
(***************************************************************************)
ReceiptMatchesCommand ==
  \A c \in Clients :
    \A i \in 1..Len(clients[c].accepted) :
      /\ i <= Len(executed[clients[c].key])
      /\ executed[clients[c].key][i].status = clients[c].accepted[i]

\* No two packets are ever sealed with the same key and nonce.
NonceNeverReused ==
  /\ \A p, q \in commands : p.key = q.key /\ p.nonce = q.nonce => p = q
  /\ \A r, q \in receipts : r.key = q.key /\ r.nonce = q.nonce => r = q
  /\ nctx.ready => \A r \in receipts : r.key = nctx.key => r.nonce < nctx.send_nonce

(***************************************************************************)
(* Only a command of a peer that the roster lists as an admin changes the  *)
(* roster; the change leaves the recovery admin, the peer's own slot and   *)
(* the validity of the roster as they were.                                *)
(***************************************************************************)
RosterStep ==
  controllers' # controllers =>
    /\ \E i \in Slots :
         /\ controllers.slots[i].role \in {ADMIN, RECOVERY_ADMIN}
         /\ nctx.ready /\ controllers.slots[i].public_key = StaticKey(nctx.key[1])
         /\ controllers'.slots[i] = controllers.slots[i]
    /\ controllers'.slots[0] = controllers.slots[0]
    /\ roster_valid(controllers'.slots)
    /\ controllers'.generation = controllers.generation + 1

RosterChangedByAdmin == [][RosterStep]_vars
=============================================================================
