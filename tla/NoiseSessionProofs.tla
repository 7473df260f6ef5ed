-------------------------- MODULE NoiseSessionProofs --------------------------
(***************************************************************************)
(* The authenticated session: proofs about NoiseSession for any number of  *)
(* client runs, handshakes, commands and roster slots, and any roster that *)
(* record_valid accepts.                                                   *)
(***************************************************************************)
EXTENDS NoiseSession, ControllerStoreProofs, SequenceTheorems

Statuses == {"OK", "BUSY", "STATE", "ARGUMENT", "OWNER", "LIMIT", "POLICY"}

ClientRecord ==
  [phase : {"new", "waiting", "ready", "sent", "closed"},
   key : SessionKeys \cup {NoSessionKey}, send_nonce : 0..MaxSent,
   receive_nonce : 0..MaxSent, accepted : Seq(Statuses)]

\* SessionTypeOK with the shape of packets, runs and histories spelled out.
SessionShape ==
  /\ controllers \in Store
  /\ nctx \in [ready : BOOLEAN, slot : 0..(LastSlot + 1), role : Roles,
               key : SessionKeys \cup {NoSessionKey}, receive_nonce : 0..MaxSent,
               send_nonce : 0..MaxSent]
  /\ handshakes \in 0..MaxHandshakes
  /\ clients \in [Clients -> ClientRecord]
  /\ responses \subseteq SessionKeys
  /\ commands \subseteq [key : SessionKeys, nonce : 0..MaxSent, body : Bodies]
  /\ receipts \subseteq [key : SessionKeys, nonce : 0..MaxSent, status : Statuses]
  /\ executed \in [SessionKeys -> Seq([body : Bodies, status : Statuses])]

\* The device's ephemeral keys are drawn in order, and an open session has
\* the key of a response that was sent.
KeysDrawn ==
  /\ \A k \in responses : k[2] <= handshakes
  /\ nctx.ready => nctx.key \in responses

\* A run has at most one key, that of a response to it; it waits for the
\* receipt of each command before it sends the next.
RunOk(c, me) ==
  /\ me.key # NoSessionKey => me.key \in responses /\ me.key[1] = c
  /\ me.phase \in {"new", "waiting"} =>
       me.key = NoSessionKey /\ me.send_nonce = 0 /\ me.receive_nonce = 0
  /\ me.phase \in {"ready", "sent"} => me.key # NoSessionKey
  /\ me.phase = "ready" => me.send_nonce = me.receive_nonce
  /\ me.phase = "sent" => me.send_nonce = me.receive_nonce + 1
  /\ me.receive_nonce <= me.send_nonce /\ me.send_nonce <= me.receive_nonce + 1
  /\ Len(me.accepted) = me.receive_nonce
  /\ me.receive_nonce > 0 => me.key # NoSessionKey

RunShape == \A c \in Clients : RunOk(c, clients[c])

\* Commands in the air were sealed by the run that holds their key.
CommandsSealed ==
  /\ \A p \in commands : /\ clients[p.key[1]].key = p.key
                         /\ p.nonce < clients[p.key[1]].send_nonce
  /\ \A p, q \in commands : p.key = q.key /\ p.nonce = q.nonce => p = q

\* The n-th receipt under a key is the answer to the n-th command under it.
ReceiptsAnswer ==
  \A r \in receipts : /\ r.nonce + 1 \in 1..Len(executed[r.key])
                      /\ executed[r.key][r.nonce + 1].status = r.status

PeerAgrees(me) ==
  me.key = nctx.key =>
    /\ me.receive_nonce <= nctx.send_nonce
    /\ nctx.send_nonce # nctx.receive_nonce => me.send_nonce <= nctx.receive_nonce

\* The counters of an open session against its history, the receipts and its
\* peer: after a command without a receipt the peer can send no other.
CountersAgree ==
  nctx.ready =>
    /\ Len(executed[nctx.key]) = nctx.receive_nonce
    /\ nctx.send_nonce <= nctx.receive_nonce /\ nctx.receive_nonce <= nctx.send_nonce + 1
    /\ \A r \in receipts : r.key = nctx.key => r.nonce < nctx.send_nonce
    /\ PeerAgrees(clients[nctx.key[1]])

\* ReceiptMatchesCommand for one run.
AcceptedOk(me) ==
  \A i \in 1..Len(me.accepted) :
    i <= Len(executed[me.key]) /\ executed[me.key][i].status = me.accepted[i]

SessionInv ==
  /\ SessionShape
  /\ roster_valid(controllers.slots) /\ AuthenticatedInRoster
  /\ KeysDrawn /\ RunShape /\ CommandsSealed
  /\ CommandsOnceInOrder /\ ReceiptsAnswer /\ CountersAgree
  /\ ReceiptMatchesCommand

-----------------------------------------------------------------------------
\* A session key is a pair of a run and the number of a handshake.
LEMMA KeyFacts ==
  \A k \in SessionKeys : /\ k[1] \in Clients /\ k[2] \in 1..MaxHandshakes
                         /\ k = <<k[1], k[2]>> /\ k # NoSessionKey
BY DEF SessionKeys, NoSessionKey

\* The invariant holds when the device has booted.
LEMMA SessionInvInit == Init => SessionInv
<1> SUFFICES ASSUME Init PROVE SessionInv
  OBVIOUS
<1>1. MaxHandshakes \in Nat /\ MaxSent \in Nat /\ LastSlot \in Nat
  BY SessionAssumption, StoreAssumption
<1>2. NewClient \in ClientRecord
  BY <1>1 DEF NewClient, ClientRecord
<1>3. SessionShape
  BY <1>1, <1>2, SessionAssumption, RoleFacts DEF Init, SessionShape, NoSession
<1>4. \A c \in Clients : clients[c] = NewClient
  BY DEF Init
<1>5. \A c \in Clients : RunOk(c, clients[c]) /\ clients[c].accepted = <<>>
  BY <1>4 DEF NewClient, RunOk
<1>6. ReceiptMatchesCommand
  BY <1>5 DEF ReceiptMatchesCommand
<1>7. CommandsOnceInOrder
  BY DEF Init, CommandsOnceInOrder
<1>8. KeysDrawn /\ CommandsSealed /\ ReceiptsAnswer /\ CountersAgree
  BY DEF Init, NoSession, KeysDrawn, CommandsSealed, ReceiptsAnswer, CountersAgree
<1>9. roster_valid(controllers.slots) /\ AuthenticatedInRoster
  BY SessionAssumption DEF Init, NoSession, AuthenticatedInRoster
<1> QED
  BY <1>3, <1>5, <1>6, <1>7, <1>8, <1>9 DEF SessionInv, RunShape

\* A step of a client run: its key stays once it has one, its counters only
\* grow, and nothing else changes but the commands it puts into the air.
LEMMA RunStep ==
  ASSUME SessionInv, NEW c \in Clients, NEW new \in ClientRecord,
         clients' = [clients EXCEPT ![c] = new],
         UNCHANGED <<controllers, nctx, handshakes, responses, receipts, executed>>,
         commands' \subseteq [key : SessionKeys, nonce : 0..MaxSent, body : Bodies],
         commands \subseteq commands', CommandsSealed',
         RunOk(c, new), AcceptedOk(new),
         new.key = clients[c].key \/ clients[c].key = NoSessionKey,
         nctx.ready /\ nctx.key[1] = c => PeerAgrees(new)
  PROVE  SessionInv'
<1>1. SessionShape /\ CommandsOnceInOrder /\ CountersAgree
  BY DEF SessionInv
<1>2. /\ \A d \in Clients : clients'[d] = IF d = c THEN new ELSE clients[d]
      /\ clients' \in [Clients -> ClientRecord]
  BY <1>1 DEF SessionShape
<1>3. SessionShape'
  BY <1>1, <1>2 DEF SessionShape
<1>4. roster_valid(controllers'.slots) /\ AuthenticatedInRoster' /\ KeysDrawn'
  BY DEF SessionInv, AuthenticatedInRoster, KeysDrawn
<1>5. RunShape'
  BY <1>2 DEF SessionInv, RunShape, RunOk
<1>6. CommandsOnceInOrder'
  <2> SUFFICES ASSUME NEW k \in SessionKeys
               PROVE  /\ executed[k] # <<>> => clients'[k[1]].key = k
                      /\ \A i \in 1..Len(executed[k]) :
                           [key |-> k, nonce |-> i - 1, body |-> executed[k][i].body] \in commands'
    BY DEF CommandsOnceInOrder
  <2>1. k[1] \in Clients /\ k # NoSessionKey
    BY KeyFacts
  <2>2. executed[k] # <<>> => clients[k[1]].key = k
    BY <1>1 DEF CommandsOnceInOrder
  <2>3. executed[k] # <<>> => clients'[k[1]].key = k
    BY <1>2, <2>1, <2>2
  <2> QED
    BY <1>1, <2>3 DEF CommandsOnceInOrder
<1>7. ReceiptsAnswer'
  BY DEF SessionInv, ReceiptsAnswer
<1>8. CountersAgree'
  <2> SUFFICES ASSUME nctx.ready PROVE CountersAgree'
    BY DEF CountersAgree
  <2>1. nctx.key[1] \in Clients
    BY KeyFacts DEF SessionInv, KeysDrawn, SessionShape
  <2>2. PeerAgrees(clients'[nctx.key[1]])
    BY <1>1, <1>2, <2>1 DEF CountersAgree
  <2> QED
    BY <1>1, <2>2 DEF CountersAgree, PeerAgrees
<1>9. ReceiptMatchesCommand'
  <2> SUFFICES ASSUME NEW d \in Clients PROVE AcceptedOk(clients'[d])
    BY DEF ReceiptMatchesCommand, AcceptedOk
  <2>1. AcceptedOk(clients[d])
    BY DEF SessionInv, ReceiptMatchesCommand, AcceptedOk
  <2> QED
    BY <1>2, <2>1
<1> QED
  BY <1>3, <1>4, <1>5, <1>6, <1>7, <1>8, <1>9 DEF SessionInv

\* What the invariant says of one run.
LEMMA RunFacts ==
  ASSUME SessionInv, NEW c \in Clients
  PROVE  /\ clients[c] \in ClientRecord /\ RunOk(c, clients[c]) /\ AcceptedOk(clients[c])
         /\ nctx.ready /\ nctx.key[1] = c => PeerAgrees(clients[c])
         /\ MaxSent \in Nat
BY SessionAssumption
DEF SessionInv, SessionShape, RunShape, ReceiptMatchesCommand, AcceptedOk, CountersAgree

\* Commands stay sealed when a run changes neither its key nor its counter.
LEMMA SealedStays ==
  ASSUME SessionInv, NEW c \in Clients, NEW new \in ClientRecord,
         clients' = [clients EXCEPT ![c] = new], commands' = commands,
         new.key = clients[c].key \/ clients[c].key = NoSessionKey,
         new.send_nonce = clients[c].send_nonce
  PROVE  CommandsSealed'
<1>1. \A d \in Clients : clients'[d] = IF d = c THEN new ELSE clients[d]
  BY DEF SessionInv, SessionShape
<1>2. \A p \in commands : p.key \in SessionKeys
  BY DEF SessionInv, SessionShape
<1>3. \A p \in commands : p.key[1] \in Clients /\ p.key # NoSessionKey
  BY <1>2, KeyFacts
<1> QED
  BY <1>1, <1>3 DEF SessionInv, CommandsSealed

\* begin_handshake and the end of a run.
LEMMA PhaseInv ==
  ASSUME SessionInv, NEW c \in Clients, begin_handshake(c) \/ Close(c)
  PROVE  SessionInv'
<1>1. /\ clients[c] \in ClientRecord /\ RunOk(c, clients[c]) /\ AcceptedOk(clients[c])
      /\ nctx.ready /\ nctx.key[1] = c => PeerAgrees(clients[c])
  BY RunFacts
<1>2. clients \in [Clients -> ClientRecord]
  BY DEF SessionInv, SessionShape
<1> DEFINE phase == IF clients[c].phase = "new" THEN "waiting" ELSE "closed"
           new == [clients[c] EXCEPT !.phase = phase]
<1>3. /\ clients' = [clients EXCEPT ![c].phase = phase]
      /\ UNCHANGED <<controllers, nctx, handshakes, air, executed>>
  BY DEF begin_handshake, Close
<1>4. /\ new.phase = phase /\ new.key = clients[c].key
      /\ new.send_nonce = clients[c].send_nonce /\ new.receive_nonce = clients[c].receive_nonce
      /\ new.accepted = clients[c].accepted
      /\ new \in ClientRecord
  BY <1>1 DEF ClientRecord
<1>5. clients' = [clients EXCEPT ![c] = new]
  BY <1>2, <1>3
<1> HIDE DEF new
<1>6. RunOk(c, new) /\ AcceptedOk(new) /\ (nctx.ready /\ nctx.key[1] = c => PeerAgrees(new))
  BY <1>1, <1>3, <1>4 DEF RunOk, AcceptedOk, PeerAgrees
<1>7. /\ UNCHANGED <<controllers, nctx, handshakes, responses, receipts, executed, commands>>
      /\ commands \subseteq [key : SessionKeys, nonce : 0..MaxSent, body : Bodies]
  BY <1>3 DEF air, SessionInv, SessionShape
<1>8. CommandsSealed'
  BY <1>4, <1>5, <1>7, SealedStays
<1> QED
  BY <1>4, <1>5, <1>6, <1>7, <1>8, RunStep

\* complete_handshake gives the run the key of a response to it.
LEMMA CompleteInv ==
  ASSUME SessionInv, NEW c \in Clients, complete_handshake(c)
  PROVE  SessionInv'
<1>1. /\ clients[c] \in ClientRecord /\ RunOk(c, clients[c]) /\ AcceptedOk(clients[c])
      /\ nctx.ready /\ nctx.key[1] = c => PeerAgrees(clients[c])
  BY RunFacts
<1>2. clients \in [Clients -> ClientRecord] /\ clients[c].phase = "waiting"
  BY DEF SessionInv, SessionShape, complete_handshake
<1>3. PICK k \in responses :
        k[1] = c /\ clients' = [clients EXCEPT ![c].phase = "ready", ![c].key = k]
  BY DEF complete_handshake
<1>4. k \in SessionKeys /\ k # NoSessionKey
  BY KeyFacts DEF SessionInv, SessionShape
<1> DEFINE new == [clients[c] EXCEPT !.phase = "ready", !.key = k]
<1>5. /\ new.phase = "ready" /\ new.key = k
      /\ new.send_nonce = 0 /\ new.receive_nonce = 0
      /\ new.accepted = clients[c].accepted /\ Len(new.accepted) = 0
      /\ new \in ClientRecord
  BY <1>1, <1>2, <1>4 DEF ClientRecord, RunOk
<1>6. clients' = [clients EXCEPT ![c] = new]
  BY <1>2, <1>3
<1> HIDE DEF new
<1>7. nctx.ready => nctx.send_nonce \in Nat /\ nctx.receive_nonce \in Nat
  BY SessionAssumption DEF SessionInv, SessionShape
<1>8. RunOk(c, new) /\ AcceptedOk(new) /\ (nctx.ready /\ nctx.key[1] = c => PeerAgrees(new))
  BY <1>3, <1>4, <1>5, <1>7 DEF RunOk, AcceptedOk, PeerAgrees
<1>9. /\ UNCHANGED <<controllers, nctx, handshakes, responses, receipts, executed, commands>>
      /\ commands \subseteq [key : SessionKeys, nonce : 0..MaxSent, body : Bodies]
  BY DEF complete_handshake, air, SessionInv, SessionShape
<1>10. clients[c].key = NoSessionKey /\ clients[c].send_nonce = 0
  BY <1>1, <1>2 DEF RunOk
<1>11. CommandsSealed'
  BY <1>5, <1>6, <1>9, <1>10, SealedStays
<1> QED
  BY <1>5, <1>6, <1>8, <1>9, <1>10, <1>11, RunStep

\* encrypt_packet seals the next command with the next nonce.
LEMMA EncryptInv ==
  ASSUME SessionInv, NEW c \in Clients, NEW body \in Bodies, encrypt_packet(c, body)
  PROVE  SessionInv'
<1>1. /\ clients[c] \in ClientRecord /\ RunOk(c, clients[c]) /\ AcceptedOk(clients[c])
      /\ nctx.ready /\ nctx.key[1] = c => PeerAgrees(clients[c])
      /\ MaxSent \in Nat
  BY RunFacts
<1>2. clients \in [Clients -> ClientRecord] /\ clients[c].phase = "ready"
  BY DEF SessionInv, SessionShape, encrypt_packet
<1> DEFINE new == [clients[c] EXCEPT !.phase = "sent", !.send_nonce = @ + 1]
           q == [key |-> clients[c].key, nonce |-> clients[c].send_nonce, body |-> body]
<1>3. /\ clients[c].send_nonce < MaxSent /\ clients[c].send_nonce \in 0..MaxSent
      /\ clients[c].receive_nonce \in 0..MaxSent
      /\ clients[c].send_nonce = clients[c].receive_nonce
      /\ clients[c].key \in SessionKeys /\ clients[c].key[1] = c
  BY <1>1, <1>2 DEF ClientRecord, RunOk, encrypt_packet
<1>4. /\ new.phase = "sent" /\ new.key = clients[c].key
      /\ new.send_nonce = clients[c].send_nonce + 1
      /\ new.receive_nonce = clients[c].receive_nonce
      /\ new.accepted = clients[c].accepted
      /\ new \in ClientRecord
  <2>1. clients[c].send_nonce + 1 \in 0..MaxSent
    BY <1>1, <1>3
  <2> QED
    BY <1>1, <2>1 DEF ClientRecord
<1>5. clients' = [clients EXCEPT ![c] = new] /\ commands' = commands \cup {q}
  BY <1>2 DEF encrypt_packet
<1>6. /\ q.key = clients[c].key /\ q.nonce = clients[c].send_nonce
      /\ q \in [key : SessionKeys, nonce : 0..MaxSent, body : Bodies]
  BY <1>3
<1> HIDE DEF new, q
<1>7. nctx.ready => nctx.send_nonce \in Nat /\ nctx.receive_nonce \in Nat
  BY <1>1 DEF SessionInv, SessionShape
<1>8. RunOk(c, new) /\ AcceptedOk(new)
  <2>1. AcceptedOk(new)
    BY <1>1, <1>4 DEF AcceptedOk
  <2>2. Len(new.accepted) = new.receive_nonce /\ new.key \in responses
    BY <1>1, <1>2, <1>4 DEF RunOk
  <2> QED
    BY <1>3, <1>4, <2>1, <2>2, KeyFacts DEF RunOk
<1>9. nctx.ready /\ nctx.key[1] = c => PeerAgrees(new)
  <2>1. nctx.ready => nctx.receive_nonce <= nctx.send_nonce + 1 /\ nctx.send_nonce <= nctx.receive_nonce
    BY DEF SessionInv, CountersAgree
  <2> QED
    BY <1>1, <1>3, <1>4, <1>7, <2>1 DEF PeerAgrees
<1>10. /\ UNCHANGED <<controllers, nctx, handshakes, responses, receipts, executed>>
       /\ commands' \subseteq [key : SessionKeys, nonce : 0..MaxSent, body : Bodies]
  BY <1>5, <1>6 DEF encrypt_packet, SessionInv, SessionShape
<1>11. CommandsSealed'
  <2>1. \A d \in Clients : clients'[d] = IF d = c THEN new ELSE clients[d]
    BY <1>2, <1>5
  <2>2. \A p \in commands : /\ p.key[1] \in Clients /\ p.nonce \in Nat
                            /\ clients[p.key[1]].key = p.key
                            /\ p.nonce < clients[p.key[1]].send_nonce
    <3>1. \A p \in commands : p.key \in SessionKeys /\ p.nonce \in 0..MaxSent
      BY DEF SessionInv, SessionShape
    <3> QED
      BY <1>1, <3>1, KeyFacts DEF SessionInv, CommandsSealed
  <2>3. \A p \in commands : p.key = q.key => p.nonce < q.nonce
    BY <1>3, <1>6, <2>2
  <2>4. \A p \in commands' : clients'[p.key[1]].key = p.key /\ p.nonce < clients'[p.key[1]].send_nonce
    BY <1>3, <1>4, <1>5, <1>6, <2>1, <2>2
  <2>5. ASSUME NEW p \in commands', NEW r \in commands', p.key = r.key, p.nonce = r.nonce
        PROVE  p = r
    <3>1. q.nonce \in Nat
      BY <1>3, <1>6
    <3> QED
      BY <1>5, <2>2, <2>3, <2>5, <3>1 DEF SessionInv, CommandsSealed
  <2> QED
    BY <2>4, <2>5 DEF CommandsSealed
<1> QED
  BY <1>4, <1>5, <1>8, <1>9, <1>10, <1>11, RunStep

\* verify_transport_ack takes the receipt with the next nonce, which answers
\* the command that the run is waiting for.
LEMMA AckInv ==
  ASSUME SessionInv, NEW c \in Clients, verify_transport_ack(c)
  PROVE  SessionInv'
<1> DEFINE me == clients[c]
<1>1. /\ me \in ClientRecord /\ RunOk(c, me) /\ AcceptedOk(me)
      /\ nctx.ready /\ nctx.key[1] = c => PeerAgrees(me)
      /\ MaxSent \in Nat
  BY RunFacts
<1>2. clients \in [Clients -> ClientRecord] /\ me.phase = "sent"
  BY DEF SessionInv, SessionShape, verify_transport_ack
<1>3. PICK r \in receipts :
        /\ ReceiptExpected(c, r)
        /\ clients' = [clients EXCEPT
             ![c].phase = IF GoesOn(r.status) THEN "ready" ELSE "closed",
             ![c].receive_nonce = @ + 1,
             ![c].accepted = Append(@, r.status)]
  BY DEF verify_transport_ack
<1>4. r.key = me.key /\ r.nonce = me.receive_nonce /\ r.status \in Statuses
  BY <1>3 DEF ReceiptExpected, SessionInv, SessionShape
<1>5. /\ me.send_nonce \in 0..MaxSent /\ me.receive_nonce \in 0..MaxSent
      /\ me.send_nonce = me.receive_nonce + 1 /\ me.accepted \in Seq(Statuses)
      /\ Len(me.accepted) = me.receive_nonce
      /\ me.key \in responses /\ me.key[1] = c /\ me.key # NoSessionKey
  BY <1>1, <1>2 DEF ClientRecord, RunOk
<1> DEFINE phase == IF GoesOn(r.status) THEN "ready" ELSE "closed"
           accepted == Append(me.accepted, r.status)
           new == [me EXCEPT !.phase = phase, !.receive_nonce = @ + 1,
                             !.accepted = Append(@, r.status)]
<1>6. /\ accepted \in Seq(Statuses) /\ Len(accepted) = me.receive_nonce + 1
      /\ \A i \in 1..me.receive_nonce : accepted[i] = me.accepted[i]
      /\ accepted[me.receive_nonce + 1] = r.status
  BY <1>4, <1>5
<1>7. /\ new.phase = phase /\ new.key = me.key /\ new.send_nonce = me.send_nonce
      /\ new.receive_nonce = me.receive_nonce + 1 /\ new.accepted = accepted
      /\ new \in ClientRecord
  <2>1. me.receive_nonce + 1 \in 0..MaxSent
    BY <1>5
  <2> QED
    BY <1>1, <1>6, <2>1 DEF ClientRecord
<1>8. clients' = [clients EXCEPT ![c] = new]
  BY <1>2, <1>3
<1>9. phase \in {"ready", "closed"}
  OBVIOUS
<1> HIDE DEF new, phase, accepted
<1>10. RunOk(c, new)
  BY <1>5, <1>6, <1>7, <1>9 DEF RunOk
<1>11. AcceptedOk(new)
  <2>1. /\ me.receive_nonce + 1 \in 1..Len(executed[me.key])
        /\ executed[me.key][me.receive_nonce + 1].status = r.status
    BY <1>4 DEF SessionInv, ReceiptsAnswer
  <2> SUFFICES ASSUME NEW i \in 1..(me.receive_nonce + 1)
               PROVE  /\ i <= Len(executed[me.key])
                      /\ executed[me.key][i].status = accepted[i]
    BY <1>6, <1>7 DEF AcceptedOk
  <2>2. CASE i = me.receive_nonce + 1
    BY <1>6, <2>1, <2>2
  <2>3. CASE i # me.receive_nonce + 1
    <3>1. i \in 1..me.receive_nonce
      BY <1>5, <2>3
    <3> QED
      BY <1>1, <1>5, <1>6, <3>1 DEF AcceptedOk
  <2> QED
    BY <2>2, <2>3
<1>12. nctx.ready /\ nctx.key[1] = c => PeerAgrees(new)
  <2> SUFFICES ASSUME nctx.ready, nctx.key[1] = c, new.key = nctx.key
               PROVE  /\ new.receive_nonce <= nctx.send_nonce
                      /\ nctx.send_nonce # nctx.receive_nonce =>
                           new.send_nonce <= nctx.receive_nonce
    BY DEF PeerAgrees
  <2>1. me.receive_nonce < nctx.send_nonce
    BY <1>4, <1>7 DEF SessionInv, CountersAgree
  <2>2. nctx.send_nonce \in 0..MaxSent
    BY DEF SessionInv, SessionShape
  <2> QED
    BY <1>1, <1>5, <1>7, <2>1, <2>2 DEF PeerAgrees
<1>13. /\ UNCHANGED <<controllers, nctx, handshakes, responses, receipts, executed, commands>>
       /\ commands \subseteq [key : SessionKeys, nonce : 0..MaxSent, body : Bodies]
  BY DEF verify_transport_ack, air, SessionInv, SessionShape
<1>14. CommandsSealed'
  BY <1>7, <1>8, <1>13, SealedStays
<1> QED
  BY <1>7, <1>8, <1>10, <1>11, <1>12, <1>13, <1>14, RunStep

\* The handshake finds the slot of the key in the roster.
LEMMA MatchedSlotFacts ==
  ASSUME NEW key, controller_store_find(controllers, key)
  PROVE  /\ MatchedSlot(key) \in Slots
         /\ controllers.slots[MatchedSlot(key)].role # NONE
         /\ controllers.slots[MatchedSlot(key)].public_key = key
BY DEF controller_store_find, MatchedSlot

\* A reset leaves no session.
LEMMA NoSessionInv ==
  ASSUME SessionInv, nctx' = NoSession,
         UNCHANGED <<controllers, handshakes, clients, responses, commands, receipts, executed>>
  PROVE  SessionInv'
<1>1. NoSession \in [ready : BOOLEAN, slot : 0..(LastSlot + 1), role : Roles,
                     key : SessionKeys \cup {NoSessionKey}, receive_nonce : 0..MaxSent,
                     send_nonce : 0..MaxSent]
  BY SessionAssumption, StoreAssumption, RoleFacts DEF NoSession
<1>2. SessionShape'
  BY <1>1 DEF SessionInv, SessionShape
<1>3. nctx'.ready = FALSE
  BY DEF NoSession
<1>4. roster_valid(controllers'.slots) /\ AuthenticatedInRoster' /\ KeysDrawn'
  BY <1>3 DEF SessionInv, AuthenticatedInRoster, KeysDrawn
<1>5. RunShape' /\ CommandsSealed' /\ CommandsOnceInOrder' /\ ReceiptsAnswer'
  BY DEF SessionInv, RunShape, RunOk, CommandsSealed, CommandsOnceInOrder, ReceiptsAnswer
<1>6. CountersAgree' /\ ReceiptMatchesCommand'
  BY <1>3 DEF SessionInv, CountersAgree, ReceiptMatchesCommand
<1> QED
  BY <1>2, <1>4, <1>5, <1>6 DEF SessionInv

\* A key that the device has not drawn yet is not in use anywhere.
LEMMA FreshKey ==
  ASSUME SessionInv, NEW k \in SessionKeys, k[2] = handshakes + 1
  PROVE  /\ executed[k] = <<>>
         /\ \A c \in Clients : clients[c].key # k
         /\ \A r \in receipts : r.key # k
<1>1. k[1] \in Clients /\ k[2] \in Nat /\ k # NoSessionKey /\ handshakes \in Nat
  BY KeyFacts, SessionAssumption DEF SessionInv, SessionShape
<1>2. k \notin responses
  BY <1>1 DEF SessionInv, KeysDrawn
<1>3. \A c \in Clients : clients[c].key # k
  BY <1>1, <1>2 DEF SessionInv, RunShape, RunOk
<1>4. executed[k] = <<>>
  BY <1>1, <1>3 DEF SessionInv, CommandsOnceInOrder
<1>5. \A r \in receipts : r.key # k
  BY <1>4 DEF SessionInv, ReceiptsAnswer
<1> QED
  BY <1>3, <1>4, <1>5

\* noise_ik_handshake_respond takes the session over under a fresh key, or
\* refuses and leaves none.
LEMMA RespondInv ==
  ASSUME SessionInv, NEW c \in Clients, noise_ik_handshake_respond(c)
  PROVE  SessionInv'
<1>1. CASE ~controller_store_find(controllers, StaticKey(c))
  BY <1>1, NoSessionInv DEF noise_ik_handshake_respond
<1>2. CASE controller_store_find(controllers, StaticKey(c))
  <2> DEFINE slot == MatchedSlot(StaticKey(c))
             key == <<c, handshakes + 1>>
             new == [ready |-> TRUE, slot |-> slot, role |-> controllers.slots[slot].role,
                     key |-> key, receive_nonce |-> 0, send_nonce |-> 0]
  <2>1. /\ handshakes < MaxHandshakes /\ handshakes' = handshakes + 1
        /\ responses' = responses \cup {key} /\ nctx' = new
        /\ UNCHANGED <<controllers, clients, commands, receipts, executed>>
    BY <1>2 DEF noise_ik_handshake_respond
  <2>2. /\ slot \in Slots /\ controllers.slots[slot].role # NONE
        /\ controllers.slots[slot].public_key = StaticKey(c)
    BY <1>2, MatchedSlotFacts
  <2>3. /\ handshakes \in 0..MaxHandshakes /\ MaxHandshakes \in Nat /\ MaxSent \in Nat
        /\ LastSlot \in Nat /\ controllers \in Store
    BY SessionAssumption, StoreAssumption DEF SessionInv, SessionShape
  <2>4. key \in SessionKeys /\ key[1] = c /\ key[2] = handshakes + 1
    BY <2>1, <2>3 DEF SessionKeys
  <2>5. controllers.slots[slot] \in Slot /\ slot \in 0..(LastSlot + 1)
    BY <2>2, <2>3 DEF Store, Slots
  <2> HIDE DEF slot, key
  <2>6. /\ new.ready = TRUE /\ new.slot = slot /\ new.role = controllers.slots[slot].role
        /\ new.key = key /\ new.receive_nonce = 0 /\ new.send_nonce = 0
        /\ new \in [ready : BOOLEAN, slot : 0..(LastSlot + 1), role : Roles,
                    key : SessionKeys \cup {NoSessionKey}, receive_nonce : 0..MaxSent,
                    send_nonce : 0..MaxSent]
    BY <2>3, <2>4, <2>5 DEF Slot
  <2> HIDE DEF new
  <2>7. SessionShape'
    <3>1. handshakes' \in 0..MaxHandshakes
      BY <2>1, <2>3
    <3>2. responses' \subseteq SessionKeys
      BY <2>1, <2>4 DEF SessionInv, SessionShape
    <3> QED
      BY <2>1, <2>6, <3>1, <3>2 DEF SessionInv, SessionShape
  <2>8. roster_valid(controllers'.slots) /\ AuthenticatedInRoster'
    <3>1. controllers.slots[slot] = [role |-> new.role, public_key |-> StaticKey(c)]
      BY <2>2, <2>5, <2>6 DEF Slot
    <3> QED
      BY <2>1, <2>2, <2>4, <2>6, <3>1 DEF SessionInv, AuthenticatedInRoster
  <2>9. KeysDrawn'
    <3>1. \A k \in responses : k[2] \in Nat /\ k[2] <= handshakes
      BY KeyFacts DEF SessionInv, SessionShape, KeysDrawn
    <3> QED
      BY <2>1, <2>3, <2>4, <2>6, <3>1 DEF KeysDrawn
  <2>10. RunShape'
    BY <2>1 DEF SessionInv, RunShape, RunOk
  <2>11. CommandsSealed' /\ CommandsOnceInOrder' /\ ReceiptsAnswer' /\ ReceiptMatchesCommand'
    BY <2>1 DEF SessionInv, CommandsSealed, CommandsOnceInOrder, ReceiptsAnswer,
                ReceiptMatchesCommand
  <2>12. CountersAgree'
    <3>1. /\ executed[key] = <<>> /\ clients[key[1]].key # key
          /\ \A r \in receipts : r.key # key
      BY <2>4, FreshKey
    <3> QED
      BY <2>1, <2>6, <3>1 DEF CountersAgree, PeerAgrees
  <2> QED
    BY <2>7, <2>8, <2>9, <2>10, <2>11, <2>12 DEF SessionInv
<1> QED
  BY <1>1, <1>2

\* What ble_handle_authenticated_command may do with the roster: it stays
\* sound, the peer's slot stays, and only an admin changes it.
LEMMA HandlerFacts ==
  ASSUME SessionInv, nctx.ready, NEW body \in Bodies,
         NEW out \in ble_handle_authenticated_command(body)
  PROVE  /\ out.status \in Statuses /\ out.receipt \in BOOLEAN
         /\ Sound(out.roster)
         /\ out.roster.slots[nctx.slot] = controllers.slots[nctx.slot]
         /\ out.roster # controllers =>
              /\ controller_store_is_admin(controllers, nctx.slot)
              /\ out.roster.slots[0] = controllers.slots[0]
              /\ out.roster.generation = controllers.generation + 1
<1>1. Sound(controllers)
  BY DEF SessionInv, SessionShape, Sound
<1>2. nctx.slot \in Slots /\ controllers.slots[nctx.slot].role # NONE
  BY DEF SessionInv, AuthenticatedInRoster
<1>3. body \in Body
  BY SessionAssumption
<1>4. body.op \in {"use", "unknown", "add", "revoke"} /\ body.key \in PublicKeys
  BY <1>3 DEF Body
<1>5. CASE body.op \in {"use", "unknown"}
  <2>1. out.status \in Statuses /\ out.receipt \in BOOLEAN /\ out.roster = controllers
    <3>1. CASE body.op = "use"
      <4>1. PICK st \in {"OK", "BUSY", "STATE"} :
              out = [status |-> st, receipt |-> TRUE, roster |-> controllers]
        BY <3>1 DEF ble_handle_authenticated_command
      <4>2. out.status = st /\ out.roster = controllers
        BY <4>1
      <4>3. out.receipt \in BOOLEAN
        BY <4>1, Zenon
      <4> QED
        BY <4>2, <4>3 DEF Statuses
    <3>2. CASE body.op = "unknown"
      <4>1. out = [status |-> "ARGUMENT", receipt |-> FALSE, roster |-> controllers]
        BY <3>2 DEF ble_handle_authenticated_command
      <4>2. out.status = "ARGUMENT" /\ out.roster = controllers
        BY <4>1
      <4>3. out.receipt \in BOOLEAN
        BY <4>1, Zenon
      <4> QED
        BY <4>2, <4>3 DEF Statuses
    <3> QED
      BY <1>5, <3>1, <3>2
  <2> QED
    BY <1>1, <2>1
<1>7. CASE body.op = "add"
  <2> DEFINE verdict == ble_handle_controller_add(controllers, nctx.slot, body.key, body.role)
             cand == controller_store_add(controllers, body.key, body.role)
  <2>1. out \in Changed(body, verdict) /\ Candidate(body) = cand
    BY <1>7 DEF ble_handle_authenticated_command, Candidate
  <2>2. verdict \in Statuses
    BY DEF ble_handle_controller_add, Statuses
  <2>3. CASE verdict = "OK"
    <3>1. /\ body.key # ZeroKey /\ body.role \in {OPERATOR, ADMIN}
          /\ ~controller_store_find(controllers, body.key) /\ FreeSlots(controllers) # {}
          /\ controller_store_is_admin(controllers, nctx.slot)
      BY <2>3, AddCommandChecks
    <3>2. /\ Sound(cand) /\ cand.generation = controllers.generation + 1
          /\ cand.slots[0] = controllers.slots[0]
          /\ cand.slots[nctx.slot] = controllers.slots[nctx.slot]
      BY <1>1, <1>2, <1>4, <3>1, AddSound
    <3> HIDE DEF verdict, cand
    <3>3. /\ out.status \in {"OK", "STATE"} /\ out.receipt = TRUE
          /\ out.roster \in {cand, controllers}
      BY <2>1, <2>3 DEF Changed
    <3>4. out.status \in Statuses /\ out.receipt \in BOOLEAN
      BY <3>3 DEF Statuses
    <3> QED
      BY <1>1, <3>1, <3>2, <3>3, <3>4
  <2>4. CASE verdict # "OK"
    <3> HIDE DEF verdict
    <3>1. out.status = verdict /\ out.receipt = TRUE /\ out.roster = controllers
      BY <2>1, <2>4 DEF Changed
    <3> QED
      BY <1>1, <2>2, <3>1
  <2> QED
    BY <2>3, <2>4
<1>8. CASE body.op = "revoke"
  <2> DEFINE verdict == ble_handle_controller_revoke(controllers, nctx.slot, body.slot)
             cand == controller_store_revoke(controllers, body.slot)
  <2>1. out \in Changed(body, verdict) /\ Candidate(body) = cand
    BY <1>8 DEF ble_handle_authenticated_command, Candidate
  <2>2. verdict \in Statuses
    BY DEF ble_handle_controller_revoke, Statuses
  <2>3. CASE verdict = "OK"
    <3>1. /\ Sound(cand) /\ cand.generation = controllers.generation + 1
          /\ cand.slots[0] = controllers.slots[0]
          /\ cand.slots[nctx.slot] = controllers.slots[nctx.slot]
          /\ controller_store_is_admin(controllers, nctx.slot)
      BY <1>1, <1>2, <2>3, RevokeCommandSound
    <3> HIDE DEF verdict, cand
    <3>2. /\ out.status \in {"OK", "STATE"} /\ out.receipt = TRUE
          /\ out.roster \in {cand, controllers}
      BY <2>1, <2>3 DEF Changed
    <3>3. out.status \in Statuses /\ out.receipt \in BOOLEAN
      BY <3>2 DEF Statuses
    <3> QED
      BY <1>1, <3>1, <3>2, <3>3
  <2>4. CASE verdict # "OK"
    <3> HIDE DEF verdict
    <3>1. out.status = verdict /\ out.receipt = TRUE /\ out.roster = controllers
      BY <2>1, <2>4 DEF Changed
    <3> QED
      BY <1>1, <2>2, <3>1
  <2> QED
    BY <2>3, <2>4
<1> QED
  BY <1>4, <1>5, <1>7, <1>8

\* An ENCRYPTED frame that opens: the command runs, its receipt is sealed.
LEMMA EncryptedFrameInv ==
  ASSUME SessionInv, NEW p \in commands, EncryptedFrame(p)
  PROVE  SessionInv' /\ RosterStep
<1> DEFINE k == nctx.key
           c == nctx.key[1]
<1>1. nctx.ready /\ p.nonce = nctx.receive_nonce /\ p.key = k
  BY DEF EncryptedFrame, noise_decrypt_packet
<1>2. PICK out \in ble_handle_authenticated_command(p.body) :
        /\ controllers' = out.roster
        /\ Answer(out)
        /\ executed' = [executed EXCEPT ![nctx.key] =
                          Append(@, [body |-> p.body, status |-> out.status])]
  BY DEF EncryptedFrame
<1>3. UNCHANGED <<handshakes, clients, responses, commands>>
  BY DEF EncryptedFrame
<1>4. /\ k \in SessionKeys /\ p.body \in Bodies /\ c \in Clients
      /\ p = [key |-> k, nonce |-> nctx.receive_nonce, body |-> p.body]
  <2>1. p \in [key : SessionKeys, nonce : 0..MaxSent, body : Bodies]
    BY DEF SessionInv, SessionShape
  <2> QED
    BY <1>1, <2>1, KeyFacts
<1>5. /\ out.status \in Statuses /\ out.receipt \in BOOLEAN
      /\ Sound(out.roster)
      /\ out.roster.slots[nctx.slot] = controllers.slots[nctx.slot]
      /\ out.roster # controllers =>
           /\ controller_store_is_admin(controllers, nctx.slot)
           /\ out.roster.slots[0] = controllers.slots[0]
           /\ out.roster.generation = controllers.generation + 1
  BY <1>1, <1>4, HandlerFacts
<1> DEFINE entry == [body |-> p.body, status |-> out.status]
           Entry == [body : Bodies, status : Statuses]
           L == nctx.receive_nonce
<1>6. /\ L \in 0..MaxSent /\ nctx.send_nonce \in 0..MaxSent /\ MaxSent \in Nat
      /\ executed \in [SessionKeys -> Seq(Entry)] /\ executed[k] \in Seq(Entry)
      /\ Len(executed[k]) = L
  BY <1>1, <1>4, SessionAssumption DEF SessionInv, SessionShape, CountersAgree
\* The peer has sent this command and no later one, and has no receipt for it.
<1>7. /\ clients[c].key = k /\ L < clients[c].send_nonce
      /\ clients[c].send_nonce \in 0..MaxSent /\ clients[c].receive_nonce \in 0..MaxSent
      /\ clients[c].send_nonce <= clients[c].receive_nonce + 1
      /\ clients[c].receive_nonce <= nctx.send_nonce
      /\ nctx.send_nonce = L
  <2>1. clients[c].key = k /\ L < clients[c].send_nonce
    BY <1>1, <1>4 DEF SessionInv, CommandsSealed
  <2>2. clients[c] \in ClientRecord /\ RunOk(c, clients[c]) /\ PeerAgrees(clients[c])
    BY <1>1, <1>4, RunFacts
  <2>3. clients[c].send_nonce \in 0..MaxSent /\ clients[c].receive_nonce \in 0..MaxSent
    BY <2>2 DEF ClientRecord
  <2> QED
    BY <1>6, <2>1, <2>2, <2>3 DEF RunOk, PeerAgrees
<1>8. /\ entry \in Entry /\ entry.body = p.body /\ entry.status = out.status
  BY <1>4, <1>5
<1> HIDE DEF entry, Entry
<1>9. /\ executed' \in [SessionKeys -> Seq(Entry)]
      /\ \A j \in SessionKeys \ {k} : executed'[j] = executed[j]
      /\ Len(executed'[k]) = L + 1
      /\ \A i \in 1..L : executed'[k][i] = executed[k][i]
      /\ executed'[k][L + 1] = entry
  <2>1. executed' = [executed EXCEPT ![k] = Append(executed[k], entry)]
    BY <1>2, <1>6 DEF entry
  <2>2. /\ Append(executed[k], entry) \in Seq(Entry)
        /\ Len(Append(executed[k], entry)) = L + 1
        /\ \A i \in 1..L : Append(executed[k], entry)[i] = executed[k][i]
        /\ Append(executed[k], entry)[L + 1] = entry
    BY <1>6, <1>8, AppendProperties
  <2> QED
    BY <1>4, <1>6, <2>1, <2>2
\* What the answer makes of the counters and the receipts.
<1> DEFINE ack == [key |-> k, nonce |-> nctx.send_nonce, status |-> out.status]
<1>10. /\ nctx'.ready = nctx.ready /\ nctx'.key = k /\ nctx'.slot = nctx.slot
       /\ nctx'.role = nctx.role /\ nctx'.receive_nonce = L + 1
       /\ nctx'.send_nonce \in {L, L + 1}
       /\ receipts' \subseteq receipts \cup {ack}
       /\ nctx'.send_nonce = L => receipts' = receipts
       /\ nctx' \in [ready : BOOLEAN, slot : 0..(LastSlot + 1), role : Roles,
                     key : SessionKeys \cup {NoSessionKey}, receive_nonce : 0..MaxSent,
                     send_nonce : 0..MaxSent]
  <2>1. /\ Received = L + 1 /\ Acknowledged = L + 1 /\ L + 1 \in 0..MaxSent
    BY <1>6, <1>7 DEF Received, Acknowledged
  <2>2. nctx \in [ready : BOOLEAN, slot : 0..(LastSlot + 1), role : Roles,
                  key : SessionKeys \cup {NoSessionKey}, receive_nonce : 0..MaxSent,
                  send_nonce : 0..MaxSent]
    BY DEF SessionInv, SessionShape
  <2>3. CASE /\ receipts' = receipts \cup {ack}
             /\ nctx' = [nctx EXCEPT !.receive_nonce = L + 1, !.send_nonce = L + 1]
    <3>1. /\ nctx'.key = k /\ nctx'.slot = nctx.slot /\ nctx'.ready = nctx.ready
          /\ nctx'.role = nctx.role /\ nctx'.receive_nonce = L + 1
          /\ nctx'.send_nonce = L + 1
      BY <2>2, <2>3
    <3>2. nctx' \in [ready : BOOLEAN, slot : 0..(LastSlot + 1), role : Roles,
                     key : SessionKeys \cup {NoSessionKey}, receive_nonce : 0..MaxSent,
                     send_nonce : 0..MaxSent]
      BY <2>1, <2>2, <2>3
    <3>3. nctx'.send_nonce # L
      BY <1>6, <3>1
    <3> QED
      BY <2>3, <3>1, <3>2, <3>3
  <2>4. CASE nctx' = [nctx EXCEPT !.receive_nonce = L + 1] /\ receipts' = receipts
    BY <1>6, <1>7, <2>1, <2>2, <2>4
  <2> QED
    BY <1>2, <2>1, <2>3, <2>4 DEF Answer
<1>11. ack.key = k /\ ack.nonce = L /\ ack.status = out.status
       /\ ack \in [key : SessionKeys, nonce : 0..MaxSent, status : Statuses]
  BY <1>4, <1>5, <1>6, <1>7
<1> HIDE DEF ack
<1>12. SessionShape'
  BY <1>2, <1>3, <1>5, <1>9, <1>10, <1>11 DEF SessionInv, SessionShape, Sound, Entry
<1>13. roster_valid(controllers'.slots) /\ AuthenticatedInRoster'
  BY <1>1, <1>2, <1>5, <1>10 DEF SessionInv, AuthenticatedInRoster, Sound
<1>14. KeysDrawn' /\ RunShape' /\ CommandsSealed'
  BY <1>3, <1>10 DEF SessionInv, KeysDrawn, RunShape, RunOk, CommandsSealed
<1>15. CommandsOnceInOrder'
  <2> SUFFICES ASSUME NEW j \in SessionKeys
               PROVE  /\ executed'[j] # <<>> => clients[j[1]].key = j
                      /\ \A i \in 1..Len(executed'[j]) :
                           [key |-> j, nonce |-> i - 1, body |-> executed'[j][i].body] \in commands
    BY <1>3 DEF CommandsOnceInOrder
  <2>1. CASE j # k
    BY <1>9, <2>1 DEF SessionInv, CommandsOnceInOrder
  <2>2. CASE j = k
    <3> SUFFICES ASSUME NEW i \in 1..(L + 1)
                 PROVE  [key |-> k, nonce |-> i - 1, body |-> executed'[k][i].body] \in commands
      BY <1>7, <1>9, <2>2
    <3>1. CASE i = L + 1
      BY <1>4, <1>6, <1>8, <1>9, <3>1
    <3>2. CASE i # L + 1
      <4>1. i \in 1..L
        BY <1>6, <3>2
      <4> QED
        BY <1>4, <1>6, <1>9, <4>1 DEF SessionInv, CommandsOnceInOrder
    <3> QED
      BY <3>1, <3>2
  <2> QED
    BY <2>1, <2>2
<1>16. ReceiptsAnswer'
  <2> SUFFICES ASSUME NEW r \in receipts'
               PROVE  /\ r.nonce + 1 \in 1..Len(executed'[r.key])
                      /\ executed'[r.key][r.nonce + 1].status = r.status
    BY DEF ReceiptsAnswer
  <2>1. CASE r \in receipts
    <3>1. /\ r.key \in SessionKeys /\ r.nonce \in 0..MaxSent
          /\ r.nonce + 1 \in 1..Len(executed[r.key])
          /\ executed[r.key][r.nonce + 1].status = r.status
      BY <2>1 DEF SessionInv, SessionShape, ReceiptsAnswer
    <3>2. CASE r.key # k
      BY <1>9, <3>1, <3>2
    <3>3. CASE r.key = k
      <4>1. r.nonce + 1 \in 1..L /\ r.nonce + 1 \in 1..(L + 1)
        BY <1>6, <3>1, <3>3
      <4> QED
        BY <1>9, <3>1, <3>3, <4>1
    <3> QED
      BY <3>2, <3>3
  <2>2. CASE r = ack
    <3>1. r.nonce + 1 = L + 1 /\ L + 1 \in 1..(L + 1)
      BY <1>6, <1>11, <2>2
    <3> QED
      BY <1>8, <1>9, <1>11, <2>2, <3>1
  <2> QED
    BY <1>10, <2>1, <2>2
<1>17. CountersAgree'
  <2>1. \A r \in receipts' : r.key = k => r.nonce < nctx'.send_nonce
    <3>1. \A r \in receipts : r.key = k => r.nonce \in 0..MaxSent /\ r.nonce < L
      BY <1>1, <1>7 DEF SessionInv, SessionShape, CountersAgree
    <3> QED
      BY <1>6, <1>10, <1>11, <3>1
  <2>2. /\ clients[c].receive_nonce <= nctx'.send_nonce
        /\ clients[c].send_nonce <= L + 1
    BY <1>6, <1>7, <1>10, SMTT(60)
  <2> QED
    BY <1>3, <1>6, <1>9, <1>10, <2>1, <2>2 DEF CountersAgree, PeerAgrees
<1>18. ReceiptMatchesCommand'
  <2> SUFFICES ASSUME NEW d \in Clients, NEW i \in 1..Len(clients[d].accepted)
               PROVE  /\ i <= Len(executed'[clients[d].key])
                      /\ executed'[clients[d].key][i].status = clients[d].accepted[i]
    BY <1>3 DEF ReceiptMatchesCommand
  <2> DEFINE j == clients[d].key
  <2>1. /\ i <= Len(executed[j])
        /\ executed[j][i].status = clients[d].accepted[i]
    BY DEF SessionInv, ReceiptMatchesCommand
  <2>2. clients[d] \in ClientRecord /\ RunOk(d, clients[d])
    BY RunFacts
  <2>3. i \in Nat \ {0} /\ Len(clients[d].accepted) = clients[d].receive_nonce
    BY <2>2 DEF ClientRecord, RunOk
  <2>4. j \in SessionKeys
    <3>1. clients[d].receive_nonce > 0
      BY <2>2, <2>3 DEF ClientRecord
    <3> QED
      BY <2>2, <3>1 DEF ClientRecord, RunOk
  <2> HIDE DEF j
  <2>5. CASE j # k
    BY <1>9, <2>1, <2>4, <2>5 DEF j
  <2>6. CASE j = k
    <3>1. i \in 1..L /\ i <= L + 1
      BY <1>6, <2>1, <2>3, <2>6
    <3> QED
      BY <1>9, <2>1, <2>6, <3>1 DEF j
  <2> QED
    BY <2>5, <2>6
<1>19. RosterStep
  <2>1. nctx.slot \in Slots /\ controllers.slots[nctx.slot].public_key = StaticKey(c)
    BY <1>1 DEF SessionInv, AuthenticatedInRoster
  <2> QED
    BY <1>1, <1>2, <1>5, <2>1 DEF RosterStep, controller_store_is_admin, Sound
<1> QED
  BY <1>12, <1>13, <1>14, <1>15, <1>16, <1>17, <1>18, <1>19 DEF SessionInv

-----------------------------------------------------------------------------
\* Every step keeps the invariant, and changes the roster only as an admin
\* may.
LEMMA SessionInvStep ==
  ASSUME SessionInv, [Next]_vars
  PROVE  SessionInv' /\ RosterStep
<1>1. ASSUME NEW c \in Clients, begin_handshake(c) \/ Close(c)
      PROVE  SessionInv' /\ RosterStep
  BY <1>1, PhaseInv DEF begin_handshake, Close, RosterStep
<1>2. ASSUME NEW c \in Clients, complete_handshake(c)
      PROVE  SessionInv' /\ RosterStep
  BY <1>2, CompleteInv DEF complete_handshake, RosterStep
<1>3. ASSUME NEW c \in Clients, NEW body \in Bodies, encrypt_packet(c, body)
      PROVE  SessionInv' /\ RosterStep
  BY <1>3, EncryptInv DEF encrypt_packet, RosterStep
<1>4. ASSUME NEW c \in Clients, verify_transport_ack(c)
      PROVE  SessionInv' /\ RosterStep
  BY <1>4, AckInv DEF verify_transport_ack, RosterStep
<1>5. ASSUME NEW c \in Clients, noise_ik_handshake_respond(c)
      PROVE  SessionInv' /\ RosterStep
  BY <1>5, RespondInv DEF noise_ik_handshake_respond, RosterStep
<1>6. CASE HandshakeReset
  BY <1>6, NoSessionInv DEF HandshakeReset, air, RosterStep
<1>7. ASSUME NEW p \in commands, EncryptedFrame(p)
      PROVE  SessionInv' /\ RosterStep
  BY <1>7, EncryptedFrameInv
<1>8. CASE UNCHANGED vars
  BY <1>8
  DEF vars, SessionInv, SessionShape, AuthenticatedInRoster, KeysDrawn, RunShape, RunOk,
      CommandsSealed, CommandsOnceInOrder, ReceiptsAnswer, CountersAgree, PeerAgrees,
      ReceiptMatchesCommand, RosterStep
<1> QED
  BY <1>1, <1>2, <1>3, <1>4, <1>5, <1>6, <1>7, <1>8 DEF Next

\* Receipts under one key and nonce are one receipt: both are the answer to
\* the same command.
LEMMA NonceFollows == SessionInv => NonceNeverReused
<1> SUFFICES ASSUME SessionInv PROVE NonceNeverReused
  OBVIOUS
<1>1. ASSUME NEW r \in receipts, NEW q \in receipts, r.key = q.key, r.nonce = q.nonce
      PROVE  r = q
  <2>1. /\ r \in [key : SessionKeys, nonce : 0..MaxSent, status : Statuses]
        /\ q \in [key : SessionKeys, nonce : 0..MaxSent, status : Statuses]
    BY DEF SessionInv, SessionShape
  <2>2. r.status = q.status
    BY <1>1 DEF SessionInv, ReceiptsAnswer
  <2> QED
    BY <1>1, <2>1, <2>2
<1> QED
  BY <1>1 DEF SessionInv, CommandsSealed, CountersAgree, NonceNeverReused

\* SessionInv is an invariant of the session.
THEOREM SessionInvariant == Spec => []SessionInv
<1>1. SessionInv /\ [Next]_vars => SessionInv'
  BY SessionInvStep
<1> QED
  BY SessionInvInit, <1>1, PTL DEF Spec

\* An open session's slot and role are those of its peer in the roster: there
\* is no command window after a revocation.
THEOREM AuthenticatedHolds == Spec => []AuthenticatedInRoster
<1>1. SessionInv => AuthenticatedInRoster
  BY DEF SessionInv
<1> QED
  BY SessionInvariant, <1>1, PTL

\* Commands are executed once, in order, and only from the holder of the key
\* (noise_decrypt_packet).
THEOREM CommandsOnceHolds == Spec => []CommandsOnceInOrder
<1>1. SessionInv => CommandsOnceInOrder
  BY DEF SessionInv
<1> QED
  BY SessionInvariant, <1>1, PTL

\* A client never takes a stale receipt for the answer to its command.
THEOREM ReceiptMatchHolds == Spec => []ReceiptMatchesCommand
<1>1. SessionInv => ReceiptMatchesCommand
  BY DEF SessionInv
<1> QED
  BY SessionInvariant, <1>1, PTL

\* No key and nonce seal two packets.
THEOREM NonceHolds == Spec => []NonceNeverReused
BY SessionInvariant, NonceFollows, PTL

\* Only an admin's command changes the roster, and it leaves the recovery
\* admin and the admin's own slot in place.
THEOREM RosterChangeHolds == Spec => RosterChangedByAdmin
<1>1. SessionInv /\ [Next]_vars => [RosterStep]_vars
  BY SessionInvStep
<1> QED
  BY SessionInvariant, <1>1, PTL DEF Spec, RosterChangedByAdmin
=============================================================================
