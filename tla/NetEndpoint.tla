----------------------------- MODULE NetEndpoint -----------------------------
(***************************************************************************)
(* firmware/net_endpoint.c: the state machine that keeps the device on the *)
(* Wi-Fi network (net_endpoint_poll, once per turn of the main loop) and   *)
(* the one TCP session with its length-prefixed frames (lwIP callbacks).   *)
(* Both run inside the main loop, so a callback is one step.               *)
(*                                                                         *)
(* One unit of time is one turn of the loop.  The driver, lwIP and the     *)
(* peer are external.  A byte is a digit of a number system of base Base.  *)
(***************************************************************************)
EXTENDS Integers, Sequences

CONSTANTS
  ClockMod,        \* the clock wraps here: 2^32
  FirstDelay,      \* 3000 ms
  MaxDelay,        \* NET_RETRY_MAX_MS_
  ConnectTimeout,  \* NET_CONNECT_TIMEOUT_MS_
  Base,            \* 256
  PrefixLen,       \* 4
  FrameMax,        \* NET_FRAME_MAX_
  MaxSegment,      \* TCP_MSS: no pbuf of a chain is longer
  Chains,          \* the chains of pbufs that lwIP passes on, as their lengths
  SndBuf,          \* TCP_SND_BUF
  Streams,         \* what a peer sends over one connection
  OwnerStream,     \* what the owner's tool sends, among them
  Responses        \* answers of command_process_frame; <<>> is none

Bytes == 0..(Base - 1)

ASSUME NetAssumption ==
  /\ {ClockMod, FirstDelay, MaxDelay, ConnectTimeout, Base, PrefixLen, FrameMax,
      MaxSegment, SndBuf} \subseteq Nat \ {0}
  /\ FirstDelay <= MaxDelay
  /\ 2 * MaxDelay < ClockMod /\ 2 * ConnectTimeout < ClockMod
  /\ PrefixLen + MaxSegment - 1 <= FrameMax
  /\ Chains \subseteq Seq(1..MaxSegment)
  /\ Streams \subseteq Seq(Bytes) /\ OwnerStream \in Streams /\ Responses \subseteq Seq(Bytes)

VARIABLES
  now,         \* usb_now_ms
  net_state,
  retry_at,    \* net_retry_at_ms
  delay,       \* net_retry_delay_ms
  listener,    \* net_listener is not NULL
  session,     \* the TCP session, see NoSession
  record,      \* flash holds a valid radio record
  healthy,     \* access point, driver and lwIP's memory are all fine
  joining,     \* the driver was told to join
  link,        \* "down" or "join" (associated)
  have_ip      \* the interface has an address, which it keeps when the link
               \* goes down, until the lease runs out

wifi == <<net_state, retry_at, delay, listener>>
driver == <<healthy, joining, link, have_ip>>
vars == <<now, wifi, session, record, driver>>

(***************************************************************************)
(* Histories of a session: stream, what the peer sends; heard, how much of *)
(* it has arrived; handled, the frames given to command_process_frame;     *)
(* answers, its responses; sent, the bytes given to tcp_write, of which    *)
(* the last inflight have not been acknowledged; overrun, whether net_rx   *)
(* was ever written beyond its end.                                        *)
(***************************************************************************)
NoSession ==
  [pcb |-> FALSE, rx |-> <<>>, pending_tx |-> <<>>, overflow |-> FALSE,
   stream |-> <<>>, heard |-> 0, handled |-> <<>>, answers |-> <<>>, sent |-> <<>>,
   inflight |-> 0, overrun |-> FALSE]

-----------------------------------------------------------------------------
\* net_endpoint_poll

After(d) == (now' + d) % ClockMod

\* (int32_t)(now_ms - at) >= 0
Reached(at) == (now' - at) % ClockMod < ClockMod \div 2

Smaller(a, b) == IF a < b THEN a ELSE b

BackOff ==
  /\ retry_at' = After(delay)
  /\ delay' = Smaller(2 * delay, MaxDelay)

Keep == UNCHANGED <<listener, session, record, driver>>

PollNoRecord ==
  /\ net_state = "NO_RECORD"
  /\ UNCHANGED wifi /\ Keep

PollWaiting ==
  /\ net_state = "RETRY_WAIT" /\ ~Reached(retry_at)
  /\ UNCHANGED wifi /\ Keep

\* The driver reconnected by itself.
PollReconnected ==
  /\ net_state = "RETRY_WAIT" /\ Reached(retry_at) /\ have_ip
  /\ net_state' = "CONNECTING" /\ retry_at' = After(ConnectTimeout)
  /\ UNCHANGED delay /\ Keep

\* Seeded fault: a record that cannot be read does not end the retries.
MayConnect_unread == TRUE

\* radio_provision_flash_read, before every attempt
MayConnect == record

PollCleared ==
  /\ net_state = "RETRY_WAIT" /\ Reached(retry_at) /\ ~have_ip /\ ~MayConnect
  /\ net_state' = "NO_RECORD"
  /\ UNCHANGED <<retry_at, delay>> /\ Keep

\* cyw43_arch_wifi_connect_async; when it returns an error the driver may
\* have begun to join all the same.
PollConnect ==
  /\ net_state = "RETRY_WAIT" /\ Reached(retry_at) /\ ~have_ip /\ MayConnect
  /\ \/ /\ joining' = TRUE
        /\ net_state' = "CONNECTING" /\ retry_at' = After(ConnectTimeout)
        /\ UNCHANGED delay
     \/ ~healthy /\ BackOff /\ joining' \in BOOLEAN /\ UNCHANGED net_state
  /\ UNCHANGED <<listener, session, record, healthy, link, have_ip>>

\* Seeded fault: a second listener on the same port, which tcp_bind refuses.
net_start_listener_locked_again == {~listener}

\* The possible results: an existing listener is kept, a new one may fail.
net_start_listener_locked == IF listener \/ healthy THEN {TRUE} ELSE BOOLEAN

PollListen ==
  /\ net_state = "CONNECTING" /\ have_ip
  /\ TRUE \in net_start_listener_locked
  /\ listener' = TRUE /\ delay' = FirstDelay /\ net_state' = "READY"
  /\ UNCHANGED <<retry_at, session, record, driver>>

\* No address yet, or no listener: go on, or after the timeout start afresh,
\* but never while the driver is associated.  cyw43_arch_disable_sta_mode
\* removes the interface with its address.
PollConnecting ==
  /\ net_state = "CONNECTING"
  /\ have_ip => FALSE \in net_start_listener_locked
  /\ IF Reached(retry_at) /\ link = "down"
     THEN net_state' = "RETRY_WAIT" /\ BackOff /\ joining' = FALSE /\ have_ip' = FALSE
     ELSE UNCHANGED <<net_state, retry_at, delay, joining, have_ip>>
  /\ UNCHANGED <<listener, session, record, healthy, link>>

PollReady ==
  /\ net_state = "READY" /\ have_ip
  /\ UNCHANGED wifi /\ Keep

\* The address is lost: the session is closed, the listener stays.
PollLost ==
  /\ net_state = "READY" /\ ~have_ip
  /\ session' = NoSession
  /\ net_state' = "CONNECTING" /\ retry_at' = After(ConnectTimeout)
  /\ UNCHANGED <<delay, listener, record, driver>>

net_endpoint_poll ==
  /\ now' = (now + 1) % ClockMod
  /\ \/ PollNoRecord \/ PollWaiting \/ PollReconnected \/ PollCleared \/ PollConnect
     \/ PollListen \/ PollConnecting \/ PollReady \/ PollLost

-----------------------------------------------------------------------------
\* The radio, the network and the radio record, seen from the endpoint.

Associate ==
  joining /\ link = "down" /\ link' = "join" /\ UNCHANGED <<healthy, joining, have_ip>>

Lease ==
  link = "join" /\ ~have_ip /\ have_ip' = TRUE /\ UNCHANGED <<healthy, joining, link>>

\* The driver may or may not go on trying to join.
LinkLost ==
  link = "join" /\ link' = "down" /\ joining' \in BOOLEAN /\ UNCHANGED <<healthy, have_ip>>

\* The lease cannot be renewed and runs out.
LeaseLost == have_ip /\ have_ip' = FALSE /\ UNCHANGED <<healthy, joining, link>>

Driver ==
  /\ \/ healthy /\ (Associate \/ Lease)
     \/ ~healthy /\ (LinkLost \/ LeaseLost)
     \/ link = "down" /\ LeaseLost
     \/ healthy' = ~healthy /\ UNCHANGED <<joining, link, have_ip>>
  /\ UNCHANGED <<now, wifi, session, record>>

\* The peers and the device can exchange packets.
Reachable == link = "join" /\ have_ip

\* SET_RADIO and CLEAR_RADIO.
RadioCommand ==
  /\ record' = ~record
  /\ UNCHANGED <<now, wifi, session, driver>>

-----------------------------------------------------------------------------
\* The session.  The operators below work on a session record, as the
\* functions of the code do on the static variables.

\* n shifted right by 0 to PrefixLen digits
Shifted(n) ==
  LET high[k \in 0..PrefixLen] == IF k = 0 THEN n ELSE high[k - 1] \div Base
  IN high

Encode(payload) ==
  [i \in 1..PrefixLen |-> Shifted(Len(payload))[PrefixLen - i] % Base] \o payload

\* the number that the first i bytes of rx are
PrefixValues(rx) ==
  LET value[i \in 0..PrefixLen] == IF i = 0 THEN 0 ELSE value[i - 1] * Base + rx[i]
  IN value

flen(rx) == PrefixValues(rx)[PrefixLen]

\* Seeded fault: the limit forgets that the prefix is in the buffer too.
BadLength_unframed(n) == n = 0 \/ n > FrameMax

BadLength(n) == n = 0 \/ n > FrameMax - PrefixLen

\* refused: tcp_write returns an error.  Only the acknowledgement of something
\* in flight calls net_sent_cb again; otherwise the receipt stays pending until
\* the session ends.
net_sent_cb(s, refused) ==
  LET n == Smaller(Len(s.pending_tx), SndBuf - s.inflight)
  IN IF n = 0 \/ refused THEN s
     ELSE [s EXCEPT !.sent = @ \o SubSeq(s.pending_tx, 1, n),
                    !.inflight = @ + n,
                    !.pending_tx = SubSeq(@, n + 1, Len(@))]

\* Seeded fault: the next receipt replaces what is left of the last one.
Outrun_never(s) == FALSE

Outrun(s) == s.pending_tx # <<>>

net_process_frame(s, response, refused) ==
  LET done == [s EXCEPT !.rx = <<>>,
                        !.handled = Append(@, SubSeq(s.rx, PrefixLen + 1, Len(s.rx)))]
  IN IF response = <<>> THEN done
     ELSE IF Outrun(s) THEN NoSession
     ELSE net_sent_cb([done EXCEPT !.pending_tx = Encode(response),
                                   !.answers = Append(@, response)], refused)

\* Seeded fault: the prefix is not counted.
Complete_early(rx) == Len(rx) > flen(rx)

Complete(rx) == Len(rx) = PrefixLen + flen(rx)

\* One byte of net_recv_cb; after the session is closed the rest is skipped.
ReceiveByte(s, b, response, refused) ==
  LET got == [s EXCEPT !.rx = Append(@, b), !.heard = @ + 1,
                       !.overrun = @ \/ Len(s.rx) >= FrameMax]
  IN IF ~s.pcb THEN s
     ELSE IF Len(s.rx) < PrefixLen
     THEN [got EXCEPT !.overflow = @ \/ (Len(got.rx) = PrefixLen /\ BadLength(flen(got.rx)))]
     ELSE IF Complete(got.rx) THEN
          LET k == Len(s.handled) + 1 IN net_process_frame(got, response[k], refused[k])
     ELSE got

\* The session before the bytes of a pbuf and after each of them.
ByteByByte(s, len, response, refused) ==
  LET st[i \in 0..len] ==
        IF i = 0 THEN s ELSE ReceiveByte(st[i - 1], s.stream[s.heard + i], response, refused)
  IN st

\* A pbuf is read to its end, overflow or not; the next one is then skipped.
ReceivePbuf(s, len, response, refused) ==
  IF s.overflow THEN s ELSE ByteByByte(s, len, response, refused)[len]

\* The session before the pbufs of a chain and after each of them.
PbufByPbuf(chain, response, refused) ==
  LET st[i \in 0..Len(chain)] ==
        IF i = 0 THEN session ELSE ReceivePbuf(st[i - 1], chain[i], response, refused)
  IN st

Received(chain, response, refused) ==
  LET s == PbufByPbuf(chain, response, refused)[Len(chain)]
  IN IF s.overflow THEN [NoSession EXCEPT !.overrun = s.overrun] ELSE s

\* A frame has at least one byte besides its prefix.
MaxFrames == Len(session.stream) \div (PrefixLen + 1)

\* How many bytes the first i pbufs of a chain hold.
Totals(chain) ==
  LET total[i \in 0..Len(chain)] == IF i = 0 THEN 0 ELSE total[i - 1] + chain[i]
  IN total

net_recv_cb ==
  /\ session.pcb /\ Reachable
  /\ \E chain \in Chains, refused \in [1..MaxFrames -> BOOLEAN],
        response \in [1..MaxFrames -> Responses] :
       /\ session.heard + Totals(chain)[Len(chain)] <= Len(session.stream)
       /\ session' = Received(chain, response, refused)
  /\ UNCHANGED <<now, wifi, record, driver>>

\* The peer has closed the connection.
RemoteClosed ==
  /\ session.pcb /\ Reachable
  /\ session' = NoSession
  /\ UNCHANGED <<now, wifi, record, driver>>

\* An acknowledgement of n bytes.
Acknowledge ==
  /\ session.pcb /\ Reachable
  /\ \E n \in 1..session.inflight, refused \in BOOLEAN :
       session' = net_sent_cb([session EXCEPT !.inflight = @ - n], refused)
  /\ UNCHANGED <<now, wifi, record, driver>>

\* Seeded fault: the buffers keep what they hold.
Errored_keeps == [NoSession EXCEPT !.pending_tx = session.pending_tx]

Errored == NoSession

\* lwIP gives the connection up: reset, or too many retransmissions.
net_err_cb ==
  /\ session.pcb
  /\ session' = Errored
  /\ UNCHANGED <<now, wifi, record, driver>>

\* A connection while there is a session is aborted and changes nothing.
net_accept_cb(stream) ==
  /\ listener /\ Reachable
  /\ ~session.pcb /\ session.pending_tx = <<>>
  /\ session' = [NoSession EXCEPT !.pcb = TRUE, !.stream = stream]
  /\ UNCHANGED <<now, wifi, record, driver>>

-----------------------------------------------------------------------------
\* net_endpoint_start, at boot
StartState == IF record THEN "RETRY_WAIT" ELSE "NO_RECORD"

Init ==
  /\ now = 0 /\ retry_at = 0 /\ delay = FirstDelay
  /\ record \in BOOLEAN
  /\ net_state = StartState
  /\ listener = FALSE
  /\ session = NoSession
  /\ healthy \in BOOLEAN /\ joining = FALSE /\ link = "down" /\ have_ip = FALSE

\* Power is lost, or the watchdog bites; only the flash survives.
PowerCycle ==
  /\ now' = 0 /\ retry_at' = 0 /\ delay' = FirstDelay
  /\ net_state' = StartState
  /\ listener' = FALSE
  /\ session' = NoSession
  /\ joining' = FALSE /\ link' = "down" /\ have_ip' = FALSE
  /\ UNCHANGED <<record, healthy>>

Next ==
  \/ net_endpoint_poll
  \/ Driver \/ RadioCommand \/ PowerCycle
  \/ \E stream \in Streams : net_accept_cb(stream)
  \/ net_recv_cb \/ RemoteClosed \/ Acknowledge \/ net_err_cb

(***************************************************************************)
(* The main loop goes on turning.  A healthy driver that is told to join   *)
(* again and again succeeds once, and gets a lease when it stays joined; a *)
(* lease runs out when the link stays down (lwIP counts its age).          *)
(* The owner's tool tries to connect again and again.  Nothing is assumed  *)
(* of other peers or of the network.                                       *)
(***************************************************************************)
Spec ==
  /\ Init /\ [][Next]_vars
  /\ WF_vars(net_endpoint_poll)
  /\ SF_vars(Driver /\ healthy /\ Associate)
  /\ WF_vars(Driver /\ healthy /\ Lease)
  /\ WF_vars(Driver /\ link = "down" /\ LeaseLost)
  /\ SF_vars(net_accept_cb(OwnerStream))

-----------------------------------------------------------------------------
(***************************************************************************)
(* Types; and net_rx is never overrun, whatever the lengths a peer gives:  *)
(* net_recv_cb goes on filling it to the end of a pbuf after a bad one.    *)
(***************************************************************************)
NetTypeOK ==
  /\ now \in 0..(ClockMod - 1) /\ retry_at \in 0..(ClockMod - 1)
  /\ net_state \in {"NO_RECORD", "RETRY_WAIT", "CONNECTING", "READY"}
  /\ delay \in FirstDelay..MaxDelay
  /\ {listener, record, healthy, joining, have_ip, session.pcb} \subseteq BOOLEAN
  /\ link \in {"down", "join"}
  /\ ~session.overrun
  /\ session.inflight \in 0..SndBuf

\* The first i payloads, framed, one after the other; and all of them.
FramedParts(payloads) ==
  LET bytes[i \in 0..Len(payloads)] ==
        IF i = 0 THEN <<>> ELSE bytes[i - 1] \o Encode(payloads[i])
  IN bytes

Framed(payloads) == FramedParts(payloads)[Len(payloads)]

(***************************************************************************)
(* However the stream was cut into segments, the frames handled so far are *)
(* exactly those the peer framed, and no complete frame is left waiting    *)
(* (net_recv_cb, net_process_frame; _send_frame of pico_tcp_send.py).      *)
(***************************************************************************)
FramesExact ==
  session.pcb =>
    /\ SubSeq(session.stream, 1, session.heard) =
         Framed(session.handled) \o session.rx
    /\ Len(session.rx) >= PrefixLen => Len(session.rx) < PrefixLen + flen(session.rx)

(***************************************************************************)
(* "Kill the session rather than interleave receipts": what a peer is sent *)
(* on a session, with what is still pending, is the receipts of its frames *)
(* one after the other and whole, however small the send buffer.           *)
(***************************************************************************)
ReceiptsExact ==
  session.pcb =>
    session.sent \o session.pending_tx = Framed(session.answers)

(***************************************************************************)
(* "A scanner cannot lock out the owner": it can while its session lasts,  *)
(* for which there is no limit; but if the device is reachable and without *)
(* a session again and again, the owner is served again and again, however *)
(* the sessions in between ended and whatever receipts they left unsent.   *)
(***************************************************************************)
OwnerServed ==
  []<>(listener /\ Reachable /\ ~session.pcb) => []<>(session.pcb /\ session.stream = OwnerStream)

(***************************************************************************)
(* Once the network stays healthy and power stays on the endpoint is on    *)
(* the network, listens and goes on to, whatever happened before, unless   *)
(* its radio record was cleared (net_endpoint_poll: back-off, timeouts,    *)
(* the listener that survives).  READY alone is not enough: with a lease   *)
(* that has not run out the endpoint is READY while the link is down.      *)
(***************************************************************************)
ReadyAgain ==
  <>[]healthy /\ <>[][~PowerCycle]_vars =>
    <>[](net_state = "NO_RECORD" \/ (net_state = "READY" /\ listener /\ Reachable))

(***************************************************************************)
(* CLEAR_RADIO takes effect late, but it does: when the record is gone for *)
(* good, the first time that the device is off the network and the driver  *)
(* is not joining it by itself (a power cycle will do) is the last, and    *)
(* the endpoint comes to rest ("no record: fail closed").                  *)
(***************************************************************************)
Off == link = "down" /\ ~joining

ClearTakesEffect ==
  []([]~record /\ Off => []Off /\ <>[](net_state = "NO_RECORD"))
=============================================================================
