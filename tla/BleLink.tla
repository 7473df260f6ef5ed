------------------------------ MODULE BleLink ------------------------------
(***************************************************************************)
(* Command frames over the BLE characteristic: fragment_packet and         *)
(* _write_fragments of tools/pico_bridge_ctl.py on one side, the           *)
(* reassembly and the read slot of firmware/bridge_main.c on the other.    *)
(*                                                                         *)
(* Fragments arrive in order.  A write without response may be lost; a     *)
(* write that raises is repeated with response, so that a fragment may     *)
(* arrive twice.  The link may drop between any two fragments; the device  *)
(* does not notice, and the next central finds the reassembly state as it  *)
(* was left.  There is one connection at a time (MAX_NR_HCI_CONNECTIONS).  *)
(***************************************************************************)
EXTENDS Naturals, Sequences

CONSTANTS
  Frames,        \* the command frames clients send
  Length(_),     \* their lengths in bytes
  MtuPayload,    \* BLE_MTU_PAYLOAD, 19 bytes
  CmdBufMax      \* BLE_CMD_BUF_MAX, 1102 bytes

\* A tool never sends a frame that the device cannot hold (1063 bytes at most).
ASSUME LinkAssumption ==
  /\ MtuPayload \in Nat \ {0} /\ CmdBufMax \in Nat
  /\ \A f \in Frames : Length(f) \in 1..CmdBufMax

VARIABLES
  active,   \* ble_cmd_active
  buf,      \* ble_cmd_buf up to ble_cmd_pos
  slot,     \* cmd_char_read_data: the frame it answers, <<>> when not valid
  handled,  \* history: the bytes last given to command_process_frame
  link,     \* "down", "idle", "writing" or "reading": what the client is doing
  frame,    \* the frame that the client is sending or has sent
  queue,    \* its fragments not yet written
  clean,    \* history: each of its fragments so far arrived exactly once
  got       \* what the client read, <<>> for an empty value

device == <<active, buf, slot, handled>>
vars == <<active, buf, slot, handled, link, frame, queue, clean, got>>

\* Byte j of frame f is the pair <<f, j>>.
Bytes(f) == [j \in 1..Length(f) |-> <<f, j>>]

fragment_packet(f) ==
  LET count == (Length(f) + MtuPayload - 1) \div MtuPayload
      End(i) == IF i < count THEN i * MtuPayload ELSE Length(f)
  IN [i \in 1..count |-> [seq |-> i - 1, more |-> i < count,
                          data |-> SubSeq(Bytes(f), (i - 1) * MtuPayload + 1, End(i))]]

Init ==
  /\ active = FALSE /\ buf = <<>> /\ slot = <<>> /\ handled = <<>>
  /\ link = "down" /\ frame \in Frames /\ queue = <<>> /\ clean = FALSE
  /\ got = <<>>

-----------------------------------------------------------------------------
\* Seeded fault: an unanswered frame leaves the previous answer in the slot.
Answered_kept(packet) ==
  {slot} \cup {<<f>> : f \in {g \in Frames : packet = Bytes(g)}}

\* ble_handle_command: the slot is cleared, then filled if there is an answer.
\* Only a frame that arrived as it was sent can be answered (NoiseSession).
Answered(packet) ==
  {<<>>} \cup {<<f>> : f \in {g \in Frames : packet = Bytes(g)}}

ble_handle_command(packet) ==
  handled' = packet /\ slot' \in Answered(packet)

\* Seeded faults: a first fragment does not restart the buffer; no bound.
Accumulated_stale(frag) == buf \o frag.data
Fits_always(frag) == TRUE

\* The buffer with the fragment's data, restarted by a first fragment.
Accumulated(frag) == (IF frag.seq = 0 THEN <<>> ELSE buf) \o frag.data

Fits(frag) == Len(Accumulated(frag)) <= CmdBufMax

Discard == active' = FALSE /\ buf' = <<>>

cmd_write_callback(frag) ==
  \/ /\ frag.seq # 0 /\ ~active
     /\ UNCHANGED device
  \/ /\ \/ frag.seq = 0 /\ frag.data = <<>>
        \/ (frag.seq = 0 \/ active) /\ ~Fits(frag)
     /\ Discard
     /\ UNCHANGED <<slot, handled>>
  \/ /\ IF frag.seq = 0 THEN frag.data # <<>> ELSE active
     /\ Fits(frag)
     /\ IF frag.more
        THEN active' = TRUE /\ buf' = Accumulated(frag) /\ UNCHANGED <<slot, handled>>
        ELSE Discard /\ ble_handle_command(Accumulated(frag))

-----------------------------------------------------------------------------
Connect ==
  /\ link = "down" /\ link' = "idle"
  /\ UNCHANGED <<device, frame, queue, clean, got>>

Disconnect ==
  /\ link # "down" /\ link' = "down"
  /\ queue' = <<>>
  /\ clean' = FALSE
  /\ UNCHANGED <<device, frame, got>>

\* send_command
Send(f) ==
  /\ link = "idle" /\ link' = "writing"
  /\ frame' = f
  /\ queue' = fragment_packet(f)
  /\ clean' = TRUE
  /\ UNCHANGED <<device, got>>

\* _write_fragments: one fragment leaves the client ...
Sent ==
  /\ link = "writing"
  /\ queue' = Tail(queue)
  /\ link' = IF Len(queue) = 1 THEN "reading" ELSE "writing"
  /\ UNCHANGED <<frame, got>>

\* ... and arrives, or is lost, or is written again although it arrived.
Deliver == Sent /\ cmd_write_callback(Head(queue)) /\ UNCHANGED clean

Lose == Sent /\ clean' = FALSE /\ UNCHANGED device

Repeat ==
  /\ link = "writing"
  /\ cmd_write_callback(Head(queue))
  /\ clean' = FALSE
  /\ UNCHANGED <<link, frame, queue, got>>

\* read_gatt_char and read_callback
Read ==
  /\ link = "reading" /\ link' = "idle"
  /\ got' = slot
  /\ UNCHANGED <<device, frame, queue, clean>>

\* A central that is not the tool writes fragments without a frame.
StrayWrite ==
  /\ link = "idle"
  /\ \E seq \in 0..1, more \in BOOLEAN, n \in 0..1 :
       cmd_write_callback([seq |-> seq, more |-> more, data |-> [j \in 1..n |-> <<"stray">>]])
  /\ clean' = FALSE
  /\ UNCHANGED <<link, frame, queue, got>>

Next ==
  \/ Connect \/ Disconnect
  \/ \E f \in Frames : Send(f)
  \/ Deliver \/ Lose \/ Repeat \/ Read \/ StrayWrite

Spec == Init /\ [][Next]_vars

-----------------------------------------------------------------------------
\* Types; and the reassembly buffer is never overrun (cmd_write_callback).
LinkTypeOK ==
  /\ active \in BOOLEAN /\ clean \in BOOLEAN
  /\ Len(buf) <= CmdBufMax
  /\ ~active => buf = <<>>
  /\ slot \in {<<>>} \cup {<<f>> : f \in Frames}
  /\ got \in {<<>>} \cup {<<f>> : f \in Frames}
  /\ link \in {"down", "idle", "writing", "reading"}
  /\ frame \in Frames
  /\ (link = "writing") <=> (queue # <<>>)

(***************************************************************************)
(* A frame whose fragments all arrive once is handed over byte for byte,   *)
(* whatever fragments of interrupted, garbled or foreign frames arrived    *)
(* before it (cmd_write_callback).                                         *)
(***************************************************************************)
CleanFrameHandled == link = "reading" /\ clean => handled = Bytes(frame)

(***************************************************************************)
(* After such a frame the client reads its answer or nothing, never the    *)
(* answer to an earlier command (ble_handle_command clears the slot).  A   *)
(* frame whose last fragment is lost clears nothing, and an older answer   *)
(* is read; the client tells by its nonce (NoiseSession).                  *)
(***************************************************************************)
ReadIsFresh == link = "idle" /\ clean => got \in {<<>>, <<frame>>}
=============================================================================
