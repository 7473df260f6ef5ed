---------------------------- MODULE BleLinkProofs ----------------------------
(***************************************************************************)
(* A frame whose fragments all arrive once is handed over byte for byte,   *)
(* and answered with its own answer or none, for every set of frames and   *)
(* lengths and every size of a fragment; and the buffer is never overrun.  *)
(*                                                                         *)
(* The inductive invariant says which fragments are still to be written,   *)
(* and that the buffer holds exactly the bytes of the others as long as    *)
(* none was lost, repeated or mixed with a foreign one.                    *)
(***************************************************************************)
EXTENDS BleLink, SequenceTheorems, TLAPS

\* What may be in a frame, a fragment and the buffer.
Byte == (Frames \X Nat) \cup {<<"stray">>}

Count(f) == (Length(f) + MtuPayload - 1) \div MtuPayload

\* How many bytes the first n fragments of a frame hold.
Covered(f, n) == IF n < Count(f) THEN n * MtuPayload ELSE Length(f)

\* The fragments of the frame in progress that were written already.
Written == Count(frame) - Len(queue)

\* The queue is the rest of the frame's fragments.
QueueShape ==
  link = "writing" =>
    /\ Len(queue) \in 1..Count(frame)
    /\ queue = [i \in 1..Len(queue) |-> fragment_packet(frame)[Written + i]]

\* As long as nothing went wrong the buffer holds what was written.
BufferFollows ==
  link = "writing" /\ clean /\ Written > 0 =>
    active /\ buf = SubSeq(Bytes(frame), 1, Covered(frame, Written))

\* The slot answers the frame that was sent, or nothing.
SlotFollows == link = "reading" /\ clean => slot \in {<<>>, <<frame>>}

\* A frame does not survive its link.
DownIsUnclean == link = "down" => ~clean

\* The inductive invariant.
LinkInv ==
  /\ LinkTypeOK
  /\ buf \in Seq(Byte)
  /\ QueueShape
  /\ BufferFollows
  /\ CleanFrameHandled
  /\ SlotFollows
  /\ ReadIsFresh
  /\ DownIsUnclean

-----------------------------------------------------------------------------
\* Rounding up: the last fragment is the first that reaches the end of the frame.
LEMMA CountFacts ==
  ASSUME NEW f \in Frames
  PROVE  /\ Count(f) \in Nat \ {0} /\ Length(f) \in Nat \ {0} /\ Length(f) <= CmdBufMax
         /\ Length(f) <= Count(f) * MtuPayload
         /\ (Count(f) - 1) * MtuPayload < Length(f)
<1> DEFINE L == Length(f)
           M == MtuPayload
           a == L + M - 1
           q == a \div M
<1>1. L \in Nat \ {0} /\ M \in Nat \ {0} /\ L <= CmdBufMax
  BY LinkAssumption
<1>2. a \in Nat /\ a >= M
  BY <1>1
<1> HIDE DEF a, L, M
<1>3. q \in Nat /\ a = M * q + (a % M) /\ a % M \in 0..(M - 1)
  BY <1>1, <1>2
<1> HIDE DEF q
<1>4. q # 0
  BY <1>1, <1>2, <1>3
<1>5. a < M * q + M /\ M * q <= a
  BY <1>1, <1>2, <1>3
<1>6. M * q = q * M /\ (q - 1) * M = q * M - M
  BY <1>1, <1>3
<1>7. L <= q * M /\ (q - 1) * M < L
  BY <1>1, <1>3, <1>5, <1>6 DEF a
<1> QED BY <1>1, <1>3, <1>4, <1>7 DEF Count, q, a, L, M

\* Each fragment adds at least one byte, and the last one ends the frame.
LEMMA CoveredFacts ==
  ASSUME NEW f \in Frames, NEW n \in Nat, n < Count(f)
  PROVE  /\ Covered(f, n) = n * MtuPayload
         /\ Covered(f, n) \in Nat /\ Covered(f, n + 1) \in Nat
         /\ Covered(f, n) < Covered(f, n + 1) /\ Covered(f, n + 1) <= Length(f)
<1> DEFINE L == Length(f)
           M == MtuPayload
           N == Count(f)
<1>1. /\ N \in Nat \ {0} /\ L \in Nat \ {0} /\ M \in Nat \ {0}
      /\ L <= N * M /\ (N - 1) * M < L
  BY CountFacts, LinkAssumption
<1>2. Covered(f, n) = n * M /\ Covered(f, n + 1) = IF n + 1 < N THEN (n + 1) * M ELSE L
  BY DEF Covered
<1> HIDE DEF L, M, N
<1>3. n * M \in Nat /\ (n + 1) * M = n * M + M
  BY <1>1
<1>4. \A x, y \in Nat : x <= y => x * M <= y * M
  BY <1>1
<1>5. n <= N - 1 /\ N - 1 \in Nat
  BY <1>1 DEF N
<1>6. n * M < L
  BY <1>1, <1>3, <1>4, <1>5
<1>7. CASE n + 1 < N
  <2>1. n + 1 <= N - 1
    BY <1>1, <1>7
  <2>2. (n + 1) * M <= (N - 1) * M
    BY <1>4, <1>5, <2>1
  <2> QED BY <1>1, <1>2, <1>3, <1>5, <1>7, <2>2 DEF L, M
<1>8. CASE ~(n + 1 < N)
  BY <1>1, <1>2, <1>3, <1>6, <1>8 DEF L, M
<1> QED BY <1>7, <1>8

\* The bytes of a frame name it.
LEMMA BytesFacts ==
  ASSUME NEW f \in Frames
  PROVE  /\ Bytes(f) \in Seq(Byte) /\ Len(Bytes(f)) = Length(f) /\ Bytes(f) # <<>>
         /\ \A g \in Frames : Bytes(f) = Bytes(g) => f = g
<1>1. Length(f) \in Nat \ {0} /\ \A g \in Frames : Length(g) \in Nat \ {0}
  BY CountFacts
<1>2. Bytes(f) \in Seq(Byte) /\ Len(Bytes(f)) = Length(f)
  BY <1>1 DEF Bytes, Byte
<1>3. ASSUME NEW g \in Frames, Bytes(f) = Bytes(g) PROVE f = g
  <2>1. Bytes(f)[1] = <<f, 1>> /\ Bytes(g)[1] = <<g, 1>>
    BY <1>1 DEF Bytes
  <2> QED BY <1>3, <2>1
<1> QED BY <1>1, <1>2, <1>3

\* Fragment i of a frame holds the bytes from the end of fragment i - 1 on.
LEMMA FragmentFacts ==
  ASSUME NEW f \in Frames, NEW i \in 1..Count(f)
  PROVE  fragment_packet(f)[i] =
           [seq |-> i - 1, more |-> i < Count(f),
            data |-> SubSeq(Bytes(f), Covered(f, i - 1) + 1, Covered(f, i))]
<1>1. Covered(f, i - 1) = (i - 1) * MtuPayload
  BY CountFacts, CoveredFacts
<1> QED BY <1>1 DEF fragment_packet, Count, Covered

\* The number of fragments.
LEMMA PacketLength ==
  ASSUME NEW f \in Frames
  PROVE  /\ Len(fragment_packet(f)) = Count(f)
         /\ fragment_packet(f) = [i \in 1..Count(f) |-> fragment_packet(f)[i]]
  BY CountFacts DEF fragment_packet, Count

\* Two adjacent pieces of a sequence make one.
LEMMA Adjacent ==
  ASSUME NEW S, NEW s \in Seq(S), NEW a \in Nat, NEW b \in Nat, a <= b, b <= Len(s)
  PROVE  /\ SubSeq(s, 1, a) \o SubSeq(s, a + 1, b) = SubSeq(s, 1, b)
         /\ SubSeq(s, 1, b) \in Seq(S) /\ Len(SubSeq(s, 1, b)) = b
         /\ SubSeq(s, a + 1, b) \in Seq(S) /\ Len(SubSeq(s, a + 1, b)) = b - a
  OBVIOUS

-----------------------------------------------------------------------------
Fragment == [seq : Nat, more : BOOLEAN, data : Seq(Byte)]

\* The part of the invariant that is about the device alone.
DeviceTypeOK ==
  /\ active \in BOOLEAN /\ buf \in Seq(Byte) /\ Len(buf) <= CmdBufMax
  /\ ~active => buf = <<>>
  /\ slot \in {<<>>} \cup {<<f>> : f \in Frames}

\* Whatever arrives, the buffer keeps its bound and the slot holds an answer or nothing.
LEMMA WriteKeepsDevice ==
  ASSUME DeviceTypeOK, NEW frag \in Fragment, cmd_write_callback(frag)
  PROVE  DeviceTypeOK'
<1>0. <<>> \in Seq(Byte) /\ Len(<<>>) <= CmdBufMax
  BY LinkAssumption
<1>1. Accumulated(frag) \in Seq(Byte)
  <2>1. frag.data \in Seq(Byte) /\ buf \in Seq(Byte) /\ <<>> \in Seq(Byte)
    BY DEF DeviceTypeOK, Fragment
  <2> QED BY <2>1 DEF Accumulated
<1>2. CASE UNCHANGED device
  BY <1>2 DEF device, DeviceTypeOK
<1>3. CASE Discard /\ UNCHANGED <<slot, handled>>
  BY <1>0, <1>3, Zenon DEF Discard, DeviceTypeOK
<1>4. CASE Fits(frag) /\ active' = TRUE /\ buf' = Accumulated(frag) /\ UNCHANGED <<slot, handled>>
  BY <1>1, <1>4 DEF Fits, DeviceTypeOK
<1>5. CASE Discard /\ ble_handle_command(Accumulated(frag))
  <2>1. slot' \in {<<>>} \cup {<<f>> : f \in Frames}
    BY <1>5 DEF ble_handle_command, Answered
  <2> QED BY <1>0, <1>5, <2>1, Zenon DEF Discard, DeviceTypeOK
<1> QED BY <1>2, <1>3, <1>4, <1>5 DEF cmd_write_callback

\* The next fragment of the frame in progress, and the queue without it.
LEMMA NextFragment ==
  ASSUME LinkInv, link = "writing"
  PROVE  /\ frame \in Frames /\ Written \in Nat /\ Written < Count(frame)
         /\ Len(queue) = Count(frame) - Written
         /\ Head(queue) =
              [seq |-> Written, more |-> Written + 1 < Count(frame),
               data |-> SubSeq(Bytes(frame), Covered(frame, Written) + 1,
                               Covered(frame, Written + 1))]
         /\ Head(queue) \in Fragment
         /\ Len(Tail(queue)) = Len(queue) - 1
         /\ Tail(queue) = [i \in 1..(Len(queue) - 1) |-> fragment_packet(frame)[Written + 1 + i]]
<1>1. frame \in Frames /\ Count(frame) \in Nat \ {0}
  BY CountFacts DEF LinkInv, LinkTypeOK
<1>2. Len(queue) \in 1..Count(frame)
      /\ queue = [i \in 1..Len(queue) |-> fragment_packet(frame)[Written + i]]
  BY DEF LinkInv, QueueShape
<1>3. /\ Written \in Nat /\ Written < Count(frame) /\ Len(queue) = Count(frame) - Written
      /\ Written + 1 \in 1..Count(frame)
  BY <1>1, <1>2 DEF Written
<1>4. Head(queue) = queue[1] /\ queue[1] = fragment_packet(frame)[Written + 1]
  BY <1>2
<1>5. fragment_packet(frame)[Written + 1] =
        [seq |-> Written, more |-> Written + 1 < Count(frame),
         data |-> SubSeq(Bytes(frame), Covered(frame, Written) + 1, Covered(frame, Written + 1))]
  BY <1>1, <1>3, FragmentFacts
<1>6. fragment_packet(frame)[Written + 1] \in Fragment
  <2>1. /\ Covered(frame, Written) \in Nat /\ Covered(frame, Written + 1) \in Nat
        /\ Covered(frame, Written) < Covered(frame, Written + 1)
        /\ Covered(frame, Written + 1) <= Length(frame)
    BY <1>1, <1>3, CoveredFacts
  <2>2. SubSeq(Bytes(frame), Covered(frame, Written) + 1, Covered(frame, Written + 1)) \in Seq(Byte)
    BY <1>1, <2>1, BytesFacts, Adjacent
  <2> QED BY <1>3, <1>5, <2>2 DEF Fragment
<1>7. queue \in Seq({fragment_packet(frame)[i] : i \in 1..Count(frame)})
  <2>1. \A i \in 1..Len(queue) : Written + i \in 1..Count(frame)
    BY <1>1, <1>2, <1>3
  <2> QED BY <1>2, <2>1
<1>8. /\ Len(Tail(queue)) = Len(queue) - 1
      /\ Tail(queue) = [i \in 1..(Len(queue) - 1) |-> queue[i + 1]]
  <2>1. queue # <<>> /\ Len(queue) \in Nat
    BY <1>2, <1>7
  <2>2. /\ Len(Tail(queue)) = Len(queue) - 1
        /\ \A i \in 1..Len(Tail(queue)) : Tail(queue)[i] = queue[i + 1]
        /\ Tail(queue) \in Seq({fragment_packet(frame)[i] : i \in 1..Count(frame)})
    BY <1>7, <2>1, HeadTailProperties
  <2> DEFINE r == Tail(queue)
  <2> HIDE DEF r
  <2>3. \A S : r \in Seq(S) => r = [i \in 1..Len(r) |-> r[i]]
    OBVIOUS
  <2>4. r = [i \in 1..Len(r) |-> r[i]]
    BY <2>2, <2>3 DEF r
  <2>5. Len(r) = Len(queue) - 1 /\ \A i \in 1..(Len(queue) - 1) : r[i] = queue[i + 1]
    BY <2>2 DEF r
  <2> QED BY <2>4, <2>5 DEF r
<1>9. \A i \in 1..(Len(queue) - 1) : queue[i + 1] = fragment_packet(frame)[Written + 1 + i]
  BY <1>2, <1>3
<1> QED BY <1>1, <1>3, <1>4, <1>5, <1>6, <1>8, <1>9

\* Into a clean frame, the next fragment adds the next bytes; the last one hands
\* the whole frame over and answers it or nothing.
LEMMA CleanWrite ==
  ASSUME LinkInv, link = "writing", clean, cmd_write_callback(Head(queue))
  PROVE  IF Written + 1 < Count(frame)
         THEN active' /\ buf' = SubSeq(Bytes(frame), 1, Covered(frame, Written + 1))
         ELSE handled' = Bytes(frame) /\ slot' \in {<<>>, <<frame>>}
<1> DEFINE w == Written
           c0 == Covered(frame, w)
           c1 == Covered(frame, w + 1)
           frag == Head(queue)
           B == Bytes(frame)
<1>1. frame \in Frames /\ w \in Nat /\ w < Count(frame) /\ Count(frame) \in Nat
  BY NextFragment, CountFacts
<1>2. /\ c0 \in Nat /\ c1 \in Nat /\ c0 < c1 /\ c1 <= Len(B) /\ Len(B) <= CmdBufMax
      /\ B \in Seq(Byte) /\ Len(B) = Length(frame)
      /\ w = 0 => c0 = 0
  BY <1>1, CoveredFacts, BytesFacts, CountFacts, LinkAssumption
<1>3. frag.seq = w /\ (frag.more = (w + 1 < Count(frame))) /\ frag.data = SubSeq(B, c0 + 1, c1)
  <2>1. frag = [seq |-> w, more |-> w + 1 < Count(frame), data |-> SubSeq(B, c0 + 1, c1)]
    BY NextFragment
  <2> HIDE DEF w, c0, c1, frag, B
  <2> QED BY <2>1, Zenon
<1>4. w > 0 => active /\ buf = SubSeq(B, 1, c0)
  BY DEF LinkInv, BufferFollows
<1> HIDE DEF w, c0, c1, frag, B
<1>5. /\ SubSeq(B, 1, c0) \o SubSeq(B, c0 + 1, c1) = SubSeq(B, 1, c1)
      /\ Len(SubSeq(B, 1, c1)) = c1
      /\ SubSeq(B, c0 + 1, c1) \in Seq(Byte) /\ Len(SubSeq(B, c0 + 1, c1)) = c1 - c0
  BY <1>2, Adjacent
<1>6. frag.data # <<>>
  <2> DEFINE d == SubSeq(B, c0 + 1, c1)
  <2>1. d \in Seq(Byte) /\ Len(d) = c1 - c0
    BY <1>5
  <2> HIDE DEF d
  <2>2. d # <<>>
    BY <1>2, <2>1
  <2> QED BY <1>3, <2>2 DEF d
<1>7. Accumulated(frag) = SubSeq(B, 1, c1)
  <2>1. CASE w = 0
    <3>1. SubSeq(B, 1, c0) = <<>>
      BY <1>2, <2>1
    <3> QED BY <1>3, <1>5, <2>1, <3>1 DEF Accumulated
  <2>2. CASE w # 0
    <3>1. frag.seq # 0 /\ buf = SubSeq(B, 1, c0)
      BY <1>1, <1>3, <1>4, <2>2
    <3> QED BY <1>3, <1>5, <3>1, Zenon DEF Accumulated
  <2> QED BY <2>1, <2>2
<1>8. Fits(frag)
  BY <1>2, <1>5, <1>7, LinkAssumption DEF Fits
<1>9. frag.seq # 0 => active
  BY <1>1, <1>3, <1>4
<1>10. IF frag.more THEN active' = TRUE /\ buf' = Accumulated(frag)
       ELSE ble_handle_command(Accumulated(frag))
  BY <1>6, <1>8, <1>9 DEF cmd_write_callback, frag
<1>11. CASE w + 1 < Count(frame)
  BY <1>3, <1>7, <1>10, <1>11 DEF w, c1, B
<1>12. CASE ~(w + 1 < Count(frame))
  <2>1. c1 = Length(frame)
    BY <1>12 DEF c1, Covered
  <2>2. SubSeq(B, 1, c1) = B
    BY <1>2, <2>1
  <2>3. handled' = B /\ slot' \in Answered(B)
    BY <1>3, <1>7, <1>10, <1>12, <2>2 DEF ble_handle_command
  <2>4. ASSUME NEW g \in Frames, B = Bytes(g) PROVE g = frame
    BY <1>1, <2>4, BytesFacts DEF B
  <2>5. slot' \in {<<>>, <<frame>>}
    BY <2>3, <2>4 DEF Answered
  <2> QED BY <1>12, <2>3, <2>5 DEF w, B
<1> QED BY <1>11, <1>12 DEF w

-----------------------------------------------------------------------------
\* The invariant in two parts: the device, and where the client is with its frame.
LEMMA InvParts ==
  LinkInv <=>
    /\ DeviceTypeOK
    /\ clean \in BOOLEAN /\ got \in {<<>>} \cup {<<f>> : f \in Frames}
    /\ link \in {"down", "idle", "writing", "reading"} /\ frame \in Frames
    /\ (link = "writing") <=> (queue # <<>>)
    /\ QueueShape /\ BufferFollows /\ CleanFrameHandled /\ SlotFollows /\ ReadIsFresh
    /\ DownIsUnclean
  BY Zenon DEF LinkInv, LinkTypeOK, DeviceTypeOK

\* A step that leaves the client with an unclean frame, at the same fragment.
LEMMA UncleanInv ==
  ASSUME LinkInv, DeviceTypeOK', clean' = FALSE, UNCHANGED <<link, frame, queue, got>>
  PROVE  LinkInv'
<1>1. QueueShape'
  BY DEF LinkInv, QueueShape, Written
<1>2. BufferFollows' /\ CleanFrameHandled' /\ SlotFollows' /\ ReadIsFresh'
      /\ DownIsUnclean'
  BY Zenon DEF BufferFollows, CleanFrameHandled, SlotFollows, ReadIsFresh, DownIsUnclean
<1>3. /\ got \in {<<>>} \cup {<<f>> : f \in Frames}
      /\ link \in {"down", "idle", "writing", "reading"} /\ frame \in Frames
      /\ (link = "writing") <=> (queue # <<>>)
  BY InvParts, Zenon
<1> QED BY <1>1, <1>2, <1>3, Zenon DEF LinkInv, LinkTypeOK, DeviceTypeOK

\* One fragment leaves the client: the queue stays the rest of the frame.
LEMMA SentQueue ==
  ASSUME LinkInv, Sent
  PROVE  /\ frame' = frame /\ got' = got
         /\ link' = IF Written + 1 < Count(frame) THEN "writing" ELSE "reading"
         /\ (link' = "writing") <=> (queue' # <<>>)
         /\ link' = "writing" => Written' = Written + 1
         /\ QueueShape'
<1> DEFINE m == Len(queue) - 1
<1>1. /\ link = "writing" /\ queue' = Tail(queue) /\ frame' = frame /\ got' = got
      /\ link' = IF Len(queue) = 1 THEN "reading" ELSE "writing"
  BY DEF Sent
<1>2. /\ Written \in Nat /\ Written < Count(frame) /\ Count(frame) \in Nat
      /\ Len(queue) = Count(frame) - Written /\ m \in Nat
      /\ Len(queue') = m
      /\ queue' = [i \in 1..m |-> fragment_packet(frame)[Written + 1 + i]]
  BY <1>1, NextFragment, CountFacts
<1>3. link' = IF Written + 1 < Count(frame) THEN "writing" ELSE "reading"
  BY <1>1, <1>2
<1>4. m = 0 <=> queue' = <<>>
  <2>1. m = 0 => queue' = <<>>
    BY <1>2
  <2>2. queue' = <<>> => m = 0
    BY <1>2
  <2> QED BY <2>1, <2>2
<1>5. (link' = "writing") <=> (queue' # <<>>)
  BY <1>1, <1>2, <1>4
<1>6. Written' = Written + 1
  BY <1>1, <1>2 DEF Written
<1>7. QueueShape'
  <2>1. ASSUME link' = "writing" PROVE Len(queue') \in 1..Count(frame)
    BY <1>2, <1>3, <2>1
  <2>2. queue' = [i \in 1..Len(queue') |-> fragment_packet(frame)[Written' + i]]
    BY <1>2, <1>6
  <2> QED BY <1>1, <2>1, <2>2 DEF QueueShape
<1> QED BY <1>1, <1>3, <1>5, <1>6, <1>7

\* A fragment is lost: the frame is not clean any more.
LEMMA LoseInv == ASSUME LinkInv, Lose PROVE LinkInv'
<1>1. Sent /\ clean' = FALSE /\ UNCHANGED device
  BY DEF Lose
<1>2. /\ frame' = frame /\ got' = got /\ link' \in {"writing", "reading"}
      /\ ((link' = "writing") <=> (queue' # <<>>)) /\ QueueShape'
  BY <1>1, SentQueue
<1>3. DeviceTypeOK'
  BY <1>1, InvParts DEF device, DeviceTypeOK
<1>4. BufferFollows' /\ CleanFrameHandled' /\ SlotFollows' /\ ReadIsFresh'
      /\ DownIsUnclean'
  BY <1>1, Zenon DEF BufferFollows, CleanFrameHandled, SlotFollows, ReadIsFresh, DownIsUnclean
<1>5. got \in {<<>>} \cup {<<f>> : f \in Frames} /\ frame \in Frames
  BY InvParts, Zenon
<1>6. link' \in {"down", "idle", "writing", "reading"}
  BY <1>2
<1> QED BY <1>1, <1>2, <1>3, <1>4, <1>5, <1>6, Zenon DEF LinkInv, LinkTypeOK, DeviceTypeOK

\* A fragment arrives.
LEMMA DeliverInv == ASSUME LinkInv, Deliver PROVE LinkInv'
<1>1. Sent /\ cmd_write_callback(Head(queue)) /\ clean' = clean /\ link = "writing"
  BY DEF Deliver, Sent
<1>2. /\ frame' = frame /\ got' = got
      /\ link' = IF Written + 1 < Count(frame) THEN "writing" ELSE "reading"
      /\ ((link' = "writing") <=> (queue' # <<>>)) /\ QueueShape'
      /\ link' = "writing" => Written' = Written + 1
  BY <1>1, SentQueue
<1>3. DeviceTypeOK'
  BY <1>1, NextFragment, WriteKeepsDevice, InvParts
<1>4. ASSUME clean
      PROVE  IF Written + 1 < Count(frame)
             THEN active' /\ buf' = SubSeq(Bytes(frame), 1, Covered(frame, Written + 1))
             ELSE handled' = Bytes(frame) /\ slot' \in {<<>>, <<frame>>}
  BY <1>1, <1>4, CleanWrite
<1>5. BufferFollows'
  BY <1>1, <1>2, <1>4 DEF BufferFollows
<1>6. CleanFrameHandled' /\ SlotFollows'
  BY <1>1, <1>2, <1>4 DEF CleanFrameHandled, SlotFollows
<1>7. /\ ReadIsFresh' /\ DownIsUnclean'
      /\ link' \in {"down", "idle", "writing", "reading"}
  BY <1>2 DEF ReadIsFresh, DownIsUnclean
<1>8. /\ got \in {<<>>} \cup {<<f>> : f \in Frames} /\ frame \in Frames /\ clean \in BOOLEAN
  BY InvParts, Zenon
<1> QED
  BY <1>1, <1>2, <1>3, <1>5, <1>6, <1>7, <1>8, Zenon DEF LinkInv, LinkTypeOK, DeviceTypeOK

\* A frame is cut into its fragments; nothing of it has been written.
LEMMA SendInv == ASSUME LinkInv, NEW f \in Frames, Send(f) PROVE LinkInv'
<1>1. /\ link' = "writing" /\ frame' = f /\ queue' = fragment_packet(f) /\ clean' = TRUE
      /\ UNCHANGED device /\ got' = got
  BY DEF Send
<1>2. /\ Count(f) \in Nat \ {0} /\ Len(queue') = Count(f)
      /\ queue' = [i \in 1..Count(f) |-> fragment_packet(f)[i]]
  BY <1>1, CountFacts, PacketLength
<1>3. Written' = 0
  BY <1>1, <1>2 DEF Written
<1>4. queue' # <<>>
  BY <1>2
<1>5. QueueShape'
  <2>1. \A i \in 1..Count(f) : 0 + i = i
    OBVIOUS
  <2>2. queue' = [i \in 1..Len(queue') |-> fragment_packet(f)[0 + i]]
    BY <1>2, <2>1
  <2> QED BY <1>1, <1>2, <1>3, <2>2 DEF QueueShape
<1>6. BufferFollows' /\ CleanFrameHandled' /\ SlotFollows' /\ ReadIsFresh'
      /\ DownIsUnclean'
  BY <1>1, <1>3
  DEF BufferFollows, CleanFrameHandled, SlotFollows, ReadIsFresh, DownIsUnclean
<1>7. DeviceTypeOK'
  BY <1>1, InvParts DEF device, DeviceTypeOK
<1>8. got \in {<<>>} \cup {<<g>> : g \in Frames}
  BY InvParts, Zenon
<1> QED BY <1>1, <1>4, <1>5, <1>6, <1>7, <1>8, Zenon DEF LinkInv, LinkTypeOK, DeviceTypeOK

\* Connecting, dropping the link and reading the slot leave the device alone.
LEMMA LinkStepInv == ASSUME LinkInv, Connect \/ Disconnect \/ Read PROVE LinkInv'
<1>1. DeviceTypeOK'
  BY InvParts DEF Connect, Disconnect, Read, device, DeviceTypeOK
<1>2. /\ got \in {<<>>} \cup {<<f>> : f \in Frames} /\ frame \in Frames /\ clean \in BOOLEAN
      /\ slot \in {<<>>} \cup {<<f>> : f \in Frames}
      /\ (link = "writing") <=> (queue # <<>>)
  BY InvParts, Zenon DEF DeviceTypeOK
<1>3. /\ frame' = frame /\ link' \in {"idle", "down"}
      /\ got' \in {<<>>} \cup {<<f>> : f \in Frames} /\ clean' \in BOOLEAN /\ queue' = <<>>
  <2>1. CASE Connect
    BY <1>2, <2>1 DEF Connect
  <2>2. CASE Disconnect
    BY <1>2, <2>2 DEF Disconnect
  <2>3. CASE Read
    BY <1>2, <2>3 DEF Read
  <2> QED BY <2>1, <2>2, <2>3
<1>4. QueueShape' /\ BufferFollows' /\ CleanFrameHandled' /\ SlotFollows'
  BY <1>3 DEF QueueShape, BufferFollows, CleanFrameHandled, SlotFollows
<1>5. ReadIsFresh' /\ DownIsUnclean'
  <2>1. CASE Read
    BY <2>1 DEF Read, LinkInv, SlotFollows, ReadIsFresh, DownIsUnclean
  <2>2. CASE Disconnect
    BY <2>2 DEF Disconnect, ReadIsFresh, DownIsUnclean
  <2>3. CASE Connect
    BY <2>3 DEF Connect, ReadIsFresh, LinkInv, DownIsUnclean
  <2> QED BY <2>1, <2>2, <2>3
<1>6. link' # "writing" /\ link' \in {"down", "idle", "writing", "reading"} /\ frame' \in Frames
  BY <1>2, <1>3
<1> QED BY <1>1, <1>3, <1>4, <1>5, <1>6, Zenon DEF LinkInv, LinkTypeOK, DeviceTypeOK

\* The invariant holds before the first connection.
LEMMA LinkInvInit == Init => LinkInv
<1> SUFFICES ASSUME Init PROVE LinkInv
  OBVIOUS
<1>1. <<>> \in Seq(Byte) /\ Len(<<>>) <= CmdBufMax
  BY LinkAssumption
<1>2. link = "down" /\ clean = FALSE /\ queue = <<>>
  BY DEF Init
<1>3. /\ QueueShape /\ BufferFollows /\ CleanFrameHandled /\ SlotFollows /\ ReadIsFresh
      /\ DownIsUnclean
  BY <1>2
  DEF QueueShape, BufferFollows, CleanFrameHandled, SlotFollows, ReadIsFresh, DownIsUnclean
<1>4. link \in {"down", "idle", "writing", "reading"} /\ link # "writing"
  BY <1>2
<1> QED BY <1>1, <1>2, <1>3, <1>4, Zenon DEF Init, LinkInv, LinkTypeOK

\* Every step of the client, the link and the device keeps the invariant.
LEMMA LinkInvStep == ASSUME LinkInv, [Next]_vars PROVE LinkInv'
<1>1. CASE Repeat
  <2>1. /\ link = "writing" /\ cmd_write_callback(Head(queue))
        /\ clean' = FALSE /\ UNCHANGED <<link, frame, queue, got>>
    BY <1>1 DEF Repeat
  <2>2. DeviceTypeOK'
    BY <2>1, NextFragment, WriteKeepsDevice, InvParts
  <2> QED BY <2>1, <2>2, UncleanInv
<1>2. CASE StrayWrite
  <2>1. /\ clean' = FALSE /\ UNCHANGED <<link, frame, queue, got>>
        /\ \E seq \in 0..1, more \in BOOLEAN, n \in 0..1 :
             cmd_write_callback([seq |-> seq, more |-> more, data |-> [j \in 1..n |-> <<"stray">>]])
    BY <1>2 DEF StrayWrite
  <2>2. ASSUME NEW seq \in 0..1, NEW more \in BOOLEAN, NEW n \in 0..1
        PROVE  [seq |-> seq, more |-> more, data |-> [j \in 1..n |-> <<"stray">>]] \in Fragment
    <3>1. [j \in 1..n |-> <<"stray">>] \in Seq(Byte) /\ seq \in Nat
      BY DEF Byte
    <3> QED BY <3>1 DEF Fragment
  <2>3. DeviceTypeOK'
    BY <2>1, <2>2, WriteKeepsDevice, InvParts
  <2> QED BY <2>1, <2>3, UncleanInv
<1>3. CASE UNCHANGED vars
  <2>1. /\ DeviceTypeOK' /\ Written' = Written
    BY <1>3, InvParts DEF vars, DeviceTypeOK, Written
  <2>2. /\ QueueShape' /\ BufferFollows' /\ CleanFrameHandled' /\ SlotFollows' /\ ReadIsFresh'
        /\ DownIsUnclean'
    BY <1>3, <2>1
    DEF vars, LinkInv, QueueShape, BufferFollows, CleanFrameHandled, SlotFollows, ReadIsFresh,
        DownIsUnclean
  <2> QED BY <1>3, <2>2 DEF vars, LinkInv, LinkTypeOK
<1> QED BY <1>1, <1>2, <1>3, LinkStepInv, SendInv, DeliverInv, LoseInv DEF Next

(***************************************************************************)
(* At every moment the queue is the rest of the frame, and the buffer of   *)
(* the device holds what was written of a frame that is clean.             *)
(***************************************************************************)
THEOREM LinkInvariant == Spec => []LinkInv
<1> QED BY LinkInvInit, LinkInvStep, PTL DEF Spec

\* Types; and cmd_write_callback never writes beyond the end of ble_cmd_buf.
THEOREM BufferBounded == Spec => []LinkTypeOK
<1>1. LinkInv => LinkTypeOK
  BY DEF LinkInv
<1> QED BY <1>1, LinkInvariant, PTL

(***************************************************************************)
(* A frame whose fragments all arrive once is handed over byte for byte,   *)
(* whatever arrived before it.                                             *)
(***************************************************************************)
THEOREM CleanFrameHolds == Spec => []CleanFrameHandled
<1>1. LinkInv => CleanFrameHandled
  BY DEF LinkInv
<1> QED BY <1>1, LinkInvariant, PTL

\* After such a frame the client reads its answer or nothing.
THEOREM ReadFreshHolds == Spec => []ReadIsFresh
<1>1. LinkInv => ReadIsFresh
  BY DEF LinkInv
<1> QED BY <1>1, LinkInvariant, PTL
=============================================================================
