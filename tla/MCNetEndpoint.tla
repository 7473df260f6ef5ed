--------------------------- MODULE MCNetEndpoint ---------------------------
(***************************************************************************)
(* NetEndpoint for TLC: bytes are bits, the prefix has two of them.        *)
(***************************************************************************)
EXTENDS NetEndpoint

\* A frame of one byte and one of two; a length of zero; one that is too long.
TwoFrames == <<0, 1, 1, 1, 0, 0, 1>>
PeerStreams == {TwoFrames, <<0, 0, 1>>, <<1, 1, 0, 1, 0>>}

\* lwIP passes on one pbuf, or two.
Lengths == 1..MaxSegment
ShortChains == {<<a>> : a \in Lengths} \cup (Lengths \X Lengths)

\* A frame is answered or not.
Answers == {<<>>, <<1>>}
=============================================================================
