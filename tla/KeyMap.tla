------------------------------- MODULE KeyMap -------------------------------
(***************************************************************************)
(* The pure part of bridge_core_stage in firmware/core/bridge_core.c: the  *)
(* UTF-8 decoder, the US and DE key tables, and the loop that turns a text *)
(* into key strokes.  Texts are sequences of bytes, strokes are pairs      *)
(* <<modifier, usage>>.  The second half states, independently of the      *)
(* code, what well-formed UTF-8 is and what a host with the given keyboard *)
(* layout reads from a sequence of strokes.                                *)
(***************************************************************************)
EXTENDS Integers, Sequences, SequencesExt

US == 1    \* BRIDGE_LAYOUT_US
DE == 2    \* BRIDGE_LAYOUT_DE
TEXT == 2  \* BRIDGE_MODE_TEXT

Shift == 2     \* BRIDGE_MOD_LEFT_SHIFT
AltGr == 64    \* BRIDGE_MOD_RIGHT_ALT
Tab == 9
LF == 10
CR == 13
Space == 32

AllowLF(mode, flags) == mode = TEXT /\ flags % 2 = 1
AllowTab(mode, flags) == mode = TEXT /\ (flags \div 2) % 2 = 1

-----------------------------------------------------------------------------
\* decode_utf8: the code point at offset off (bytes before it are consumed).
Malformed == [status |-> "UTF8", cp |-> 0, next |-> 0]

Continuations(lead) ==
  CASE lead < 128 -> 0
    [] lead \in 194..223 -> 1
    [] lead \in 224..239 -> 2
    [] lead \in 240..244 -> 3
    [] OTHER -> -1

LeadBits(lead) ==
  CASE lead < 128 -> lead
    [] lead \in 192..223 -> lead % 32
    [] lead \in 224..239 -> lead % 16
    [] OTHER -> lead % 8

Minimum(n) == <<0, 128, 2048, 65536>>[n + 1]

\* Seeded fault: the surrogate range is let through.
NotScalar_surrogates(n, cp) == cp < Minimum(n) \/ cp > 1114111

\* Overlong, beyond U+10FFFF, or a surrogate.
NotScalar(n, cp) ==
  cp < Minimum(n) \/ cp > 1114111 \/ cp \in 55296..57343

\* The code point as it grows by the bits of up to n continuation bytes.
Gathered(t, off, n) ==
  LET acc[i \in 0..n] ==
        IF i = 0 THEN LeadBits(t[off + 1]) ELSE acc[i - 1] * 64 + (t[off + 1 + i] % 64)
  IN acc

decode_utf8(t, off) ==
  LET n == Continuations(t[off + 1])
      cp == Gathered(t, off, n)[n]
  IN IF \/ n = -1
        \/ Len(t) < off + 1 + n
        \/ \E i \in (off + 2)..(off + 1 + n) : t[i] \notin 128..191
        \/ NotScalar(n, cp)
     THEN Malformed
     ELSE [status |-> "OK", cp |-> cp, next |-> off + 1 + n]

-----------------------------------------------------------------------------
\* map_ascii and map_de return NoKeyFor when the layout has no such key.
NoKeyFor == <<0, 0>>

\* `1234567890-=[]\;',./ and the same keys with shift
AsciiPlain == <<96, 49, 50, 51, 52, 53, 54, 55, 56, 57, 48, 45, 61, 91, 93, 92,
                59, 39, 44, 46, 47>>
AsciiShifted == <<126, 33, 64, 35, 36, 37, 94, 38, 42, 40, 41, 95, 43, 123, 125,
                  124, 58, 34, 60, 62, 63>>
AsciiUsages == <<53, 30, 31, 32, 33, 34, 35, 36, 37, 38, 39, 45, 46, 47, 48, 49,
                 51, 52, 54, 55, 56>>

\* keys[i] for the position i of cp in codes
Lookup(codes, keys, cp) == keys[CHOOSE i \in 1..Len(codes) : codes[i] = cp]

map_ascii(cp) ==
  IF cp \in 97..122 THEN <<0, cp - 97 + 4>>
  ELSE IF cp \in 65..90 THEN <<Shift, cp - 65 + 4>>
  ELSE IF cp = Space THEN <<0, 44>>
  ELSE IF Contains(AsciiPlain, cp) THEN <<0, Lookup(AsciiPlain, AsciiUsages, cp)>>
  ELSE IF Contains(AsciiShifted, cp) THEN <<Shift, Lookup(AsciiShifted, AsciiUsages, cp)>>
  ELSE NoKeyFor

\* !"#$%&'()*+,-./:;<=>?@[\]^_`{|}~ and then the umlauts, sharp s, euro, acute
DeSymbols == <<33, 34, 35, 36, 37, 38, 39, 40, 41, 42, 43, 44, 45, 46, 47, 58, 59,
               60, 61, 62, 63, 64, 91, 92, 93, 94, 95, 96, 123, 124, 125, 126,
               228, 246, 252, 196, 214, 220, 223, 8364, 180>>
DeKeys == << <<2, 30>>, <<2, 31>>, <<0, 50>>, <<2, 33>>, <<2, 34>>, <<2, 35>>,
             <<2, 50>>, <<2, 37>>, <<2, 38>>, <<2, 48>>, <<0, 48>>, <<0, 54>>,
             <<0, 56>>, <<0, 55>>, <<2, 36>>, <<2, 55>>, <<2, 54>>, <<0, 100>>,
             <<2, 39>>, <<2, 100>>, <<2, 45>>, <<64, 20>>, <<64, 37>>, <<64, 45>>,
             <<64, 38>>, <<0, 53>>, <<2, 56>>, <<2, 46>>, <<64, 36>>, <<64, 100>>,
             <<64, 39>>, <<64, 48>>,
             <<0, 52>>, <<0, 51>>, <<0, 47>>, <<2, 52>>, <<2, 51>>, <<2, 47>>,
             <<0, 45>>, <<64, 8>>, <<0, 46>> >>

\* Seeded fault: y and z as on the US layout.
SwapYZ_none(cp) == cp

SwapYZ(cp) ==
  CASE cp = 121 -> 122 [] cp = 89 -> 90 [] cp = 122 -> 121 [] cp = 90 -> 89
    [] OTHER -> cp

map_de(cp) ==
  IF Contains(DeSymbols, cp)
  THEN Lookup(DeSymbols, DeKeys, cp)
  ELSE map_ascii(SwapYZ(cp))

\* Dead keys of the German layout get a space stroke behind them.
DeadDE == {94, 96, 126, 180}

-----------------------------------------------------------------------------
\* Seeded fault: whatever follows a CR is taken for its LF.
CrLf_any(mode, flags, t, d) ==
  d.cp = CR /\ AllowLF(mode, flags) /\ d.next < Len(t)

\* The decoded CR and the LF behind it are one line break.
CrLf(mode, flags, t, d) ==
  /\ d.cp = CR /\ AllowLF(mode, flags)
  /\ d.next < Len(t) /\ t[d.next + 1] = LF

\* Seeded fault: a second space behind a dead key.
KeyStrokes_twice(layout, cp, key) ==
  IF layout = DE /\ cp \in DeadDE THEN <<key, <<0, 44>>, <<0, 44>> >> ELSE <<key>>

KeyStrokes(layout, cp, key) ==
  IF layout = DE /\ cp \in DeadDE THEN <<key, <<0, 44>> >> ELSE <<key>>

\* One iteration of the while loop of bridge_core_stage at offset off.
StageChar(layout, mode, flags, t, off) ==
  LET d == decode_utf8(t, off)
      crlf == CrLf(mode, flags, t, d)
      cp == IF crlf THEN LF ELSE d.cp
      key == IF layout = DE THEN map_de(cp) ELSE map_ascii(cp)
      Refuse(st) == [status |-> st, strokes |-> <<>>, next |-> 0]
      Emit(strokes) == [status |-> "OK", strokes |-> strokes,
                        next |-> IF crlf THEN d.next + 1 ELSE d.next]
  IN IF d.status # "OK" THEN Refuse(d.status)
     ELSE IF cp = LF /\ AllowLF(mode, flags) THEN Emit(<< <<0, 40>> >>)
     ELSE IF cp = Tab /\ AllowTab(mode, flags) THEN Emit(<< <<0, 43>> >>)
     ELSE IF cp < Space \/ cp = 127 THEN Refuse("POLICY")
     ELSE IF key = NoKeyFor THEN Refuse("UNSUPPORTED")
     ELSE Emit(KeyStrokes(layout, cp, key))

Prepend(strokes, rest) == [status |-> rest.status, strokes |-> strokes \o rest.strokes]

\* The loop itself, from the last character back: go[off] compiles the rest.
Compiled(layout, mode, flags, t) ==
  LET go[off \in 0..Len(t)] ==
        IF off = Len(t) THEN [status |-> "OK", strokes |-> <<>>]
        ELSE LET c == StageChar(layout, mode, flags, t, off)
             IN IF c.status # "OK" THEN [status |-> c.status, strokes |-> <<>>]
                ELSE Prepend(c.strokes, go[c.next])
  IN go

Compile(layout, mode, flags, t) == Compiled(layout, mode, flags, t)[0]

-----------------------------------------------------------------------------
(***************************************************************************)
(* Reference definitions, from the Unicode standard and from the keyboard  *)
(* layouts of the hosts.                                                   *)
(***************************************************************************)
\* The well-formed byte sequences of the Unicode standard, Table 3-7.
WellFormed(b) ==
  LET Row(n, first, second) ==
        /\ Len(b) = n /\ b[1] \in first /\ b[2] \in second
        /\ \A i \in 3..n : b[i] \in 128..191
  IN \/ Len(b) = 1 /\ b[1] < 128
     \/ Row(2, 194..223, 128..191)
     \/ Row(3, {224}, 160..191)
     \/ Row(3, (225..239) \ {237}, 128..191)
     \/ Row(3, {237}, 128..159)
     \/ Row(4, {240}, 144..191)
     \/ Row(4, 241..243, 128..191)
     \/ Row(4, {244}, 128..143)

Scalars == {cp \in Nat : cp < 1114112 /\ (cp < 55296 \/ cp > 57343)}

\* The UTF-8 encoding of a scalar value.
Continuation(cp, unit) == 128 + ((cp \div unit) % 64)
OneByte(cp) == <<cp>>
TwoBytes(cp) == <<192 + cp \div 64, Continuation(cp, 1)>>
ThreeBytes(cp) == <<224 + cp \div 4096, Continuation(cp, 64), Continuation(cp, 1)>>
FourBytes(cp) == <<240 + cp \div 262144, Continuation(cp, 4096), Continuation(cp, 64),
                   Continuation(cp, 1)>>

EncodeUTF8(cp) ==
  IF cp < 128 THEN OneByte(cp)
  ELSE IF cp < 2048 THEN TwoBytes(cp)
  ELSE IF cp < 65536 THEN ThreeBytes(cp)
  ELSE FourBytes(cp)

\* What the keys from usage 30 on print, by row: plain and with shift (US).
HostUSPlain == [u \in 30..56 |-> <<49, 50, 51, 52, 53, 54, 55, 56, 57, 48, LF, 0, 0,
  Tab, Space, 45, 61, 91, 93, 92, 0, 59, 39, 96, 44, 46, 47>>[u - 29]]
HostUSShift == [u \in 30..56 |-> <<33, 64, 35, 36, 37, 94, 38, 42, 40, 41, 0, 0, 0,
  0, Space, 95, 43, 123, 125, 124, 0, 58, 34, 126, 60, 62, 63>>[u - 29]]

\* The same for a German keyboard; section and degree sign are not used.
HostDEPlain == [u \in 30..56 |-> <<49, 50, 51, 52, 53, 54, 55, 56, 57, 48, LF, 0, 0,
  Tab, Space, 223, 180, 252, 43, 0, 35, 246, 228, 94, 44, 46, 45>>[u - 29]]
HostDEShift == [u \in 30..56 |-> <<33, 34, 167, 36, 37, 38, 47, 40, 41, 61, 0, 0, 0,
  0, Space, 63, 96, 220, 42, 0, 39, 214, 196, 176, 59, 58, 95>>[u - 29]]
HostDEAltGr(u) ==
  CASE u = 8 -> 8364 [] u = 20 -> 64 [] u = 36 -> 123 [] u = 37 -> 91
    [] u = 38 -> 93 [] u = 39 -> 125 [] u = 45 -> 92 [] u = 48 -> 126
    [] u = 100 -> 124 [] OTHER -> 0

\* On a German keyboard Z is between T and U and Y is on the bottom row.
Letter(layout, u) ==
  IF layout = DE /\ u = 28 THEN 122 ELSE IF layout = DE /\ u = 29 THEN 121 ELSE u + 93

HostPlain(layout) == IF layout = DE THEN HostDEPlain ELSE HostUSPlain
HostShift(layout) == IF layout = DE THEN HostDEShift ELSE HostUSShift

\* The character that a host prints for one stroke, 0 when there is none.
HostChar(layout, s) ==
  LET mod == s[1]
      u == s[2]
  IN IF u \in 4..29 /\ mod = 0 THEN Letter(layout, u)
     ELSE IF u \in 4..29 /\ mod = Shift THEN Letter(layout, u) - 32
     ELSE IF layout = DE /\ mod = AltGr THEN HostDEAltGr(u)
     ELSE IF layout = DE /\ u = 100 THEN IF mod = 0 THEN 60 ELSE 62
     ELSE IF u \in 30..56 /\ mod = 0 THEN HostPlain(layout)[u]
     ELSE IF u \in 30..56 /\ mod = Shift THEN HostShift(layout)[u]
     ELSE 0

\* Circumflex, grave, tilde and acute wait for the next key on a German
\* layout and print themselves when it is the space bar.  For the tilde this
\* is the profile of the core's test de_ascii_dead_key_profile; hosts whose
\* tilde prints at once are not this host.
HostDead(layout) == IF layout = DE THEN {94, 96, 126, 180} ELSE {}

\* What a host reads from the last k strokes: code points, 0 where a stroke
\* means nothing to it.
HostRead(layout, strokes) ==
  LET char(k) == HostChar(layout, strokes[Len(strokes) - k + 1])
      read[k \in 0..Len(strokes)] ==
        IF k = 0 THEN <<>>
        ELSE IF char(k) \notin HostDead(layout) THEN <<char(k)>> \o read[k - 1]
        ELSE IF k = 1 THEN <<>>
        ELSE <<IF char(k - 1) = Space THEN char(k) ELSE 0>> \o read[k - 2]
  IN read

HostReads(layout, strokes) == HostRead(layout, strokes)[Len(strokes)]

\* The code points the layouts are said to offer (docs/LIMITATIONS.md).
Typeable(layout) ==
  (32..126) \cup
  (IF layout = DE THEN {228, 246, 252, 196, 214, 220, 223, 8364, 180} ELSE {})
=============================================================================
