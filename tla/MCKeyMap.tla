------------------------------ MODULE MCKeyMap ------------------------------
(***************************************************************************)
(* KeyMap against its reference definitions over bounded texts.  A text    *)
(* grows character by character, or byte by byte, so that malformed and    *)
(* truncated sequences occur.                                              *)
(***************************************************************************)
EXTENDS KeyMap

CONSTANTS
  Chars,     \* code points that texts begin with
  Followers, \* code points that may follow another
  MaxChars,  \* bound on their number
  TextBytes, \* bytes that texts are made of
  MaxBytes   \* bound on their number

ASSUME TextAssumption == Chars \subseteq Scalars /\ TextBytes \subseteq 0..255

VARIABLES
  grows,    \* "chars" or "bytes"
  setting,  \* <<layout, mode, flags>> as bridge_core_stage lets them pass
  chars,    \* the code points of the text
  text      \* its bytes

textVars == <<grows, setting, chars, text>>

Settings == {US, DE} \X (({1} \X {0}) \cup ({TEXT} \X (0..3)))

TextInit ==
  /\ \/ grows = "chars" /\ setting \in Settings
     \/ grows = "bytes" /\ setting = <<US, <<1, 0>> >>
  /\ chars = <<>>
  /\ text = <<>>

AppendChar(cp) ==
  /\ grows = "chars" /\ Len(chars) < MaxChars
  /\ chars # <<>> => cp \in Followers
  /\ chars' = Append(chars, cp)
  /\ text' = text \o EncodeUTF8(cp)
  /\ UNCHANGED <<grows, setting>>

AppendByte(b) ==
  /\ grows = "bytes" /\ Len(text) < MaxBytes
  /\ text' = Append(text, b)
  /\ UNCHANGED <<grows, setting, chars>>

TextNext ==
  \/ \E cp \in Chars : AppendChar(cp)
  \/ \E b \in TextBytes : AppendByte(b)

TextSpec == TextInit /\ [][TextNext]_textVars

Mode == setting[2][1]
Flags == setting[2][2]
Result == Compile(setting[1], Mode, Flags, text)

\* A CR in front of an LF belongs to its line break, if these are allowed.
Joined(i) ==
  /\ AllowLF(Mode, Flags) /\ chars[i] = CR
  /\ i < Len(chars) /\ chars[i + 1] = LF

\* The last k characters of the text as the host should see them.
Seen ==
  LET seen[k \in 0..Len(chars)] ==
        IF k = 0 THEN <<>>
        ELSE LET i == Len(chars) - k + 1
             IN IF Joined(i) THEN seen[k - 1] ELSE <<chars[i]>> \o seen[k - 1]
  IN seen

Visible == Seen[Len(chars)]

Permitted(cp) ==
  \/ cp \in Typeable(setting[1])
  \/ cp = LF /\ AllowLF(Mode, Flags)
  \/ cp = Tab /\ AllowTab(Mode, Flags)

\* A text that bridge_core_stage accepts is read back by a host with the
\* chosen layout character for character: wrong key, wrong modifier, a dead
\* key that swallows its successor or a doubled line break would show here.
HostReadsText ==
  grows = "chars" /\ Result.status = "OK" =>
    HostReads(setting[1], Result.strokes) = Visible

\* The loop accepts a text exactly when every character of it is permitted:
\* nothing untypeable slips through and no typeable text is refused.
AcceptsExactly ==
  grows = "chars" =>
    (Result.status = "OK" <=> \A i \in 1..Len(Visible) : Permitted(Visible[i]))

\* strokes[BRIDGE_MAX_STROKES] cannot overflow: a text of n bytes compiles
\* to at most 2n strokes, and no stroke has usage 0, which the drain skips.
StrokesFit ==
  /\ Len(Result.strokes) <= 2 * Len(text)
  /\ \A i \in 1..Len(Result.strokes) : Result.strokes[i] \in (0..255) \X (1..255)

\* decode_utf8 accepts exactly the well-formed sequences of the Unicode
\* standard and returns the scalar value whose encoding it consumed.
DecodeExact ==
  text # <<>> =>
    LET d == decode_utf8(text, 0)
        lengths == {n \in 1..Len(text) : WellFormed(SubSeq(text, 1, n))}
    IN /\ d.status = "OK" <=> lengths # {}
       /\ d.status = "OK" => d.next \in lengths /\ EncodeUTF8(d.cp) = SubSeq(text, 1, d.next)

AllChars == (0..127) \cup {160, 167, 176, 180, 196, 214, 220, 223, 228, 233, 246, 252,
                           8211, 8364, 128512}
\* Line breaks, controls, the space and dead keys, letters that move, umlauts.
Sequels == {0, 9, 10, 13, 27, 32, 34, 39, 64, 94, 96, 97, 101, 121, 122, 89, 90, 126, 127,
            180, 196, 223, 228, 8364, 128512}
BoundaryBytes == {127, 128, 143, 144, 159, 160, 191, 193, 194, 223, 224, 225, 237, 238,
                  239, 240, 244, 245}
=============================================================================
