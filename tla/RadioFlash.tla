------------------------------ MODULE RadioFlash ------------------------------
(***************************************************************************)
(* firmware/radio/radio_config.c, firmware/radio/radio_provision_flash.c   *)
(* and the commands SET_RADIO and CLEAR_RADIO: the Wi-Fi credentials in a  *)
(* sector of their own, beside the roster of ControllerFlash, which says   *)
(* who may change them and shares the power supply.                        *)
(*                                                                         *)
(* The sector has no second copy and no commit marker: it is erased and    *)
(* programmed in place, and only its CRC tells a whole record from what    *)
(* power loss left.  An erase sets bits and a program operation clears     *)
(* them, so an interrupted one leaves numbers between the ones of the      *)
(* record and the erased value.  Lengths are counted from the end of the   *)
(* 24-byte header; the CRC stands for the bytes it is computed from.       *)
(***************************************************************************)
EXTENDS ControllerFlash, Sequences, SequencesExt

CONSTANTS
  MaxSsid,     \* 32
  MinPsk,      \* 8
  MaxPsk,      \* 63
  Printable,   \* 32..126
  Blank,       \* an erased byte: 0xff
  Ones,        \* an erased 16-bit number: 0xffff
  SectorSize,  \* RADIO_SECTOR_SIZE without the header
  RadioFrames  \* SET_RADIO commands: <<opcode, ssid_len, psk_len>> \o ssid \o psk, or not

ASSUME RadioAssumption ==
  /\ {MaxSsid, MinPsk, MaxPsk, Blank, Ones, SectorSize} \subseteq Nat \ {0}
  /\ MinPsk <= MaxPsk /\ MaxSsid + MaxPsk <= SectorSize
  /\ Printable \subseteq 0..(Blank - 1)
  /\ RadioFrames \subseteq Seq(Nat)

VARIABLES
  radio,    \* the image in the radio sector
  rop,      \* the flash operation in progress: [step, image]
  granted,  \* history: the network of the last command answered with OK
  since     \* history: the networks of the flash operations begun after it

radioVars == <<radio, rop, granted, since>>

NoNetwork == <<>>

ErasedImage ==
  [magic |-> "blank", total |-> Ones, crc |-> <<>>, a |-> Ones, b |-> Ones, c |-> Ones,
   d |-> Ones, body |-> [i \in 1..SectorSize |-> Blank]]

\* Any image that is neither erased nor parsed.
Garbage == [ErasedImage EXCEPT !.magic = "torn"]

NoRadioOp == [step |-> "idle", image |-> ErasedImage]

-----------------------------------------------------------------------------
\* What the CRC is computed from: the four lengths and all that follows them.
Covered(a, b, c, d, body) == <<a, b, c, d, SubSeq(body, 1, a + b + c + d)>>

build2_ok(ssid, psk) ==
  /\ Len(ssid) \in 1..MaxSsid /\ Len(psk) \in MinPsk..MaxPsk
  /\ ToSet(ssid \o psk) \subseteq Printable

radio_config_build2(ssid, psk) ==
  LET text == ssid \o psk
      body == [i \in 1..SectorSize |-> IF i <= Len(text) THEN text[i] ELSE Blank]
  IN [magic |-> "PBRAD02", total |-> Len(text), a |-> Len(ssid), b |-> Len(psk), c |-> 0,
      d |-> 0, crc |-> Covered(Len(ssid), Len(psk), 0, 0, body), body |-> body]

\* Seeded fault: the CRC is not compared.
CrcMatches_any(s) == TRUE

CrcMatches(s) == s.crc = Covered(s.a, s.b, s.c, s.d, s.body)

\* parse_common for schema 2; the magic stands for the schema as well.
radio_config_parse2(s) ==
  /\ s.magic = "PBRAD02"
  /\ s.a \in 1..MaxSsid /\ s.b \in MinPsk..MaxPsk
  /\ s.c <= 2048 /\ s.d <= 1024 /\ (s.c = 0 <=> s.d = 0)
  /\ s.a + s.b + s.c + s.d <= SectorSize
  /\ s.total = s.a + s.b + s.c + s.d
  /\ \A i \in 1..(s.a + s.b) : s.body[i] \in Printable
  /\ \A i \in (s.total + 1)..SectorSize : s.body[i] = Blank
  /\ CrcMatches(s)

\* radio_provision_flash_read: <<ssid, psk>>
NetworkOf(s) ==
  IF radio_config_parse2(s)
  THEN <<SubSeq(s.body, 1, s.a), SubSeq(s.body, s.a + 1, s.a + s.b)>>
  ELSE NoNetwork

-----------------------------------------------------------------------------
\* Every sector between the record s and an erased one.
Between(s) ==
  [magic : {s.magic, "torn"}, total : (s.total)..Ones, crc : {s.crc, <<>>},
   a : (s.a)..Ones, b : (s.b)..Ones, c : (s.c)..Ones, d : (s.d)..Ones,
   body : {f \in [1..SectorSize -> 0..Blank] : \A i \in 1..SectorSize : f[i] >= s.body[i]}]

Ssid(p) == SubSeq(p, 4, 3 + p[2])
Psk(p) == SubSeq(p, 4 + p[2], Len(p))
LengthOk(p) == Len(p) = 3 + p[2] + p[3]

\* The records that some command writes, each with what may still be parsed
\* when an operation on it is interrupted.
Records ==
  {radio_config_build2(Ssid(p), Psk(p)) :
     p \in {q \in RadioFrames : Len(q) >= 3 /\ LengthOk(q) /\ build2_ok(Ssid(q), Psk(q))}}

Legible ==
  UNION {{<<s, t>> : t \in {u \in Between(s) : radio_config_parse2(u)}} : s \in Records}

Interrupted(s) == {s, Garbage} \cup {l[2] : l \in {m \in Legible : m[1] = s}}

RadioInit ==
  /\ Init
  /\ radio = ErasedImage /\ rop = NoRadioOp
  /\ granted = NoNetwork /\ since = {}

RadioIdle == rop.step = "idle" /\ UNCHANGED radioVars

\* flash_safe_execute refuses, or the read-back differs.
RadioFailed ==
  /\ status' = "STATE" /\ rop' = NoRadioOp
  /\ UNCHANGED <<radio, granted, since>>

BeginRadio(image) ==
  \/ /\ rop' = [step |-> "erase", image |-> image]
     /\ since' = since \cup {NetworkOf(image)}
     /\ UNCHANGED <<radio, granted, status>>
  \/ RadioFailed

RadioRefuse(st) == status' = st /\ UNCHANGED radioVars

\* What SET_RADIO answers before it touches the flash; "OK" goes on.
set_radio_verdict(caller, p, mounted) ==
  IF Len(p) < 3 THEN "ARGUMENT"
  ELSE IF ~controller_store_is_admin(ram, caller) THEN "OWNER"
  ELSE IF mounted THEN "POLICY"
  ELSE IF ~(LengthOk(p) /\ build2_ok(Ssid(p), Psk(p))) THEN "ARGUMENT"
  ELSE IF ~radio_config_parse2(radio_config_build2(Ssid(p), Psk(p))) THEN "STATE"
  ELSE "OK"

ble_handle_set_radio(caller, p, mounted) ==
  LET st == set_radio_verdict(caller, p, mounted)
  IN IF st = "OK" THEN BeginRadio(radio_config_build2(Ssid(p), Psk(p))) ELSE RadioRefuse(st)

ble_handle_clear_radio(caller, mounted) ==
  IF ~controller_store_is_admin(ram, caller) THEN RadioRefuse("OWNER")
  ELSE IF mounted THEN RadioRefuse("POLICY")
  ELSE BeginRadio(ErasedImage)

RadioCommand(caller, mounted) ==
  /\ pc = "running" /\ rop.step = "idle"
  /\ \/ \E p \in RadioFrames : ble_handle_set_radio(caller, p, mounted)
     \/ ble_handle_clear_radio(caller, mounted)
  /\ UNCHANGED <<flash, pc, ram, op, committed, attempted>>

\* radio_program_sector and radio_erase_sector; the flash may not take it.
EraseRadio ==
  /\ rop.step = "erase"
  /\ radio' \in {ErasedImage, radio}
  /\ rop' = [rop EXCEPT !.step = IF rop.image = ErasedImage THEN "verify" ELSE "program"]
  /\ UNCHANGED <<vars, granted, since>>

ProgramRadio ==
  /\ rop.step = "program"
  /\ radio' \in {radio, IF radio \in {ErasedImage, rop.image} THEN rop.image ELSE Garbage}
  /\ rop' = [rop EXCEPT !.step = "verify"]
  /\ UNCHANGED <<vars, granted, since>>

\* The read-back of write_and_verify and clear (seeded fault: left out).
RadioVerified_unchecked == TRUE

RadioVerified == radio = rop.image

RadioDone ==
  /\ rop.step = "verify"
  /\ \/ /\ RadioVerified
        /\ status' = "OK" /\ rop' = NoRadioOp
        /\ granted' = NetworkOf(rop.image) /\ since' = {}
        /\ UNCHANGED radio
     \/ ~RadioVerified /\ RadioFailed
  /\ UNCHANGED <<flash, pc, ram, op, committed, attempted>>

\* Power fails in the middle of an operation on the radio sector.
RadioPowerLoss ==
  /\ rop.step # "idle" /\ PowerLoss
  /\ rop' = NoRadioOp
  /\ radio' \in CASE rop.step = "erase" -> Interrupted(radio) \cup {ErasedImage}
                  [] rop.step = "program" /\ radio = ErasedImage ->
                       Interrupted(rop.image) \cup {ErasedImage}
                  [] rop.step = "program" /\ radio # ErasedImage -> {radio, Garbage}
                  [] rop.step = "verify" -> {radio}
  /\ UNCHANGED <<granted, since>>

RadioNext ==
  \/ RadioIdle /\ Next
  \/ \E caller \in Slots, mounted \in BOOLEAN : RadioCommand(caller, mounted)
  \/ EraseRadio \/ ProgramRadio \/ RadioDone \/ RadioPowerLoss

RadioSpec == RadioInit /\ [][RadioNext]_<<vars, radioVars>>

-----------------------------------------------------------------------------
(***************************************************************************)
(* Durability: from the moment a SET_RADIO or CLEAR_RADIO was answered     *)
(* with OK until the flash is next touched, the next boot reads exactly    *)
(* the network it set, or none.  "Returns true only when the read-back     *)
(* parses as schema 2 and matches the submitted ssid/psk".                 *)
(***************************************************************************)
AcknowledgedRadioStays == since = {} => NetworkOf(radio) = granted

(***************************************************************************)
(* "A torn write leaves an unparseable record": after any number of power  *)
(* failures, refused and failed operations, what net_endpoint_start reads  *)
(* is a network that a command really gave, never a mixture and never a    *)
(* certificate area that nobody wrote.                                     *)
(***************************************************************************)
RadioNeverMixed ==
  radio_config_parse2(radio) =>
    /\ NetworkOf(radio) \in {granted} \cup since
    /\ radio.c = 0 /\ radio.d = 0
=============================================================================
