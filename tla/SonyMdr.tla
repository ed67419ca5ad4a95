------------------------------- MODULE SonyMdr -------------------------------
(***************************************************************************)
(* The Sony driver, drivers/sony_mdr.py with the types of drivers/spec.py: *)
(* which record a message belongs to, what a payload says, and the message *)
(* that changes a setting.  A reading is a record of features; Nothing is  *)
(* a decoder that declines.                                                *)
(***************************************************************************)
EXTENDS Framing, TLC

COMMAND_1 == \h0C
COMMAND_2 == \h0E

NOISE_VARIANT    == \h17
EQ_MANUAL_PRESET == \hA0
BAND_COUNT       == 5

\* A dict of names by code, given as its items.
Table(items) == [code \in {item[1] : item \in items} |->
                   (CHOOSE item \in items : item[1] = code)[2]]

CODECS == Table({<<\h00, "unknown">>, <<\h01, "SBC">>, <<\h02, "AAC">>, <<\h10, "LDAC">>,
                 <<\h20, "aptX">>, <<\h21, "aptX HD">>})
EQ_PRESETS == Table({<<\h00, "off">>, <<\h10, "bright">>, <<\h11, "excited">>,
                     <<\h12, "mellow">>, <<\h13, "relaxed">>, <<\h14, "vocal">>,
                     <<\h15, "treble">>, <<\h16, "bass">>, <<\h17, "speech">>,
                     <<\hA0, "manual">>, <<\hA1, "custom 1">>, <<\hA2, "custom 2">>})
SENSITIVITIES == Table({<<\h00, "auto">>, <<\h01, "high">>, <<\h02, "low">>})
TIMEOUTS == Table({<<\h00, "short">>, <<\h01, "standard">>, <<\h02, "long">>, <<\h03, "off">>})

Code(table, name) == CHOOSE code \in DOMAIN table : table[code] = name
Name(table, code) == IF code \in DOMAIN table THEN table[code] ELSE ToString(code)

\* Zero means on for every setting that uses the shared on/off value.
SwitchOn(byte) == byte = 0
SwitchByte(on) == IF on THEN 0 ELSE 1
Flag(on) == IF on THEN 1 ELSE 0

Clamp(value, low, high) == IF value < low THEN low ELSE IF value > high THEN high ELSE value

\* A payload of at least n bytes whose second is one of `sub`.
Fits(payload, n, sub) == Len(payload) >= n /\ payload[2] \in sub

----------------------------------------------------------------------------
(* Decoders *)

\* The bytes of a name, one that is not ASCII replaced, and where they are not
\* zero: what is shown is without the zeros around it.
Ascii(p) == [i \in 1..p[3] |-> IF p[3 + i] < 128 THEN p[3 + i] ELSE \hFFFD]
Shown(ascii) == {i \in DOMAIN ascii : ascii[i] # 0}

DecodeFirmware(p) ==
    IF \/ ~Fits(p, 4, {\h02}) \/ p[3] = 0 \/ Len(p) < 3 + p[3]
       \/ Shown(Ascii(p)) = {}
    THEN Nothing
    ELSE [firmware |-> SubSeq(Ascii(p), Min(Shown(Ascii(p))), Max(Shown(Ascii(p))))]

DecodeBattery(p) ==
    IF ~Fits(p, 4, {\h00}) \/ p[3] > 100 THEN Nothing
    ELSE [battery |-> p[3], charging |-> p[4] = 1]

DecodeCodec(p) ==
    IF ~Fits(p, 3, {\h02}) THEN Nothing ELSE [codec |-> Name(CODECS, p[3])]

\* 67 17 01 <enabled> <ambient> [wind] <focus> <level>
DecodeNoise(p) ==
    IF \/ ~Fits(p, 6, {\h15, \h17, \h22}) \/ Len(p) > 8
       \/ p[2] = NOISE_VARIANT /\ Len(p) < 7
       \/ p[4] \notin {0, 1}
       \/ Last(p) > 20
    THEN Nothing
    ELSE LET windy == p[2] = NOISE_VARIANT /\ Len(p) > 7 /\ p[6] \in {3, 5}
         IN [noise |-> IF p[4] = 0 THEN "off"
                       ELSE IF windy THEN "wind"
                       ELSE IF p[5] = 1 THEN "ambient" ELSE "anc",
             focus_on_voice |-> p[Len(p) - 1] = 1,
             ambient_level  |-> Last(p),
             noise_variant  |-> p[2]]

\* The values of a curve: steps from 10 or, where there is no clear bass, from 6.
Gains(p) ==
    LET values == SubSeq(p, 5, 4 + p[4])
    IN [i \in DOMAIN values |-> values[i] - (IF p[4] = 6 THEN 10 ELSE 6)]

\* 57 00 <preset> <count> <values>; of six values the first is clear bass.
DecodeEqualizer(p) ==
    IF \/ ~Fits(p, 4, {\h00}) \/ p[4] \notin {6, 10} \/ Len(p) < 4 + p[4]
       \/ \E i \in DOMAIN Gains(p) : Gains(p)[i] \notin -10..10
    THEN Nothing
    ELSE [eq_preset     |-> Name(EQ_PRESETS, p[3]),
          eq_clear_bass |-> IF p[4] = 6 THEN <<Head(Gains(p))>> ELSE <<>>,
          eq_bands      |-> IF p[4] = 6 THEN Tail(Gains(p)) ELSE Gains(p)]

DecodeSpeakToChat(p) ==
    IF ~Fits(p, 4, {\h0C}) THEN Nothing ELSE [speak_to_chat |-> SwitchOn(p[3])]

DecodeSpeakToChatConfig(p) ==
    IF ~Fits(p, 4, {\h0C}) \/ p[3] \notin DOMAIN SENSITIVITIES \/ p[4] \notin DOMAIN TIMEOUTS
    THEN Nothing
    ELSE [speak_to_chat_sensitivity |-> SENSITIVITIES[p[3]],
          speak_to_chat_timeout     |-> TIMEOUTS[p[4]]]

DecodePauseOnRemoval(p) ==
    IF ~Fits(p, 3, {\h01}) THEN Nothing ELSE [pause_on_removal |-> SwitchOn(p[3])]

\* As the source reads it: the third byte, though the captured reply has four.
DecodeVoiceGuidance(p) ==
    IF ~Fits(p, 4, {\h01}) THEN Nothing ELSE [voice_guidance |-> SwitchOn(p[3])]

DecodeDsee(p) ==
    IF ~Fits(p, 3, {\h02}) THEN Nothing ELSE [dsee |-> p[3] = 1]

DecodeTouchSensor(p) ==
    IF ~Fits(p, 4, {\hD2}) THEN Nothing ELSE [touch_sensor |-> SwitchOn(p[4])]

----------------------------------------------------------------------------
(* Records and the messages that belong to them *)

RECORDS == <<
    [id |-> "firmware", request |-> <<\h04, \h02>>, type |-> COMMAND_1,
     provides |-> {"firmware"}],
    [id |-> "battery", request |-> <<\h22, \h00>>, type |-> COMMAND_1,
     provides |-> {"battery", "charging"}],
    [id |-> "codec", request |-> <<\h12, \h02>>, type |-> COMMAND_1,
     provides |-> {"codec"}],
    [id |-> "noise", request |-> <<\h66, \h17>>, type |-> COMMAND_1,
     provides |-> {"noise", "focus_on_voice", "ambient_level"}],
    [id |-> "equalizer", request |-> <<\h56, \h00>>, type |-> COMMAND_1,
     provides |-> {"eq_preset", "eq_bands", "eq_clear_bass"}],
    [id |-> "speak_to_chat", request |-> <<\hF6, \h0C>>, type |-> COMMAND_1,
     provides |-> {"speak_to_chat"}],
    [id |-> "speak_to_chat_config", request |-> <<\hFA, \h0C>>, type |-> COMMAND_1,
     provides |-> {"speak_to_chat_sensitivity", "speak_to_chat_timeout"}],
    [id |-> "pause_on_removal", request |-> <<\hF6, \h01>>, type |-> COMMAND_1,
     provides |-> {"pause_on_removal"}],
    [id |-> "voice_guidance", request |-> <<\h46, \h01>>, type |-> COMMAND_2,
     provides |-> {"voice_guidance"}],
    [id |-> "dsee", request |-> <<\hE6, \h02>>, type |-> COMMAND_1,
     provides |-> {"dsee"}],
    [id |-> "touch_sensor", request |-> <<\hD6, \hD2>>, type |-> COMMAND_1,
     provides |-> {"touch_sensor"}] >>

Reply(record) == (record.request[1] + 1) % 256
Notification(record) == (record.request[1] + 3) % 256

\* Type, payload type and the sub-byte echoed back: the first two alone do not
\* tell speak-to-chat and pause-on-removal apart.
Matches(record, message) ==
    /\ message.type = record.type
    /\ Len(message.payload) > 1
    /\ message.payload[1] \in {Reply(record), Notification(record)}
    /\ message.payload[2] = record.request[2]

DecodeRecord(record, p) ==
    CASE record.id = "firmware"             -> DecodeFirmware(p)
      [] record.id = "battery"              -> DecodeBattery(p)
      [] record.id = "codec"                -> DecodeCodec(p)
      [] record.id = "noise"                -> DecodeNoise(p)
      [] record.id = "equalizer"            -> DecodeEqualizer(p)
      [] record.id = "speak_to_chat"        -> DecodeSpeakToChat(p)
      [] record.id = "speak_to_chat_config" -> DecodeSpeakToChatConfig(p)
      [] record.id = "pause_on_removal"     -> DecodePauseOnRemoval(p)
      [] record.id = "voice_guidance"       -> DecodeVoiceGuidance(p)
      [] record.id = "dsee"                 -> DecodeDsee(p)
      [] record.id = "touch_sensor"         -> DecodeTouchSensor(p)

----------------------------------------------------------------------------
(* Encoders: the payload that writes `value` to `control` when `state` was  *)
(* the last reading.  What a message carries besides the control is         *)
(* restated from that reading.                                              *)

EncodeNoise(control, value, state) ==
    LET wanted == [state EXCEPT ![control] = value]
    IN << \h68, state.noise_variant, 1,
          Flag(wanted.noise # "off"), Flag(wanted.noise = "ambient"),
          Flag(wanted.focus_on_voice), Clamp(wanted.ambient_level, 0, 20) >>

\* Mutant: clear bass is sent as zero unless it is what changes.
EncodeBandsOnly(control, value, state) ==
    LET bands == IF control = "eq_bands" THEN value ELSE state.eq_bands
        bass == IF control = "eq_bands" THEN 0 ELSE value[1]
    IN << \h58, 0, EQ_MANUAL_PRESET, 6, Clamp(bass, -10, 10) + 10 >>
         \o [i \in DOMAIN bands |-> Clamp(bands[i], -10, 10) + 10]

EncodeEqualizer(control, value, state) ==
    LET wanted == [state EXCEPT ![control] = value]
        bass == IF wanted.eq_clear_bass = <<>> THEN 0 ELSE wanted.eq_clear_bass[1]
        values == <<bass>> \o wanted.eq_bands
    IN << \h58, 0, EQ_MANUAL_PRESET, Len(values) >>
         \o [i \in DOMAIN values |-> Clamp(values[i], -10, 10) + 10]

EncodeSpeakToChatConfig(control, value, state) ==
    LET wanted == [state EXCEPT ![control] = value]
    IN << \hFC, \h0C, Code(SENSITIVITIES, wanted.speak_to_chat_sensitivity),
          Code(TIMEOUTS, wanted.speak_to_chat_timeout) >>

NoiseControls == {"noise", "ambient_level", "focus_on_voice"}
CurveControls == {"eq_bands", "eq_clear_bass"}
TalkControls  == {"speak_to_chat_sensitivity", "speak_to_chat_timeout"}

\* ValueError: the write is refused and nothing is sent.
Refused(control, value, state) ==
    \/ control \in NoiseControls
         /\ [state EXCEPT ![control] = value].noise \notin {"off", "anc", "ambient"}
    \/ control = "eq_bands" /\ Len(value) # BAND_COUNT
    \/ control = "eq_preset" /\ \A code \in DOMAIN EQ_PRESETS : EQ_PRESETS[code] # value
    \/ control = "speak_to_chat_sensitivity"
         /\ \A code \in DOMAIN SENSITIVITIES : SENSITIVITIES[code] # value
    \/ control = "speak_to_chat_timeout"
         /\ \A code \in DOMAIN TIMEOUTS : TIMEOUTS[code] # value

EncodeControl(control, value, state) ==
    CASE control \in NoiseControls -> EncodeNoise(control, value, state)
      [] control \in CurveControls -> EncodeEqualizer(control, value, state)
      [] control \in TalkControls  -> EncodeSpeakToChatConfig(control, value, state)
      [] control = "eq_preset"        -> << \h58, 0, Code(EQ_PRESETS, value), 0 >>
      [] control = "speak_to_chat"    -> << \hF8, \h0C, SwitchByte(value), 1 >>
      [] control = "pause_on_removal" -> << \hF8, \h01, SwitchByte(value) >>
      [] control = "voice_guidance"   -> << \h48, \h01, SwitchByte(value) >>
      [] control = "dsee"             -> << \hE8, \h02, Flag(value) >>

WriteType(control) == IF control = "voice_guidance" THEN COMMAND_2 ELSE COMMAND_1
=============================================================================
