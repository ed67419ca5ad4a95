-------------------------------- MODULE Wire --------------------------------
(***************************************************************************)
(* From a setting to bytes and back to a reading: a control is written     *)
(* through its encoder, the headset does it and says so in a frame, the    *)
(* radio delivers the bytes in chunks, with noise before them or a byte of *)
(* them damaged, and the session cuts them into frames that the device     *)
(* decodes and absorbs.  One link speaks Sony MDR or Fast Pair.            *)
(***************************************************************************)
EXTENDS SonyMdr

FP == INSTANCE FastPair

CONSTANTS
    MaxFrame,    \* framing.MAX_FRAME
    MaxData,     \* fastpair.MAX_DATA
    MaxReports,  \* bound: frames the headset sends
    MaxFaults,   \* bound: bursts of noise and damaged frames
    Truths,      \* [driver -> what a headset has, as a record of features]
    Wishes,      \* [control -> the values somebody may write to it]
    News,        \* [driver -> what may change on the headset itself, likewise]
    Garbage,     \* what a burst of noise may be
    DamagedTo    \* what a damaged byte may become

\* What the features of a headset may be.  One of earbuds that is read from a
\* part or a bit is <<>> when there is none.
Optional(S) == {<<>>} \cup [1..1 -> S]
ModeNames == {bit[1] : bit \in ToSet(FP!NOISE_BITS)}

Names(table) == {table[code] : code \in DOMAIN table}

\* `known` are the parts of which the battery is known.
Features(d, known) ==
    IF d = "fast-pair"
    THEN [battery_parts |-> Optional([known -> [level : 0..100, charging : BOOLEAN]]),
          battery |-> Optional(0..100), charging |-> Optional(BOOLEAN),
          model_id |-> [1..3 -> Byte], noise |-> Optional(ModeNames),
          noise_modes |-> Seq(ModeNames), noise_settable |-> Seq(ModeNames)]
    ELSE [firmware |-> {text \in Seq(1..127) : Len(text) \in 1..127}, battery |-> 0..100,
          charging |-> BOOLEAN, codec |-> Names(CODECS), noise |-> {"off", "anc", "ambient"},
          focus_on_voice |-> BOOLEAN, ambient_level |-> 0..20,
          noise_variant |-> {NOISE_VARIANT}, eq_preset |-> Names(EQ_PRESETS),
          eq_clear_bass |-> [1..1 -> -10..10], eq_bands |-> [1..BAND_COUNT -> -10..10],
          speak_to_chat |-> BOOLEAN, speak_to_chat_sensitivity |-> Names(SENSITIVITIES),
          speak_to_chat_timeout |-> Names(TIMEOUTS), pause_on_removal |-> BOOLEAN,
          voice_guidance |-> BOOLEAN, dsee |-> BOOLEAN, touch_sensor |-> BOOLEAN]

FeaturesOf(d) == DOMAIN Features(d, {})

\* The values of `some` are of features of the headset.
Within(some, d) ==
    /\ DOMAIN some \subseteq FeaturesOf(d)
    /\ \E known \in SUBSET ToSet(FP!Parts) :
         \A f \in DOMAIN some : some[f] \in Features(d, known)[f]

\* What somebody may ask a control for.  Names are checked by the encoder.
Askable ==
    [noise |-> STRING, ambient_level |-> Int, focus_on_voice |-> BOOLEAN,
     eq_bands |-> Seq(Int), eq_clear_bass |-> [1..1 -> Int], eq_preset |-> STRING,
     speak_to_chat |-> BOOLEAN, speak_to_chat_sensitivity |-> STRING,
     speak_to_chat_timeout |-> STRING, pause_on_removal |-> BOOLEAN,
     voice_guidance |-> BOOLEAN, dsee |-> BOOLEAN]

ASSUME WireAssumption ==
    /\ MaxFrame \in Nat /\ MaxData \in Nat
    /\ MaxReports \in Nat /\ MaxFaults \in Nat
    /\ DOMAIN Truths \subseteq {"sony-mdr", "fast-pair"}
    /\ \A d \in DOMAIN Truths : /\ DOMAIN Truths[d] = FeaturesOf(d)
                                /\ Within(Truths[d], d)
                                /\ \A news \in News[d] : Within(news.set, d)
    /\ \A control \in DOMAIN Wishes : /\ control \in DOMAIN Askable
                                      /\ Wishes[control] \subseteq Askable[control]
    /\ Garbage \subseteq Seq(Byte) /\ DamagedTo \subseteq Byte

\* What changes at once is of one record.
ASSUME NewsAssumption ==
    \A d \in DOMAIN Truths : \A news \in News[d] :
        \A record \in ToSet(IF d = "fast-pair" THEN FP!VOLUNTEERED ELSE RECORDS) :
            record.id = news.id => DOMAIN news.set \subseteq record.provides

VARIABLES
    driver,      \* which protocol the link speaks
    truth,       \* what the headset has
    line,        \* bytes the radio has not delivered
    buffer,      \* session.buffer: bytes that are not a whole frame yet
    state,       \* Device.state
    reports,     \* frames sent
    faults,      \* noise and damage so far
    aim,         \* history: truth, had each write changed its own setting only
    was,         \* history: every value each feature had
    spoilt       \* history: features whose last report was damaged

vars == <<driver, truth, line, buffer, state, reports, faults, aim, was, spoilt>>

Init ==
    /\ driver \in DOMAIN Truths
    /\ truth = Truths[driver]
    /\ state = truth
    /\ aim = truth
    /\ was = [f \in DOMAIN truth |-> {truth[f]}]
    /\ line = <<>>
    /\ buffer = <<>>
    /\ reports = 0
    /\ faults = 0
    /\ spoilt = {}

----------------------------------------------------------------------------
(* The headset, as docs/protocol.md and Google's pages describe it *)

\* `old` with the values of `values`.
Over(values, old) ==
    [f \in DOMAIN old |-> IF f \in DOMAIN values THEN values[f] ELSE old[f]]

\* What a headset that has `t` says when asked for a record, or of itself.
Payload(id, t, kind) ==
    CASE id = "firmware" -> <<kind, 2, Len(t.firmware)>> \o t.firmware
      [] id = "battery"  -> <<kind, 0, t.battery, IF t.charging THEN 1 ELSE 0>>
      [] id = "codec"    -> <<kind, 2, Code(CODECS, t.codec)>>
      [] id = "noise"    -> <<kind, t.noise_variant, 1,
                              IF t.noise = "off" THEN 0 ELSE 1,
                              IF t.noise = "ambient" THEN 1 ELSE 0,
                              IF t.focus_on_voice THEN 1 ELSE 0, t.ambient_level>>
      [] id = "equalizer" -> <<kind, 0, Code(EQ_PRESETS, t.eq_preset), 6>>
                             \o [i \in 1..6 |-> 10 + (t.eq_clear_bass \o t.eq_bands)[i]]
      [] id = "speak_to_chat"    -> <<kind, 12, IF t.speak_to_chat THEN 0 ELSE 1, 1>>
      [] id = "speak_to_chat_config" ->
           <<kind, 12, Code(SENSITIVITIES, t.speak_to_chat_sensitivity),
             Code(TIMEOUTS, t.speak_to_chat_timeout)>>
      [] id = "pause_on_removal" -> <<kind, 1, IF t.pause_on_removal THEN 0 ELSE 1>>
      [] id = "voice_guidance"   -> <<kind, 1, IF t.voice_guidance THEN 0 ELSE 1, 1>>
      [] id = "dsee"             -> <<kind, 2, IF t.dsee THEN 1 ELSE 0>>
      [] id = "touch_sensor"     -> <<kind, 210, 0, IF t.touch_sensor THEN 0 ELSE 1>>

PartByte(t, name) ==
    IF t.battery_parts = <<>> THEN 127
    ELSE IF name \notin DOMAIN t.battery_parts[1] THEN 255
    ELSE t.battery_parts[1][name].level
           + (IF t.battery_parts[1][name].charging THEN 128 ELSE 0)

ModeBits(names) ==
    LET bit(i) == IF Contains(names, FP!NOISE_BITS[i][1]) THEN FP!NOISE_BITS[i][2] ELSE 0
    IN bit(1) + bit(2) + bit(3) + bit(4)

Data(id, t) ==
    CASE id = "battery" -> [i \in 1..3 |-> PartByte(t, FP!Parts[i])]
      [] id = "model"   -> t.model_id
      [] id = "noise"   -> <<1, ModeBits(t.noise_modes), ModeBits(t.noise_settable),
                             ModeBits(t.noise)>>

\* What the headset has once it took a write: the layouts of the protocol's
\* writes.  Level and focus are discarded outside ambient mode.
Obeyed(p, t) ==
    CASE p[1] = \h68 ->
           [t EXCEPT !.noise = IF p[4] = 0 THEN "off" ELSE IF p[5] = 1 THEN "ambient" ELSE "anc",
                     !.focus_on_voice = IF p[4] = 1 /\ p[5] = 1 THEN p[6] = 1 ELSE @,
                     !.ambient_level = IF p[4] = 1 /\ p[5] = 1 THEN p[7] ELSE @]
      [] p[1] = \h58 /\ p[4] = 0 -> [t EXCEPT !.eq_preset = EQ_PRESETS[p[3]]]
      [] p[1] = \h58 /\ p[4] = 6 ->
           [t EXCEPT !.eq_preset = EQ_PRESETS[p[3]], !.eq_clear_bass = <<p[5] - 10>>,
                     !.eq_bands = [i \in 1..5 |-> p[5 + i] - 10]]
      [] p[1] = \hFC -> [t EXCEPT !.speak_to_chat_sensitivity = SENSITIVITIES[p[3]],
                                  !.speak_to_chat_timeout = TIMEOUTS[p[4]]]
      [] p[1] = \hF8 /\ p[2] = 12 -> [t EXCEPT !.speak_to_chat = p[3] = 0]
      [] p[1] = \hF8 /\ p[2] = 1  -> [t EXCEPT !.pause_on_removal = p[3] = 0]
      [] p[1] = \h48 -> [t EXCEPT !.voice_guidance = p[3] = 0]
      [] p[1] = \hE8 -> [t EXCEPT !.dsee = p[3] = 1]

\* The records of the driver, in the order in which they look at a message.
Known == IF driver = "fast-pair" THEN FP!VOLUNTEERED ELSE RECORDS
Records == ToSet(Known)

\* The frame in which a headset that has t says so.  A bound: its first is the
\* answer to a request, the next ones are announcements.
FrameOf(record, t) ==
    LET kind == IF reports = 0 THEN Reply(record) ELSE Notification(record)
    IN IF driver = "fast-pair"
       THEN FP!EncodeFrame(record.group, record.code, Data(record.id, t))
       ELSE Encode([type |-> record.type, seq |-> reports % 2,
                    payload |-> Payload(record.id, t, kind)])

----------------------------------------------------------------------------
(* The radio *)

\* One byte is damaged, or the end is lost, or the first byte is.
Mangled(frame) ==
    ({[frame EXCEPT ![i] = byte] : i \in DOMAIN frame, byte \in DamagedTo}
       \cup {SubSeq(frame, 1, n) : n \in 1..(Len(frame) - 1)}
       \cup {Tail(frame)})
    \ {frame}

\* The headset, which now has t, reports a record of it.  What is under way is
\* in order, so it is enough to let it speak when none of it is half read.
Report(record, t) ==
    /\ reports < MaxReports
    /\ buffer = <<>>
    /\ reports' = reports + 1
    /\ truth' = t
    /\ was' = [f \in DOMAIN was |-> was[f] \cup {t[f]}]
    /\ \/ /\ line' = line \o FrameOf(record, t)
          /\ spoilt' = spoilt \ record.provides
          /\ UNCHANGED faults
       \/ /\ faults < MaxFaults
          /\ faults' = faults + 1
          /\ \E bytes \in Mangled(FrameOf(record, t)) : line' = line \o bytes
          /\ spoilt' = spoilt \cup record.provides

Noise ==
    /\ faults < MaxFaults
    /\ buffer = <<>>
    /\ faults' = faults + 1
    /\ \E bytes \in Garbage : line' = line \o bytes
    /\ UNCHANGED <<driver, truth, buffer, state, reports, aim, was, spoilt>>
----------------------------------------------------------------------------
(* The session and the device *)

\* Values of `values` over those of `state`.  A battery that reads zero keeps
\* its last reading where the driver says so.
Applied(values, old) ==
    LET noise == driver = "sony-mdr" /\ "battery" \in DOMAIN values /\ values.battery = 0
    IN Over([f \in DOMAIN values \ (IF noise THEN {"battery"} ELSE {}) |-> values[f]], old)

\* What a record of the driver makes of a message: Nothing, where it is not
\* its own or its decoder declines.
Reading(record, message) ==
    IF driver = "fast-pair"
    THEN IF FP!Is(record, message)
         THEN FP!DecodeVolunteered(record, message.payload) ELSE Nothing
    ELSE IF Matches(record, message)
         THEN DecodeRecord(record, message.payload) ELSE Nothing

\* The first record that matches and does not decline is the one.  What
\* `decode` did not take for a frame is dropped.
Absorb(old, message) ==
    LET heard == {i \in DOMAIN Known : Reading(Known[i], message) # Nothing}
    IN IF message = Nothing \/ heard = {} THEN old
       ELSE Applied(Reading(Known[Min(heard)], message), old)

\* Whole messages in the buffer, and what is left of it.
Cut(bytes) ==
    IF driver = "fast-pair" THEN FP!Frames(bytes, MaxData)
    ELSE LET cut == Split(bytes, MaxFrame)
         IN [cut EXCEPT !.frames = [i \in DOMAIN cut.frames |-> Decode(cut.frames[i])]]

Receive(n) ==
    /\ n \in 1..Len(line)
    /\ line' = From(line, n + 1)
    /\ LET cut == Cut(buffer \o SubSeq(line, 1, n))
       IN /\ buffer' = cut.rest
          /\ state' = FoldLeft(Absorb, state, cut.frames)
    /\ UNCHANGED <<driver, truth, reports, faults, aim, was, spoilt>>

\* The setting changes on the headset itself.
Change(news) ==
    /\ \E record \in Records : /\ record.id = news.id
                               /\ Report(record, Over(news.set, truth))
    /\ aim' = Over(news.set, aim)
    /\ UNCHANGED <<driver, buffer, state>>

\* What a write is meant to do: change its setting, within its range, and no
\* other, except that a curve is a preset of its own.
Meant(control, value, t) ==
    CASE control = "ambient_level" -> [t EXCEPT !.ambient_level = Clamp(value, 0, 20)]
      [] control = "eq_bands" ->
           [t EXCEPT !.eq_bands = [i \in DOMAIN value |-> Clamp(value[i], -10, 10)],
                     !.eq_preset = "manual"]
      [] control = "eq_clear_bass" ->
           [t EXCEPT !.eq_clear_bass = <<Clamp(value[1], -10, 10)>>, !.eq_preset = "manual"]
      [] OTHER -> [t EXCEPT ![control] = value]

Available(control) ==
    CASE control \in {"ambient_level", "focus_on_voice"} -> state.noise = "ambient"
      [] control \in TalkControls -> state.speak_to_chat
      [] OTHER -> TRUE

\* A write made while the reading of its record is current; the headset takes
\* it and announces what it then has.
Write(control, value) ==
    /\ driver = "sony-mdr"
    /\ Available(control)
    /\ ~Refused(control, value, state)
    /\ \E record \in Records :
         /\ control \in record.provides
         /\ \A f \in record.provides : state[f] = truth[f]
         /\ Report(record, Obeyed(EncodeControl(control, value, state), truth))
    /\ aim' = Meant(control, value, aim)
    /\ UNCHANGED <<driver, buffer, state>>

Next ==
    \/ \E n \in {1, Len(line)} : Receive(n)
    \/ \E news \in News[driver] : Change(news)
    \/ \E control \in DOMAIN Wishes : \E value \in Wishes[control] : Write(control, value)
    \/ Noise

Spec == Init /\ [][Next]_vars

----------------------------------------------------------------------------
(* Properties *)

\* Fast Pair has no checksum: after a fault it may read anything.
Exact == driver = "fast-pair" => faults = 0

\* Every feature that was reported undamaged reads as the headset has it, once
\* its bytes are in: whatever noise came before its frame or damaged another
\* frame before it, however the bytes are chunked, and whichever record it is
\* in.  (A Sony battery that reads zero keeps its last reading.)
GoodFramesRead ==
    line = <<>> /\ Exact =>
        \A f \in DOMAIN truth \ spoilt :
            state[f] = truth[f] \/ (f = "battery" /\ truth[f] = 0)

\* No feature ever reads a value the headset never had: a damaged frame, a
\* frame cut short or noise is dropped and not decoded to something else.
NothingInvented == Exact => \A f \in DOMAIN state : state[f] \in was[f]

\* The last bytes are those of `end`.
EndsIn(bytes, end) ==
    /\ Len(end) <= Len(bytes)
    /\ \A i \in 1..Len(end) : bytes[Len(bytes) - Len(end) + i] = end[i]

\* The state says of the record what the headset has.
Reads(record) ==
    \A f \in record.provides : state[f] = truth[f] \/ (f = "battery" /\ truth[f] = 0)

\* What the headset said last, if it said it of this record.
LastSaid(record) ==
    LET kind == IF reports = 1 THEN Reply(record) ELSE Notification(record)
    IN Encode([type |-> record.type, seq |-> (reports + 1) % 2,
               payload |-> Payload(record.id, truth, kind)])

\* What a headset says of a record gets through whatever came before it, however
\* it is cut: while its frame is the last on its way, a read leaves it the last
\* or takes all of it, and then the state says what it said.
LastFrameRead ==
    \A record \in Records :
        LET frame == LastSaid(record)
        IN EndsIn(buffer \o line, frame) /\ Len(frame) <= MaxFrame =>
             \/ EndsIn(buffer' \o line', frame)
             \/ line' = <<>> /\ Reads(record)'

LastFramesRead == [][driver = "sony-mdr" /\ Len(line') < Len(line) => LastFrameRead]_vars

\* A write changes its own setting to the value asked for and no other of the
\* settings that travel in the same message, with the polarity and the offsets
\* of each.
WritesChangeTheirOwn == truth = aim

\* What is kept between two reads is bounded and holds nothing that could be
\* read already, whatever the headset sends.
BufferBounded ==
    IF driver = "fast-pair"
    THEN /\ Len(buffer) < 4 + MaxData
         /\ Len(buffer) >= 4 => /\ buffer[3] * 256 + buffer[4] <= MaxData
                                /\ Len(buffer) < 4 + buffer[3] * 256 + buffer[4]
    ELSE /\ Len(buffer) <= MaxFrame
         /\ ~Contains(buffer, TRAILER)
         /\ buffer # <<>> => Head(buffer) = HEADER
=============================================================================
