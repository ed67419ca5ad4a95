------------------------------ MODULE FastPair ------------------------------
(***************************************************************************)
(* The Google Fast Pair message stream of drivers/fastpair.py: frames of   *)
(* <group> <code> <length:2> <data> with neither checksum nor sync byte,   *)
(* and the three messages a headset volunteers.                            *)
(***************************************************************************)
EXTENDS Integers, SequencesExt, TLC

\* Bits are numbered by their value.
Bit(byte, value) == (byte \div value) % 2 = 1

\* A frame with a length above maxData is a lost boundary: drop one byte and
\* look again.  A shorter one is waited for.
Frames(buffer, maxData) ==
    LET behind[at \in 1..(Len(buffer) + 1)] ==
          LET left == Len(buffer) - at + 1
              length == buffer[at + 2] * 256 + buffer[at + 3]
              next == at + 4 + length
              frame == [group |-> buffer[at], code |-> buffer[at + 1],
                        payload |-> SubSeq(buffer, at + 4, next - 1)]
              waits == [frames |-> <<>>, rest |-> SubSeq(buffer, at, Len(buffer))]
          IN CASE left < 4 -> waits
               [] left >= 4 /\ length > maxData -> behind[at + 1]
               [] left >= 4 /\ length <= maxData /\ left < 4 + length -> waits
               [] OTHER -> [frames |-> <<frame>> \o behind[next].frames,
                            rest |-> behind[next].rest]
    IN behind[1]

EncodeFrame(group, code, data) ==
    <<group, code, Len(data) \div 256, Len(data) % 256>> \o data

\* Unknown and absent parts have no entry.
BatteryPart(byte) ==
    IF byte = \hFF \/ byte % 128 > 100 THEN <<>>
    ELSE <<[level |-> byte % 128, charging |-> Bit(byte, \h80)]>>

Parts == <<"left", "right", "case">>

\* Keys are always written: that a part is now unknown is news.  A value that
\* is None in the source is an empty sequence, any other one a sequence of one.
DecodeParts(p) ==
    LET known == {i \in 1..3 : BatteryPart(p[i]) # <<>>}
        parts == [name \in {Parts[i] : i \in known} |->
                    BatteryPart(p[CHOOSE i \in known : Parts[i] = name])[1]]
        worn == {parts[name] : name \in DOMAIN parts \ {"case"}}
    IN IF Len(p) < 3 THEN <<>>
       ELSE [battery_parts |-> IF known = {} THEN <<>> ELSE <<parts>>,
             battery  |-> IF worn = {} THEN <<>>
                          ELSE <<Min({part.level : part \in worn})>>,
             charging |-> IF worn = {} THEN <<>>
                          ELSE <<\E part \in worn : part.charging>>]

DecodeModel(p) == IF Len(p) < 3 THEN <<>> ELSE [model_id |-> SubSeq(p, 1, 3)]

NOISE_BITS == << <<"off", \h20>>, <<"transparent", \h80>>, <<"adaptive", \h40>>,
                 <<"anc", \h08>> >>

Modes(byte) ==
    LET set == SelectSeq(NOISE_BITS, LAMBDA mode : Bit(byte, mode[2]))
    IN [i \in DOMAIN set |-> set[i][1]]

DecodeModes(p) ==
    IF Len(p) < 4 THEN <<>>
    ELSE IF Modes(p[2]) = <<>> THEN <<>>
    ELSE [noise          |-> IF Modes(p[4]) = <<>> THEN <<>> ELSE <<Head(Modes(p[4]))>>,
          noise_modes    |-> Modes(p[2]),
          noise_settable |-> Modes(p[3])]

VOLUNTEERED == << [id |-> "battery", group |-> 3, code |-> 3,
                   provides |-> {"battery", "charging", "battery_parts"}],
                  [id |-> "model",   group |-> 3, code |-> 1, provides |-> {"model_id"}],
                  [id |-> "noise",   group |-> 8, code |-> \h13,
                   provides |-> {"noise", "noise_modes", "noise_settable"}] >>

Is(record, frame) == frame.group = record.group /\ frame.code = record.code

DecodeVolunteered(record, p) ==
    CASE record.id = "battery" -> DecodeParts(p)
      [] record.id = "model"   -> DecodeModel(p)
      [] record.id = "noise"   -> DecodeModes(p)
=============================================================================
