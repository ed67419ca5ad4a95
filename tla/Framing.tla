------------------------------- MODULE Framing -------------------------------
(***************************************************************************)
(* The Sony MDR framing of framing.py: messages to bytes and back, and the *)
(* cutting of a stream of bytes into frames.  Bytes are numbers 0..255 and *)
(* a payload is shorter than 2^16.                                         *)
(***************************************************************************)
EXTENDS Integers, SequencesExt

Byte == 0..255

HEADER  == \h3E
TRAILER == \h3C
ESCAPE  == \h3D

HEADER_LEN == 6
MIN_FRAME  == 1 + HEADER_LEN + 1 + 1

Special == {HEADER, TRAILER, ESCAPE}

\* What `decode` and the decoders return for "not one of mine": no field.
Nothing == <<>>

\* ESCAPE_MASK takes the bit 0x10 out of a byte, unescape puts it back.  All
\* special bytes have it.
WithBit(byte) == IF (byte \div 16) % 2 = 1 THEN byte ELSE byte + 16

Escaped(byte) == IF byte \in Special THEN <<ESCAPE, byte - 16>> ELSE <<byte>>

Escape(data) == FlattenSeq([i \in DOMAIN data |-> Escaped(data[i])])

\* One byte of an escaped sequence is read.  An escape with nothing to escape
\* leaves `escaping` set.
Take(r, byte) ==
    IF r.escaping \/ byte # ESCAPE
    THEN [out |-> Append(r.out, IF r.escaping THEN WithBit(byte) ELSE byte),
          escaping |-> FALSE]
    ELSE [r EXCEPT !.escaping = TRUE]

Unescape(data) == FoldLeft(Take, [out |-> <<>>, escaping |-> FALSE], data)

Checksum(data) == FoldLeft(+, 0, data) % 256

LengthField(n) == <<0, 0, n \div 256, n % 256>>

Encode(message) ==
    LET body == <<message.type, message.seq>> \o LengthField(Len(message.payload))
                  \o message.payload
    IN <<HEADER>> \o Escape(body) \o Escape(<<Checksum(body)>>) \o <<TRAILER>>

\* Mutant: the checksum is not looked at.
IntactAnyway(body) == TRUE
Intact(body) == Last(body) = Checksum(Front(body))

\* A frame that passes every test of `decode`, or Nothing.
Decode(frame) ==
    LET taken == Unescape(SubSeq(frame, 2, Len(frame) - 1))
        body == taken.out
        payload == SubSeq(body, HEADER_LEN + 1, Len(body) - 1)
    IN IF /\ Len(frame) >= MIN_FRAME
          /\ frame[1] = HEADER
          /\ Last(frame) = TRAILER
          /\ ~taken.escaping
          /\ Len(body) >= HEADER_LEN + 1
          /\ Intact(body)
          /\ SubSeq(body, 3, HEADER_LEN) = LengthField(Len(payload))
       THEN [type |-> body[1], seq |-> body[2], payload |-> payload]
       ELSE Nothing

From(buffer, i) == SubSeq(buffer, i, Len(buffer))

\* Where `byte` is first found from `at` on, or 0.
NextByte(buffer, at, byte) == SelectInSubSeq(buffer, at, Len(buffer), LAMBDA b : b = byte)

\* Mutant: whatever follows a header is kept till its trailer comes.
UnfinishedKept(rest, maxFrame) == rest

\* What is kept of a frame that has begun: all of it, or the newest window of
\* maxFrame bytes from its first header on.
Unfinished(rest, maxFrame) ==
    IF Len(rest) <= maxFrame THEN rest
    ELSE LET window == From(rest, Len(rest) - maxFrame + 1)
             resync == NextByte(window, 1, HEADER)
         IN IF resync > 0 THEN From(window, resync) ELSE <<>>

\* Mutant: a frame is the whole span from the first header.
StartFirst(buffer, first, end) == first

\* A frame is the shortest span that ends at its trailer.
Start(buffer, first, end) ==
    SelectLastInSubSeq(buffer, first, end - 1, LAMBDA byte : byte = HEADER)

\* Frames are cut off one by one, each behind the one before it.
Split(buffer, maxFrame) ==
    LET behind[at \in 1..(Len(buffer) + 1)] ==
          LET first == NextByte(buffer, at, HEADER)
              end == NextByte(buffer, first + 1, TRAILER)
              frame == SubSeq(buffer, Start(buffer, first, end), end)
          IN CASE first = 0 -> [frames |-> <<>>, rest |-> <<>>]
               [] first > 0 /\ end = 0 ->
                    [frames |-> <<>>, rest |-> Unfinished(From(buffer, first), maxFrame)]
               [] OTHER -> [frames |-> <<frame>> \o behind[end + 1].frames,
                            rest |-> behind[end + 1].rest]
    IN behind[1]
=============================================================================
