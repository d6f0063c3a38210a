----------------------------- MODULE Compression -----------------------------
(***************************************************************************)
(* The two decoders of the codecs crate that replay the format themselves, *)
(* lz.rs and glz.rs: control bytes, extended lengths, near and far         *)
(* distances, overlapping copies, references to dictionary images, and the *)
(* second stream of images with alpha.  A server (external) encodes an     *)
(* image token by token; all of the payload arrives, or less, or a byte    *)
(* more; the client decodes one token per step.                            *)
(*                                                                         *)
(* A byte has Byte values and the low bits of a control byte have Low (256 *)
(* and 32 in the code), so that every width of a field can be reached on a *)
(* small image.  A literal unit is one byte; headers, colour order and     *)
(* palettes are left out, and dictionary images are there (GlzWindow).     *)
(***************************************************************************)
EXTENDS Integers, Sequences, FiniteSetsExt, SequencesExt

CONSTANTS
  Byte, Low,       \* values of a byte and of the low bits of a control byte
  Codecs,          \* <<codec, kind>>: "lz" or "glz", "rgb16", "rgb", "rgba" or "alpha"
  Shapes,          \* <<width, height>> of images
  Dictionary,      \* image distance -> pixels <<colour, alpha>>
  Lengths,         \* of runs and references the server uses
  Offsets,         \* distances, or offsets in a dictionary image, it uses
  MaxTokens        \* bound: tokens of an image

VARIABLES
  image,           \* [codec, kind, width, height, topDown]
  meant,           \* the streams as meant: <<colours>>, or <<colours, alphas>>
  wire, tokens,    \* the payload encoded so far, and its number of tokens
  payload,         \* what arrived, <<>> before
  decoder          \* [stage, at, out, pixels, stream]

compressionVars == <<image, meant, wire, tokens, payload, decoder>>

ByteMax == Byte - 1
Size == image.width * image.height

CompressionInit ==
  /\ \E c \in Codecs, s \in Shapes, t \in BOOLEAN :
       image = [codec |-> c[1], kind |-> c[2], width |-> s[1], height |-> s[2], topDown |-> t]
  /\ meant = <<<<>>>> /\ wire = <<>> /\ tokens = 0 /\ payload = <<>>
  /\ decoder = [stage |-> "waiting", at |-> 1, out |-> <<>>, pixels |-> <<>>, stream |-> 1]

\* match_length_bias, and the biases of decode_color_stream and decode_alpha_stream.
Bias(stream) ==
  IF image.codec = "lz"
  THEN CASE image.kind = "alpha" \/ stream = 2 -> 3 [] image.kind = "rgb16" -> 2 [] OTHER -> 1
  ELSE CASE stream = 2 -> 2 [] image.kind = "rgb16" -> 1 [] OTHER -> 0
-----------------------------------------------------------------------------
(* The encoder: any choice of tokens that the format allows. *)

\* LZ stores a length less one more, and keeps the value 0 for literals.
Marker == Byte \div Low - (IF image.codec = "lz" THEN 2 ELSE 1)
NearMax == Low * Byte - 1
Field(n) == (IF n < Marker THEN n ELSE Marker) + (IF image.codec = "lz" THEN 1 ELSE 0)
Extension(n) ==
  IF n < Marker THEN <<>>
  ELSE [k \in 1..((n - Marker) \div ByteMax) |-> ByteMax] \o <<(n - Marker) % ByteMax>>

LzReference(n, distance) ==
  LET e == distance - 1
      near == e < NearMax IN
  <<Field(n) * Low + (IF near THEN e \div Byte ELSE Low - 1)>> \o Extension(n)
  \o (IF near THEN <<e % Byte>>
      ELSE <<ByteMax, (e - NearMax) \div Byte, (e - NearMax) % Byte>>)

\* An image distance of 0 is this image, whose offsets start at 1.
ShortOffsets == (Low \div 2) * Byte
GlzReference(n, offset, distance) ==
  LET o == IF distance = 0 THEN offset - 1 ELSE offset
      short == o < ShortOffsets
      high == o \div ShortOffsets
      step == Byte \div 4
      part == Byte \div 8 IN
  <<Field(n) * Low + (IF short THEN 0 ELSE Low \div 2) + (o % (Low \div 2))>> \o Extension(n)
  \o <<(o \div (Low \div 2)) % Byte>>
  \o (IF short
      THEN IF distance < step THEN <<distance>> ELSE <<step + (distance % step), distance \div step>>
      ELSE <<(IF distance = 0 THEN 0 ELSE step) + (IF high < part THEN 0 ELSE part) + (high % part)>>
           \o (IF distance = 0 THEN <<>> ELSE <<distance>>)
           \o (IF high < part THEN <<>> ELSE <<high \div part>>))

Stream == Len(meant)
Written == Len(meant[Stream])
Encoding == payload = <<>> /\ Written < Size /\ tokens < MaxTokens

Encode(bytes, units) ==
  /\ wire' = wire \o bytes
  /\ meant' = [meant EXCEPT ![Stream] = @ \o units]
  /\ tokens' = tokens + 1
  /\ UNCHANGED <<image, payload, decoder>>

\* Every literal differs from its neighbours.
EncodeLiterals ==
  /\ Encoding
  /\ \E n \in 1..Low :
       /\ n \in Lengths \cup {Size - Written} /\ Written + n <= Size
       /\ LET units == [k \in 1..n |-> (Stream + 3 * (Written + k)) % Byte] IN
          Encode(<<n - 1>> \o units, units)

\* Repeats of the last d units, for as long as it takes.
EncodeRepeat ==
  /\ Encoding
  /\ \E d \in Offsets, n \in Lengths \cup {Size - Written} :
       /\ d \in 1..Written /\ Written + n <= Size
       /\ n - Bias(Stream) >= (IF image.codec = "lz" THEN 0 ELSE 1)
       /\ Encode(IF image.codec = "lz" THEN LzReference(n - Bias(Stream), d)
                 ELSE GlzReference(n - Bias(Stream), d, 0),
                 [k \in 1..n |-> meant[Stream][Written - d + 1 + ((k - 1) % d)]])

EncodeReference ==
  /\ Encoding /\ image.codec = "glz"
  /\ \E i \in DOMAIN Dictionary, o \in Offsets, n \in Lengths \cup {Size - Written} :
       /\ o + n <= Len(Dictionary[i]) /\ Written + n <= Size
       /\ n - Bias(Stream) >= 1
       /\ Encode(GlzReference(n - Bias(Stream), o, i),
                 [k \in 1..n |-> Dictionary[i][o + k][Stream]])

EncodeAlpha ==
  /\ payload = <<>> /\ image.kind = "rgba" /\ Stream = 1 /\ Written = Size
  /\ meant' = Append(meant, <<>>)
  /\ UNCHANGED <<image, wire, tokens, payload, decoder>>

\* The image message arrives with its payload, a prefix of it, or more.
Arrive ==
  /\ payload = <<>> /\ Written = Size /\ (image.kind = "rgba" => Stream = 2)
  /\ \E p \in {SubSeq(wire, 1, n) : n \in {Len(wire) - 2, Len(wire) - 1, Len(wire)}} \cup {Append(wire, 0)} :
       payload' = p
  /\ decoder' = [decoder EXCEPT !.stage = "decoding"]
  /\ UNCHANGED <<image, meant, wire, tokens>>
-----------------------------------------------------------------------------
(* The decoders. *)

\* A reader past the end of its input has failed by the time it is asked.
At(i) == IF i <= Len(payload) THEN payload[i] ELSE 0
ReadAll(next) == next - 1 <= Len(payload)
Produced == Len(decoder.out)

\* Length extensions: bytes up to and with the first that is not the greatest.
Extensions(i) ==
  CHOOSE n \in 1..(Len(payload) + 1) : At(i + n - 1) # ByteMax /\ \A k \in 1..(n - 1) : At(i + k - 1) = ByteMax

\* The escape needs both parts of a near distance at their greatest.
FarByLowByte(control, low) == low = ByteMax
IsFar(control, low) == low = ByteMax /\ control % Low = Low - 1

\* NEAR_DISTANCE_MAX and MAX_WINDOW_UNITS of lz.rs.
NearDistanceMax == Low * Byte - 1
MaxWindowUnits == 2 * Byte ^ 3
FarDistance(i) == At(i) * Byte + At(i + 1) + NearDistanceMax

\* The match of decompress_units whose control byte is at i.
LzMatch(i, bias) ==
  LET field == At(i) \div Low - 1
      extended == field = Byte \div Low - 2
      after == i + 1 + (IF extended THEN Extensions(i + 1) ELSE 0)
      far == IsFar(At(i), At(after)) IN
  [length |-> field + (IF extended THEN ByteMax * (Extensions(i + 1) - 1) + At(after - 1) ELSE 0) + bias,
   offset |-> 1 + (IF far THEN FarDistance(after + 1) ELSE (At(i) % Low) * Byte + At(after)),
   distance |-> 0,
   next |-> after + (IF far THEN 3 ELSE 1)]

\* decode_reference.
GlzMatch(i, bias) ==
  LET field == At(i) \div Low
      extended == field = Byte \div Low - 1
      after == i + 1 + (IF extended THEN Extensions(i + 1) ELSE 0)
      long == (At(i) \div (Low \div 2)) % 2 = 1
      descriptor == At(after + 1)
      bytes == descriptor \div (Byte \div 4)
      more == long /\ (descriptor \div (Byte \div 8)) % 2 = 1
      spread(shift) == MapThenSumSet(LAMBDA k : At(after + 1 + k) * shift * Byte ^ (k - 1), 1..bytes)
      distance == IF long THEN spread(1) ELSE (descriptor % (Byte \div 4)) + spread(Byte \div 4) IN
  [length |-> field + (IF extended THEN ByteMax * (Extensions(i + 1) - 1) + At(after - 1) ELSE 0) + bias,
   offset |-> (At(i) % (Low \div 2)) + At(after) * (Low \div 2)
              + (IF long THEN (descriptor % (Byte \div 8)) * (Low \div 2) * Byte ELSE 0)
              + (IF more THEN At(after + 2 + bytes) * (Low \div 2) * Byte * (Byte \div 8) ELSE 0)
              + (IF distance = 0 THEN 1 ELSE 0),
   distance |-> distance,
   next |-> after + 2 + bytes + (IF more THEN 1 ELSE 0)]

Reference(i) == IF image.codec = "lz" THEN LzMatch(i, Bias(decoder.stream)) ELSE GlzMatch(i, Bias(decoder.stream))

CopiedWhole(out, r) ==
  out \o [k \in 1..r.length |-> IF k <= r.offset THEN out[Len(out) - r.offset + k] ELSE 0]

\* Unit by unit, so that a copy may read what it has just written.
Copied(out, r) ==
  LET unit[k \in 1..(Len(out) + r.length)] == IF k <= Len(out) THEN out[k] ELSE unit[k - r.offset] IN
  [k \in 1..(Len(out) + r.length) |-> unit[k]]

\* A dictionary pixel gives its colour, and in the second stream its alpha.
FromDictionary(out, r) ==
  out \o [k \in 1..r.length |-> Dictionary[r.distance][r.offset + k][decoder.stream]]

EnsureOutputRoom(units) == Produced + units <= Size

Refused(r) ==
  \/ ~ReadAll(r.next) \/ r.length = 0
  \/ r.distance = 0 /\ r.offset > Produced
  \/ image.codec = "lz" /\ r.offset > MaxWindowUnits
  \/ r.distance # 0 /\ (r.distance \notin DOMAIN Dictionary \/ r.offset + r.length > Len(Dictionary[r.distance]))
  \/ ~EnsureOutputRoom(r.length)

Fail == decoder' = [decoder EXCEPT !.stage = "failed"]
Decoding == decoder.stage = "decoding" /\ UNCHANGED <<image, meant, wire, tokens, payload>>
Advances(out, at) == decoder' = [decoder EXCEPT !.out = out, !.at = at]

DecodeLiterals ==
  /\ Decoding /\ Produced < Size /\ At(decoder.at) < Low
  /\ LET n == At(decoder.at) + 1
         next == decoder.at + 1 + n IN
     IF ReadAll(next) /\ EnsureOutputRoom(n)
     THEN Advances(decoder.out \o SubSeq(payload, decoder.at + 1, next - 1), next)
     ELSE Fail

DecodeMatch ==
  /\ Decoding /\ Produced < Size /\ At(decoder.at) >= Low
  /\ LET r == Reference(decoder.at) IN
     IF Refused(r) THEN Fail
     ELSE Advances(IF r.distance = 0 THEN Copied(decoder.out, r) ELSE FromDictionary(decoder.out, r), r.next)

\* The colours are there and the alpha stream follows.
BeginAlpha ==
  /\ Decoding /\ Produced = Size /\ image.kind = "rgba" /\ decoder.stream = 1
  /\ decoder' = [decoder EXCEPT !.stream = 2, !.pixels = decoder.out, !.out = <<>>]

\* LZ rows become top-down; GLZ images stay in the order of the stream.
Oriented(units) ==
  [k \in 1..Size |->
    LET x == (k - 1) % image.width
        y == (k - 1) \div image.width IN
    units[(IF image.codec = "glz" \/ image.topDown THEN y ELSE image.height - y - 1) * image.width + x + 1]]

FinishImage ==
  /\ Decoding /\ Produced = Size /\ (image.kind = "rgba" => decoder.stream = 2)
  /\ IF ReadAll(decoder.at) /\ ~ReadAll(decoder.at + 1)
     THEN decoder' = [decoder EXCEPT !.stage = "done",
                        !.pixels = IF image.kind = "rgba" THEN <<Oriented(@), Oriented(decoder.out)>>
                                   ELSE <<Oriented(decoder.out)>>]
     ELSE Fail

\* Cancellation is polled every CANCELLATION_CHECK_INTERVAL units.
CancelDecode == Decoding /\ Produced = 0 /\ decoder' = [decoder EXCEPT !.stage = "cancelled"]

CompressionNext ==
  \/ EncodeLiterals \/ EncodeRepeat \/ EncodeReference \/ EncodeAlpha \/ Arrive
  \/ DecodeLiterals \/ DecodeMatch \/ BeginAlpha \/ FinishImage \/ CancelDecode
-----------------------------------------------------------------------------
\* Types; a decoder never holds more units than the image has.
CompressionTypeOK ==
  /\ decoder.stage \in {"waiting", "decoding", "done", "failed", "cancelled"}
  /\ Produced <= Size /\ ReadAll(decoder.at)
  /\ \A k \in 1..Len(wire) : wire[k] \in 0..ByteMax

\* An accepted payload is a complete one and gives the image the server meant:
\* repeats that overlap themselves, lengths and distances on either side of
\* each escape, dictionary references and both streams; nothing is left over.
DecodesAsMeant ==
  decoder.stage = "done" =>
    /\ payload = wire
    /\ \A s \in 1..Stream, x \in 0..(image.width - 1), y \in 0..(image.height - 1) :
         decoder.pixels[s][y * image.width + x + 1] =
           meant[s][(IF image.topDown \/ image.codec = "glz" THEN y ELSE image.height - 1 - y) * image.width + x + 1]

\* A payload that the format allows is never refused.
CompletePayloadAccepted == decoder.stage = "failed" => payload # wire
=============================================================================
