----------------------------- MODULE Base64Exchange -----------------------------
(***************************************************************************)
(* Bytes from an encoder of base64.c or of a peer, along a way that may    *)
(* drop the padding or break the lines, to a decoder.  The peer of a login *)
(* writes its tokens without padding, its keys with it, the resource files *)
(* are written by other programs.                                          *)
(***************************************************************************)
EXTENDS Base64

CONSTANT Inputs  \* inputs: sequences of bytes

ASSUME InputsAreBytes == Inputs \subseteq Seq(0 .. 255)

VARIABLES original,  \* the bytes that are encoded
          encoder,   \* who has encoded them
          way,       \* what has happened to the text since
          text,
          decoder,   \* who has decoded it
          decoded    \* and what it has found

letter == <<original, encoder, way, text, decoder, decoded>>

Encoders == {"char_base64_encode", "char_base64_url_encode", "base64_encode", "base64_url_encode"}
Decoders == {"char_base64_decode", "char_base64_url_decode", "base64_decode", "base64_url_decode"}
LineFeed == 10

EncodedBy(e, bytes) ==
  CASE e = "char_base64_encode"     -> char_base64_encode(bytes)
    [] e = "char_base64_url_encode" -> char_base64_url_encode(bytes)
    [] e = "base64_encode"          -> base64_encode(bytes)
    [] e = "base64_url_encode"      -> base64_url_encode(bytes)

\* A stream grows with what is put in it: there is always room.
DecodedBy(d, t) ==
  CASE d = "char_base64_decode"     -> char_base64_decode(t)
    [] d = "char_base64_url_decode" -> char_base64_url_decode(t)
    [] d = "base64_decode"          -> Buffer(base64_decode(t), Len(base64_decode(t)))
    [] d = "base64_url_decode"      -> Buffer(base64_url_decode(t), Len(base64_url_decode(t)))

WithoutPadding(t) == Kept(t, Nat \ {Pad})
WithLineFeed(t, n) == [k \in 1 .. Len(t) + 1 |-> IF k <= n THEN t[k] ELSE IF k = n + 1 THEN LineFeed ELSE t[k - 1]]

TextInit ==
  /\ original \in Inputs
  /\ encoder = "none" /\ way = "direct" /\ text = <<>> /\ decoder = "none" /\ decoded = Null

WriteText(e) ==
  /\ encoder = "none"
  /\ encoder' = e /\ text' = EncodedBy(e, original)
  /\ UNCHANGED <<original, way, decoder, decoded>>

OnTheWay == encoder # "none" /\ decoder = "none" /\ way = "direct"

DropPadding ==
  /\ OnTheWay /\ way' = "unpadded" /\ text' = WithoutPadding(text)
  /\ UNCHANGED <<original, encoder, decoder, decoded>>

BreakLine ==
  /\ OnTheWay /\ way' = "broken"
  /\ \E n \in 0 .. Len(text) : text' = WithLineFeed(text, n)
  /\ UNCHANGED <<original, encoder, decoder, decoded>>

ReadText(d) ==
  /\ encoder # "none" /\ decoder = "none"
  /\ decoder' = d /\ decoded' = DecodedBy(d, text)
  /\ UNCHANGED <<original, encoder, way, text>>

TextNext == (\E e \in Encoders : WriteText(e)) \/ DropPadding \/ BreakLine \/ (\E d \in Decoders : ReadText(d))

TextSpec == TextInit /\ [][TextNext]_letter
-------------------------------------------------------------------------------
Url == encoder \in {"char_base64_url_encode", "base64_url_encode"}
Plain == \A n \in DOMAIN text : text[n] \notin {43, 45, 47, 95}
Unpadded == \A n \in DOMAIN text : text[n] # Pad
Visible == {n \in DOMAIN text : text[n] # LineFeed}

\* The texts that a decoder is for.
IsFor(d) ==
  CASE d = "char_base64_decode"     -> (~Url \/ Plain) /\ Cardinality(Visible) % 4 = 0
    [] d = "char_base64_url_decode" -> (Url \/ Plain) /\ Unpadded /\ Len(original) % 3 = 0 /\ way # "broken"
    [] d = "base64_decode"          -> (~Url \/ Plain) /\ way # "broken"
    [] d = "base64_url_decode"      -> way # "broken"

\* A decoder returns the bytes that were encoded: at every length modulo three, with every digit,
\* whichever of the encoders has written the text, with its padding or without it where the decoder
\* does not need it, with a line feed anywhere where the decoder skips it.
BytesComeBack ==
  decoder # "none" /\ IsFor(decoder) /\ original # <<>> => decoded.status = "ok" /\ decoded.bytes = original

\* handle_login compares the length of a signature with 96: a text of another length than a
\* multiple of four digits gives none, never one of another length.
NoOtherLength ==
  decoder = "char_base64_url_decode" /\ Url /\ way = "unpadded" /\ decoded.status = "ok" => Len(decoded.bytes) = Len(original)

\* The two encoders of each kind write the same, but for the padding of the strings.
EncodersAgree ==
  way = "direct" =>
    /\ encoder = "char_base64_encode" => text = base64_encode(original)
    /\ encoder = "char_base64_url_encode" => text = WithoutPadding(base64_url_encode(original))

\* Nothing is written past what was allocated: by an encoder at any length, with the 0 at the end,
\* and by a decoder of a text that an encoder of its kind has written.
StaysInRoom ==
  /\ way = "direct" /\ encoder # "none" => Len(text) + 1 <= EncodedRoom(Len(original))
  /\ decoder # "none" /\ IsFor(decoder) /\ decoded.status = "ok" => Len(decoded.bytes) <= decoded.room

\* Bytes that go through a text of base64.c come back as they were, of the same length and in
\* their room, and it does not matter which of the encoders has written it (base64.c:83, 191).
TextComesBack == BytesComeBack /\ NoOtherLength /\ EncodersAgree /\ StaysInRoom
===============================================================================
