--------------------------------- MODULE Base64 ---------------------------------
(***************************************************************************)
(* The encoders and decoders of base64.c, which has each of them twice: on *)
(* bytes with a length, and on strings and streams.  A text is a sequence  *)
(* of character codes; the loops over groups of three bytes and of four    *)
(* characters are written by the place in the result.                      *)
(***************************************************************************)
EXTENDS Integers, Sequences, FiniteSets

Pad == 61

BASE64_TABLE ==
  [d \in 0 .. 63 |-> IF d < 26 THEN 65 + d ELSE IF d < 52 THEN 71 + d ELSE IF d < 62 THEN d - 4 ELSE IF d = 62 THEN 43 ELSE 47]
BASE64_URL_TABLE == [BASE64_TABLE EXCEPT ![62] = 45, ![63] = 95]

\* The byte at offset i, 0 behind the last.
ByteAt(bytes, i) == IF i < Len(bytes) THEN bytes[i + 1] ELSE 0
GroupsOf(n, size) == (n + size - 1) \div size

Null == [status |-> "NULL"]
Buffer(bytes, room) == [status |-> "ok", bytes |-> bytes, room |-> room]
-------------------------------------------------------------------------------
\* The digit at offset p of the text, of the three bytes it stands for, as char_base64_encode and
\* char_base64_url_encode take it, and how many digits n bytes have.
DigitAt(bytes, p) ==
  LET i == 3 * (p \div 4)
      a == ByteAt(bytes, i)
      b == ByteAt(bytes, i + 1)
      c == ByteAt(bytes, i + 2)
  IN CASE p % 4 = 0 -> a \div 4
       [] p % 4 = 1 -> (a % 4) * 16 + (b \div 16)
       [] p % 4 = 2 -> (b % 16) * 4 + (c \div 64)
       [] p % 4 = 3 -> c % 64

\* Mutant: a digit for a part of six bits is forgotten.
MutDigitsOf(n) == (4 * n) \div 3

DigitsOf(n) == (4 * n + 2) \div 3

EncodedRoom(len) == LET olen == ((len * 4) \div 3) + 4 IN olen + (olen \div 72) + 1

char_base64_encode(bytes) ==
  [p \in 1 .. 4 * GroupsOf(Len(bytes), 3) |->
     IF p <= DigitsOf(Len(bytes)) THEN BASE64_TABLE[DigitAt(bytes, p - 1)] ELSE Pad]

char_base64_url_encode(bytes) == [p \in 1 .. DigitsOf(Len(bytes)) |-> BASE64_URL_TABLE[DigitAt(bytes, p - 1)]]

\* The padding is counted over the whole stream; only the last group can have any.
base64_encode(bytes) ==
  [p \in 1 .. 4 * GroupsOf(Len(bytes), 3) |->
     LET i         == 3 * ((p - 1) \div 4)
         k         == (p - 1) % 4
         bit_array == 65536 * ByteAt(bytes, i) + 256 * ByteAt(bytes, i + 1) + ByteAt(bytes, i + 2)
         padding   == (IF i + 1 < Len(bytes) THEN 0 ELSE 1) + (IF i + 2 < Len(bytes) THEN 0 ELSE 1)
     IN IF k <= 3 - padding THEN BASE64_TABLE[(bit_array \div <<262144, 4096, 64, 1>>[k + 1]) % 64] ELSE Pad]

Translated(text, from, to) == [n \in DOMAIN text |-> IF text[n] = from[1] THEN to[1] ELSE IF text[n] = from[2] THEN to[2] ELSE text[n]]

base64_url_encode(bytes) == Translated(base64_encode(bytes), <<43, 47>>, <<45, 95>>)
-------------------------------------------------------------------------------
\* dtable: the digit of a character, 0 for the padding, 128 for any other.
Digit(table, c) == IF c = Pad THEN 0 ELSE IF \E d \in 0 .. 63 : table[d] = c THEN CHOOSE d \in 0 .. 63 : table[d] = c ELSE 128

\* (d << s) | low: low fits below the shifted digit, or it is the one bit of what is no digit.
Joined(high, unit, low) == IF low < unit \/ (high \div low) % 2 = 0 THEN high + low ELSE high

\* What the loops make of two digits that follow each other, the k-th and the next of their four.
ByteOf(d, e, k) ==
  CASE k = 0 -> Joined(4 * d, 4, e \div 16) % 256
    [] k = 1 -> Joined(16 * d, 16, e \div 4) % 256
    [] k = 2 -> Joined(64 * d, 64, e) % 256

\* Where the digits of the byte at offset q begin.
PlaceOf(q) == 4 * (q \div 3) + (q % 3)

\* The elements of s that are in S, in order.
Kept(s, S) ==
  LET kept[n \in 0 .. Len(s)] ==
        IF n = 0 THEN <<>> ELSE IF s[n] \in S THEN Append(kept[n - 1], s[n]) ELSE kept[n - 1]
  IN kept[Len(s)]

Known(table) == {table[d] : d \in 0 .. 63} \cup {Pad}

\* What is no digit is skipped; the first group with padding is the last one.
char_base64_decode(text) ==
  LET taken   == Kept(text, Known(BASE64_TABLE))
      groups  == Len(taken) \div 4
      Pads(n) == Cardinality({k \in 1 .. 4 : taken[4 * (n - 1) + k] = Pad})
      padded  == {n \in 1 .. groups : Pads(n) > 0}
      last    == IF padded = {} THEN groups ELSE CHOOSE n \in padded : \A p \in padded : n <= p
      At(p)   == Digit(BASE64_TABLE, taken[p + 1])
  IN IF taken = <<>> \/ Len(taken) % 4 # 0 \/ Pads(last) > 2 THEN Null
     ELSE Buffer([q \in 1 .. 3 * last - Pads(last) |-> ByteOf(At(PlaceOf(q - 1)), At(PlaceOf(q - 1) + 1), (q - 1) % 3)], groups * 3)

\* What is no digit is not counted, but it is not skipped either, and padding is the digit 0.
char_base64_url_decode(text) ==
  LET count == Cardinality({n \in DOMAIN text : text[n] \in Known(BASE64_URL_TABLE)})
      At(p) == Digit(BASE64_URL_TABLE, text[p + 1])
  IN IF count = 0 \/ count % 4 # 0 THEN Null
     ELSE Buffer([q \in 1 .. 3 * (Len(text) \div 4) |-> ByteOf(At(PlaceOf(q - 1)), At(PlaceOf(q - 1) + 1), (q - 1) % 3)], (count \div 4) * 3)

\* A group that is cut short is filled up as if it were padded, one of a single character is
\* dropped; what is no digit is the digit 0.  The padding is counted over all groups.
base64_decode(text) ==
  LET Char(p) == IF p < Len(text) THEN text[p + 1] ELSE Pad
      At(p)   == Digit(BASE64_TABLE, Char(p)) % 128
      Pads(n) == Cardinality({p \in 0 .. 4 * n - 1 : Char(p) = Pad})
      out[n \in 0 .. GroupsOf(Len(text), 4)] ==
        IF n = 0 THEN <<>>
        ELSE IF Len(text) < 4 * n - 2 \/ Pads(n) > 2 THEN out[n - 1]
        ELSE out[n - 1] \o [q \in 1 .. 3 - Pads(n) |->
                             ByteOf(At(PlaceOf(3 * (n - 1) + q - 1)), At(PlaceOf(3 * (n - 1) + q - 1) + 1), (3 * (n - 1) + q - 1) % 3)]
  IN out[GroupsOf(Len(text), 4)]

base64_url_decode(text) == base64_decode(Translated(text, <<45, 95>>, <<43, 47>>))
===============================================================================
