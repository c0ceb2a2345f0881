------------------------------- MODULE JsonText -------------------------------
(***************************************************************************)
(* The parser of json.c: strings with their escapes, numbers, arrays,      *)
(* objects and the root.  A text is a sequence of characters, and its      *)
(* offsets are those of the code; the process ends with exit() at what the *)
(* parser refuses.  A result is a value, "none" if the text starts with    *)
(* something else, "exit", or "outside" if the parser has left the text.   *)
(***************************************************************************)
EXTENDS Integers, Sequences, SequencesExt

Quote == 34
Backslash == 92
Comma == 44
Colon == 58
Spaces == {32, 10, 9, 13}
Digits == 48 .. 57
\* The characters that the second switch of parse_json_string refuses in a string, '?' among them.
Refused == {7, 8, 12, 10, 13, 9, 11, 63}
\* What may follow a number.
Enders == {32, Comma, 93, 125, 10, 13}

Null  == <<110, 117, 108, 108>>
True  == <<116, 114, 117, 101>>
False == <<102, 97, 108, 115, 101>>

\* The character at an offset; the one after the last is the end of the C string.
At(t, i) == IF i < Len(t) THEN t[i + 1] ELSE 0
Starts(t, i, word) == Len(t) - i >= Len(word) /\ SubSeq(t, i + 1, i + Len(word)) = word

Ok(value, at) == [status |-> "ok", value |-> value, at |-> at]
Fails(status) == [status |-> status]
None == Fails("none")
Exit == Fails("exit")

\* What is tried when the text starts with something else, and what is done when it did not.
Or(first, second) == IF first.status # "none" THEN first ELSE second
Then(first, Rest(_)) == IF first.status = "ok" THEN Rest(first) ELSE first

Scalar(type, chars) == [type |-> type, chars |-> chars, keys |-> <<>>, members |-> <<>>]
Nested(type, keys, members) == [type |-> type, chars |-> <<>>, keys |-> keys, members |-> members]
-------------------------------------------------------------------------------
\* 255 for what is no digit.
hextobin(c) ==
  CASE c \in Digits    -> c - 48
    [] c \in 65 .. 70  -> c - 55
    [] c \in 97 .. 102 -> c - 87
    [] OTHER           -> 255

IsHex(t, i) == \A k \in 0 .. 3 : hextobin(At(t, i + k)) # 255
Hex(t, i) ==
  4096 * hextobin(At(t, i)) + 256 * hextobin(At(t, i + 1)) + 16 * hextobin(At(t, i + 2)) + hextobin(At(t, i + 3))

High == 55296 .. 56319
Low  == 56320 .. 57343

Utf8(c) ==
  IF c <= 127 THEN <<c>>
  ELSE IF c <= 2047 THEN <<192 + (c \div 64), 128 + (c % 64)>>
  ELSE IF c <= 65535 THEN <<224 + (c \div 4096), 128 + ((c \div 64) % 64), 128 + (c % 64)>>
  ELSE <<240 + (c \div 262144), 128 + ((c \div 4096) % 64), 128 + ((c \div 64) % 64), 128 + (c % 64)>>

Pair(high, low) == 65536 + 1024 * (high - 55296) + (low - 56320)

\* The four digits after \u, with offset i at the first.  Behind a high surrogate the code looks
\* for \u and four more digits, and does not go back over what it took when they are not there.
Unicode(t, i) ==
  LET code   == Hex(t, i)
      second == Len(t) - (i + 4) > 5 /\ code \in High
  IN IF Len(t) - i <= 3 \/ ~IsHex(t, i) THEN Exit
     ELSE IF ~second THEN Ok(Utf8(code), i + 4)
     ELSE IF At(t, i + 4) # Backslash THEN Ok(Utf8(code), i + 5)
     ELSE IF At(t, i + 5) # 117 THEN Ok(Utf8(code), i + 6)
     ELSE IF ~IsHex(t, i + 6) THEN Exit
     ELSE IF Hex(t, i + 6) \in Low THEN Ok(Utf8(Pair(code, Hex(t, i + 6))), i + 10)
     ELSE Ok(Utf8(code), i + 10)

\* What is escaped by one character.
Escapes == {<<110, 10>>, <<Backslash, Backslash>>, <<47, 47>>, <<98, 8>>, <<114, 13>>, <<116, 9>>, <<102, 12>>}

Escape(t, i) ==
  IF At(t, i) = 117 THEN Unicode(t, i + 1)
  ELSE IF \E e \in Escapes : e[1] = At(t, i)
  THEN Ok(<<(CHOOSE e \in Escapes : e[1] = At(t, i))[2]>>, i + 1)
  ELSE Exit

\* A C string ends at its first 0.
CString(out) == IF 0 \in Range(out) THEN SubSeq(out, 1, SelectInSeq(out, LAMBDA c : c = 0) - 1) ELSE out

\* The loop ends at a quote, before it looks whether a backslash was in front of it; it does not
\* end at the end of the text.
RECURSIVE StringFrom(_, _, _)
StringFrom(t, i, out) ==
  LET c == At(t, i)
  IN IF i >= Len(t) THEN Fails("outside")
     ELSE IF c = Quote THEN Ok(CString(out), i + 1)
     ELSE IF c = Backslash /\ At(t, i + 1) = Quote THEN Ok(CString(out), i + 2)
     ELSE IF c = Backslash THEN Then(Escape(t, i + 1), LAMBDA e : StringFrom(t, e.at, out \o e.value))
     ELSE IF c \in Refused THEN Exit
     ELSE StringFrom(t, i + 1, Append(out, c))

parse_json_string(t, i) == IF At(t, i) = Quote THEN StringFrom(t, i + 1, <<>>) ELSE None
-------------------------------------------------------------------------------
RECURSIVE NumberFrom(_, _, _, _, _)

NumberFrom(t, i, out, expect_digit, once) ==
  LET c == At(t, i)
  IN IF i >= Len(t) THEN Exit
     ELSE IF c \in Digits THEN NumberFrom(t, i + 1, Append(out, c), FALSE, once)
     ELSE IF expect_digit THEN Exit
     ELSE IF c = 46 /\ ~once THEN NumberFrom(t, i + 1, Append(out, c), TRUE, TRUE)
     ELSE IF c \in Enders THEN Ok(Scalar(IF once THEN "float" ELSE "int", out), i)
     ELSE Exit

parse_json_number(t, i) ==
  IF At(t, i) \in Digits THEN NumberFrom(t, i + 1, <<At(t, i)>>, FALSE, FALSE)
  ELSE IF At(t, i) = 45 THEN NumberFrom(t, i + 1, <<45>>, TRUE, FALSE)
  ELSE IF i < Len(t) THEN None ELSE Exit

RECURSIVE Member(_, _), ArrayFrom(_, _, _, _), ObjectFrom(_, _, _, _, _)

parse_json_array(t, i)  == IF At(t, i) = 91 THEN ArrayFrom(t, i + 1, <<>>, "member") ELSE None
parse_json_object(t, i) == IF At(t, i) = 123 THEN ObjectFrom(t, i + 1, <<>>, <<>>, "key") ELSE None

\* parse_json_null and parse_json_bool.
Literal(t, i) ==
  IF Starts(t, i, Null) THEN Ok(Scalar("null", <<>>), i + 4)
  ELSE IF Starts(t, i, True) THEN Ok(Scalar("bool", <<1>>), i + 4)
  ELSE IF Starts(t, i, False) THEN Ok(Scalar("bool", <<0>>), i + 5)
  ELSE None

\* What the parser tries, in its order.
Member(t, i) ==
  Or(Then(parse_json_string(t, i), LAMBDA s : Ok(Scalar("string", s.value), s.at)),
     Or(Literal(t, i),
        Or(parse_json_number(t, i), Or(parse_json_object(t, i), Or(parse_json_array(t, i), Exit)))))

ArrayFrom(t, i, members, expect) ==
  LET c == At(t, i)
  IN IF c = 93 THEN Ok(Nested("array", <<>>, members), i + 1)
     ELSE IF c \in Spaces THEN ArrayFrom(t, i + 1, members, expect)
     ELSE IF expect = "member"
     THEN Then(Member(t, i), LAMBDA m : ArrayFrom(t, m.at, Append(members, m.value), "separator"))
     ELSE IF c = Comma THEN ArrayFrom(t, i + 1, members, "member")
     ELSE Exit

\* Mutant: a comma is taken where the colon is expected.
MutObjectFrom(t, i, keys, members, expect) ==
  LET c == At(t, i)
  IN IF c = 125 THEN Ok(Nested("object", keys, members), i + 1)
     ELSE IF c \in Spaces THEN ObjectFrom(t, i + 1, keys, members, expect)
     ELSE IF expect = "key"
     THEN Then(Or(parse_json_string(t, i), Exit), LAMBDA k : ObjectFrom(t, k.at, Append(keys, k.value), members, "colon"))
     ELSE IF c = Colon /\ expect = "colon" THEN ObjectFrom(t, i + 1, keys, members, "member")
     ELSE IF expect = "member"
     THEN Then(Member(t, i), LAMBDA m : ObjectFrom(t, m.at, keys, Append(members, m.value), "separator"))
     ELSE IF c = Comma THEN ObjectFrom(t, i + 1, keys, members, "key")
     ELSE Exit

ObjectFrom(t, i, keys, members, expect) ==
  LET c == At(t, i)
  IN IF c = 125 THEN Ok(Nested("object", keys, members), i + 1)
     ELSE IF c \in Spaces THEN ObjectFrom(t, i + 1, keys, members, expect)
     ELSE IF expect = "key"
     THEN Then(Or(parse_json_string(t, i), Exit), LAMBDA k : ObjectFrom(t, k.at, Append(keys, k.value), members, "colon"))
     ELSE IF c = Colon /\ expect = "colon" THEN ObjectFrom(t, i + 1, keys, members, "member")
     ELSE IF expect = "member"
     THEN Then(Member(t, i), LAMBDA m : ObjectFrom(t, m.at, keys, Append(members, m.value), "separator"))
     ELSE IF c = Comma /\ expect = "separator" THEN ObjectFrom(t, i + 1, keys, members, "key")
     ELSE Exit

RECURSIVE RootFrom(_, _)
RootFrom(t, i) ==
  IF i >= Len(t) THEN None
  ELSE IF At(t, i) \in Spaces THEN RootFrom(t, i + 1)
  ELSE Or(parse_json_object(t, i), parse_json_array(t, i))

parse_json_root(t) == RootFrom(t, 0)
-------------------------------------------------------------------------------
(* The program that writes a JSON text, a client or the author of a resource  *)
(* file, which is not part of this code.                                      *)

\* A quote in a string: the parser ends a string at an escaped one (see the hazards).
QuoteText == <<Backslash, 117, 48, 48, 50, 50>>

\* Characters that the parser refuses, and those beyond ASCII, are written \uXXXX.
Digit(n) == IF n < 10 THEN 48 + n ELSE 87 + n
Escaped(c) == <<Backslash, 117, Digit(c \div 4096), Digit((c \div 256) % 16), Digit((c \div 16) % 16), Digit(c % 16)>>
WriteChar(c) ==
  IF c = Quote THEN QuoteText
  ELSE IF c > 65535 THEN Escaped(55296 + ((c - 65536) \div 1024)) \o Escaped(56320 + ((c - 65536) % 1024))
  ELSE IF c > 127 \/ c = Backslash \/ c \in Refused THEN Escaped(c)
  ELSE <<c>>
WriteString(s) == <<Quote>> \o FlattenSeq([n \in DOMAIN s |-> WriteChar(s[n])]) \o <<Quote>>

RECURSIVE Write(_, _)
Write(v, gap) ==
  LET Separated(parts) == FlattenSeq([n \in DOMAIN parts |-> (IF n = 1 THEN <<>> ELSE <<Comma>>) \o gap \o parts[n] \o gap])
  IN CASE v.type = "string" -> WriteString(v.chars)
       [] v.type = "null"   -> Null
       [] v.type = "bool"   -> IF v.chars = <<1>> THEN True ELSE False
       [] v.type \in {"int", "float"} -> v.chars
       [] v.type = "array"  -> <<91>> \o Separated([n \in DOMAIN v.members |-> Write(v.members[n], gap)]) \o <<93>>
       [] v.type = "object" ->
            <<123>> \o Separated([n \in DOMAIN v.keys |->
                                    WriteString(v.keys[n]) \o gap \o <<Colon>> \o gap \o Write(v.members[n], gap)])
            \o <<125>>
===============================================================================
