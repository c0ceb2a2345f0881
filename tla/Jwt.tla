----------------------------------- MODULE Jwt -----------------------------------
(***************************************************************************)
(* jwt_decode: a token of three parts is cut at its dots, and two of them  *)
(* are decoded and parsed.  The decoded buffers have no 0 at their end, so *)
(* the parser reads them as C strings that go on with what follows them in *)
(* memory.                                                                 *)
(***************************************************************************)
EXTENDS JsonText

CONSTANTS Headers, Payloads,  \* inputs: JSON values
          Signatures,         \* inputs: signatures, as sequences of bytes
          Beyond              \* inputs: what follows a buffer in memory, up to the next 0

VARIABLES header, payload, signature,  \* what the peer has put in the token
          token,                       \* and the text of it
          jwt                          \* the result of jwt_decode

vars == <<header, payload, signature, token, jwt>>

B64 == INSTANCE Base64

Dot == 46
NoToken == <<>>
NoJwt == [raw_header |-> <<>>, raw_payload |-> <<>>, signature |-> <<>>, header |-> None, payload |-> None]

\* strtok: the parts between the dots; more than one dot is like one.
Fields(text) ==
  FoldLeft(LAMBDA fields, c : IF c = Dot THEN Append(fields, <<>>) ELSE [fields EXCEPT ![Len(fields)] = Append(@, c)], <<<<>>>>, text)
strtok(text) == SelectSeq(Fields(text), LAMBDA f : f # <<>>)

Parsed(raw, beyond) == parse_json_root(B64!base64_url_decode(raw) \o beyond)

Encoded(bytes) == B64!char_base64_url_encode(bytes)

\* The peer writes the parts without padding.
Init ==
  /\ header \in Headers /\ payload \in Payloads /\ signature \in Signatures
  /\ token = Encoded(Write(header, <<>>)) \o <<Dot>> \o Encoded(Write(payload, <<>>)) \o <<Dot>> \o Encoded(signature)
  /\ jwt = NoJwt

\* The token is cut up in place.
jwt_decode ==
  /\ token # NoToken
  /\ LET fields == strtok(token)
     IN \E first, second \in Beyond :
          jwt' = [raw_header |-> fields[1], raw_payload |-> fields[2], signature |-> fields[3],
                  header |-> Parsed(fields[1], first), payload |-> Parsed(fields[2], second)]
  /\ token' = NoToken
  /\ UNCHANGED <<header, payload, signature>>

Next == jwt_decode

Spec == Init /\ [][Next]_vars
-------------------------------------------------------------------------------
\* Whatever follows the buffers in memory, the parser finds in them what the text alone says: it
\* leaves the text of an object at its brace.
EndDoesNotMatter ==
  jwt # NoJwt =>
    /\ jwt.header = parse_json_root(Write(header, <<>>)) /\ jwt.header.status = "ok"
    /\ jwt.payload = parse_json_root(Write(payload, <<>>)) /\ jwt.payload.status = "ok"

\* What handle_login verifies, the header and the payload as they came, is what the peer has signed,
\* and the signature decodes to the peer's if its length is a multiple of three, as 96 is.
SignedPartIsWhole ==
  jwt # NoJwt =>
    /\ jwt.raw_header \o <<Dot>> \o jwt.raw_payload = Encoded(Write(header, <<>>)) \o <<Dot>> \o Encoded(Write(payload, <<>>))
    /\ B64!char_base64_url_decode(jwt.signature) = B64!Buffer(signature, Len(signature))
===============================================================================
