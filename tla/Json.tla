---------------------------------- MODULE Json ----------------------------------
(***************************************************************************)
(* A JSON text from its writer through the parser to the *)
(* lookups of its readers and the functions that destroy it.               *)
(***************************************************************************)
EXTENDS JsonText, FiniteSets

CONSTANTS Values,    \* inputs: what is written; strings are sequences of code points
          Gaps,      \* inputs: the white space the writer puts between two tokens
          Texts      \* inputs: other texts

VARIABLES text,    \* the text
          meant,   \* the value that was written, or <<>> for another text
          result,  \* the result of the parser, once it has run
          heap,    \* the blocks of the value, each named by the path to it
          wild,    \* what was freed and was not allocated, or never set
          phase

vars == <<text, meant, result, heap, wild, phase>>
-------------------------------------------------------------------------------
Empty == Scalar("empty", <<>>)
Unset == Scalar("unset", <<>>)

\* The first entry with the key; the last key of an object may have no member.
get_json_object_value(key, object) ==
  LET n == SelectInSeq(object.keys, LAMBDA k : k = key)
  IN IF n = 0 THEN Empty ELSE IF n > Len(object.members) THEN Unset ELSE object.members[n]

get_json_array_value(index, array) == IF index < Len(array.members) THEN array.members[index + 1] ELSE Empty

\* What the parser allocates for a value.
RECURSIVE Blocks(_, _), Destroyed(_, _)
Blocks(v, path) ==
  UNION {Blocks(v.members[n], Append(path, <<n, "member">>)) : n \in DOMAIN v.members}
  \cup (IF v.type = "string" THEN {Append(path, <<0, "chars">>)} ELSE {})
  \cup (IF v.type = "array" THEN {Append(path, <<0, "members">>), Append(path, <<0, "types">>)} ELSE {})
  \cup (IF v.type = "object"
        THEN {Append(path, <<0, b>>) : b \in {"keys", "members", "types"}} \cup {Append(path, <<n, "key">>) : n \in DOMAIN v.keys}
        ELSE {})

\* What destroy_json_array and destroy_json_object free, in their order; the type of a last key
\* without a member was never set.
Destroyed(v, path) ==
  LET Entry(n) == IF n > Len(v.members) THEN <<Append(path, <<0, "unset">>)>>
                  ELSE IF v.members[n].type = "string" THEN <<path \o <<<<n, "member">>, <<0, "chars">>>>>>
                  ELSE IF v.members[n].type \in {"object", "array"}
                  THEN Destroyed(v.members[n], Append(path, <<n, "member">>)) ELSE <<>>
      Key(n)   == IF v.type = "object" THEN <<Append(path, <<n, "key">>)>> ELSE <<>>
      count    == IF v.type = "object" THEN Len(v.keys) ELSE Len(v.members)
  IN FlattenSeq([n \in 1 .. count |-> Entry(n) \o Key(n)])
     \o (IF v.type = "object" THEN <<Append(path, <<0, "keys">>)>> ELSE <<>>)
     \o <<Append(path, <<0, "types">>), Append(path, <<0, "members">>)>>
-------------------------------------------------------------------------------
Init ==
  /\ \/ \E v \in Values, gap \in Gaps : meant = <<v>> /\ text = gap \o Write(v, gap)
     \/ meant = <<>> /\ text \in Texts
  /\ result = None /\ heap = {} /\ wild = {} /\ phase = "text"

Parse ==
  /\ phase = "text"
  /\ result' = parse_json_root(text)
  /\ heap' = IF result'.status = "ok" THEN Blocks(result'.value, <<>>) ELSE {}
  /\ phase' = "parsed"
  /\ UNCHANGED <<text, meant, wild>>

destroy_json_root ==
  /\ phase = "parsed" /\ result.status = "ok"
  /\ LET freed == Destroyed(result.value, <<>>)
     IN /\ heap' = heap \ Range(freed)
        /\ wild' = {b \in Range(freed) : b \notin heap \/ Cardinality({n \in DOMAIN freed : freed[n] = b}) > 1}
  /\ phase' = "destroyed"
  /\ UNCHANGED <<text, meant, result>>

Next == Parse \/ destroy_json_root

Spec == Init /\ [][Next]_vars
-------------------------------------------------------------------------------
\* The code points of bytes in UTF-8, by its definition.
RECURSIVE Codes(_)
Codes(bytes) ==
  LET b    == bytes[1]
      size == IF b < 128 THEN 1 ELSE IF b < 224 THEN 2 ELSE IF b < 240 THEN 3 ELSE 4
      lead == IF size = 1 THEN b ELSE IF size = 2 THEN b - 192 ELSE IF size = 3 THEN b - 224 ELSE b - 240
  IN IF bytes = <<>> THEN <<>>
     ELSE IF Len(bytes) < size THEN <<-1>>
     ELSE <<FoldLeft(LAMBDA sum, c : 64 * sum + (c - 128), lead, SubSeq(bytes, 2, size))>>
          \o Codes(SubSeq(bytes, size + 1, Len(bytes)))

\* What a reader sees of a value through the lookups is what was meant.
RECURSIVE Reads(_, _)
Reads(v, w) ==
  /\ v.type = w.type
  /\ CASE w.type = "string" -> Codes(v.chars) = w.chars
       [] w.type = "array"  ->
            /\ \A n \in DOMAIN w.members : Reads(get_json_array_value(n - 1, v), w.members[n])
            /\ get_json_array_value(Len(w.members), v) = Empty
       [] w.type = "object" ->
            /\ Len(v.keys) = Len(w.keys)
            /\ \A n \in DOMAIN w.keys :
                 Codes(v.keys[n]) = w.keys[n] /\ Reads(get_json_object_value(v.keys[n], v), get_json_object_value(w.keys[n], w))
       [] OTHER -> v.chars = w.chars

\* A text that a writer made is read as what was written: every nesting, white space anywhere,
\* strings of any characters up to the ends of each length in UTF-8.
ReadBack ==
  phase # "text" /\ meant # <<>> =>
    result.status = "ok" /\ Reads(result.value, meant[1]) /\ result.at = Len(text)

RECURSIVE Whole(_, _)
Whole(v, missing) ==
  /\ v.type = "object" => Len(v.members) \in {Len(v.keys) - k : k \in missing}
  /\ \A n \in DOMAIN v.members : Whole(v.members[n], missing)

\* Whatever text is accepted, no member is read under the key of another one: only the last key
\* of an object can be without its member.
MembersBelongToKeys == result.status = "ok" => Whole(result.value, {0, 1})

\* What was accepted of a text of ASCII, and lacks no member, is the same when it is written and
\* read again.
ReadsAgain ==
  meant = <<>> /\ phase = "parsed" /\ result.status = "ok" /\ Whole(result.value, {0}) =>
    parse_json_root(Write(result.value, <<>>)) = Ok(result.value, Len(Write(result.value, <<>>)))

\* All blocks of a value without such a key are freed with it, each once.
AllIsFreed == phase = "destroyed" /\ Whole(result.value, {0}) => heap = {} /\ wild = {}
===============================================================================
