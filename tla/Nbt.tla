---------------------------------- MODULE Nbt ----------------------------------
(***************************************************************************)
(* What binary_stream.c and nbt.c make of numbers and of trees of tags.    *)
(*                                                                         *)
(* The numbers are the small ones the codecs are checked with: at most     *)
(* 16383 in a var format, 65535 in a fixed one, negative in a signed var   *)
(* one only.  Module BinaryStream has every value.  Floats are numbers     *)
(* here: the bits of one.                                                  *)
(*                                                                         *)
(* Tags are put and got in three byte orders, and freed.  A tag is         *)
(* [tag_id, data]; the data of a list is [tag_id, items], of a compound a  *)
(* sequence of [tag_id, name, data], of the arrays and strings a sequence  *)
(* of numbers.                                                             *)
(***************************************************************************)
EXTENDS Integers, Sequences, SequencesExt, FiniteSetsExt

\* The bytes a fixed format takes; the formats named _be start with the highest.
Width == [unsigned_byte |-> 1, byte |-> 1, short_le |-> 2, unsigned_short_le |-> 2, short_be |-> 2,
          unsigned_short_be |-> 2, unsigned_triad_le |-> 3, int_le |-> 4, unsigned_int_le |-> 4,
          int_be |-> 4, unsigned_int_be |-> 4, float_le |-> 4, float_be |-> 4, long_le |-> 8,
          unsigned_long_le |-> 8, long_be |-> 8, unsigned_long_be |-> 8, double_le |-> 8, double_be |-> 8]

BigEndian == {"short_be", "unsigned_short_be", "int_be", "unsigned_int_be", "float_be", "long_be",
              "unsigned_long_be", "double_be"}

Numbers == DOMAIN Width \cup {"var_int", "signed_var_int", "var_long", "signed_var_long"}

\* The number that stands for all beyond the small ones; no packet of a run has it.
Beyond == 99999

\* 0xfffffffe, the count of sub chunks that asks the client to request them.
Requested == -2
RequestedBytes == <<254, 255, 255, 255, 15>>

PutNumber(format, v) ==
  IF format \in DOMAIN Width
  THEN LET little == [n \in 1 .. Width[format] |->
                        IF n = 1 THEN v % 256 ELSE IF n = 2 THEN (v \div 256) % 256 ELSE 0]
       IN IF format \in BigEndian THEN Reverse(little) ELSE little
  ELSE LET raw == IF format \in {"signed_var_int", "signed_var_long"}
                  THEN (IF v >= 0 THEN 2 * v ELSE 2 * (-1 - v) + 1) ELSE v
       IN IF raw = Requested THEN RequestedBytes
          ELSE IF raw < 128 THEN <<raw>> ELSE <<(raw % 128) + 128, raw \div 128>>

\* A reader is the buffer and the offset of a binary_stream_t; the getters do not look at the
\* size, and one that has left the buffer stays out of it.
Reader(bytes) == [bytes |-> bytes, offset |-> 0]
Outside(r) == r.offset > Len(r.bytes)
Past(r, n) == [r EXCEPT !.offset = IF @ + n > Len(r.bytes) THEN Len(r.bytes) + 1 ELSE @ + n]
Ahead(r, n) == SubSeq(r.bytes, r.offset + 1, r.offset + n)

\* The bytes of a var format at the reader.
VarWidth(r) ==
  LET ends == {n \in 1 .. 5 : r.offset + n <= Len(r.bytes) /\ r.bytes[r.offset + n] < 128}
  IN IF ends = {} THEN 5 ELSE CHOOSE n \in ends : \A k \in ends : n <= k

\* The number that bytes in the order of a little-endian or a var format stand for.
NumberOf(bytes, base) ==
  IF base = 128 /\ bytes = RequestedBytes THEN Requested
  ELSE IF \E n \in 3 .. Len(bytes) : bytes[n] # 0 THEN Beyond
  ELSE (bytes[1] % base) + (IF Len(bytes) > 1 THEN base * bytes[2] ELSE 0)

Signed(raw) == IF raw = Beyond THEN Beyond ELSE IF raw % 2 = 0 THEN raw \div 2 ELSE -1 - (raw \div 2)

ValueOf(format, bytes) ==
  IF format \in BigEndian THEN NumberOf(Reverse(bytes), 256)
  ELSE IF format \in DOMAIN Width THEN NumberOf(bytes, 256)
  ELSE IF format \in {"signed_var_int", "signed_var_long"} THEN Signed(NumberOf(bytes, 128))
  ELSE NumberOf(bytes, 128)

Size(format, r) == IF format \in DOMAIN Width THEN Width[format] ELSE VarWidth(r)

\* get_bytes, and what a getter of a number returns: with the reader after it; outside of the
\* buffer, nothing and 0.
GetBytes(n, r) == [value |-> IF Outside(Past(r, n)) THEN <<>> ELSE Ahead(r, n), reader |-> Past(r, n)]

NumberIn(format, got) == [got EXCEPT !.value = IF @ = <<>> THEN 0 ELSE ValueOf(format, @)]
GetNumber(format, r) == NumberIn(format, GetBytes(Size(format, r), r))
-------------------------------------------------------------------------------
END_TAG == 0
BYTE_TAG == 1
SHORT_TAG == 2
INT_TAG == 3
LONG_TAG == 4
FLOAT_TAG == 5
DOUBLE_TAG == 6
BYTE_ARRAY_TAG == 7
STRING_TAG == 8
LIST_TAG == 9
COMPOUND_TAG == 10
INT_ARRAY_TAG == 11
LONG_ARRAY_TAG == 12

E_BIG_ENDIAN == 0
E_LITTLE_ENDIAN == 1
E_NETWORK_ENDIAN == 2

ShortFormat(e)  == IF e = E_BIG_ENDIAN THEN "short_be" ELSE "short_le"
IntFormat(e)    == IF e = E_BIG_ENDIAN THEN "int_be" ELSE IF e = E_LITTLE_ENDIAN THEN "int_le" ELSE "signed_var_int"
LongFormat(e)   == IF e = E_BIG_ENDIAN THEN "long_be" ELSE IF e = E_LITTLE_ENDIAN THEN "long_le" ELSE "signed_var_long"
FloatFormat(e)  == IF e = E_BIG_ENDIAN THEN "float_be" ELSE "float_le"
DoubleFormat(e) == IF e = E_BIG_ENDIAN THEN "double_be" ELSE "double_le"
StringFormat(e) == IF e = E_BIG_ENDIAN THEN "unsigned_short_be"
                   ELSE IF e = E_LITTLE_ENDIAN THEN "unsigned_short_le" ELSE "var_int"

\* The format of a tag that is one number, and of the numbers of an array.
NumberFormat(tag, e) ==
  CASE tag \in {BYTE_TAG, BYTE_ARRAY_TAG, STRING_TAG} -> "byte"
    [] tag = SHORT_TAG -> ShortFormat(e)
    [] tag \in {INT_TAG, INT_ARRAY_TAG} -> IntFormat(e)
    [] tag \in {LONG_TAG, LONG_ARRAY_TAG} -> LongFormat(e)
    [] tag = FLOAT_TAG -> FloatFormat(e)
    [] tag = DOUBLE_TAG -> DoubleFormat(e)

NumberTags == {BYTE_TAG, SHORT_TAG, INT_TAG, LONG_TAG, FLOAT_TAG, DOUBLE_TAG}
ArrayTags  == {BYTE_ARRAY_TAG, INT_ARRAY_TAG, LONG_ARRAY_TAG, STRING_TAG}
CountFormat(tag, e) == IF tag = STRING_TAG THEN StringFormat(e) ELSE IntFormat(e)
-------------------------------------------------------------------------------
put_nbt_array(tag, s, e) ==
  PutNumber(CountFormat(tag, e), Len(s))
    \o FlattenSeq([n \in DOMAIN s |-> PutNumber(NumberFormat(tag, e), s[n])])

RECURSIVE put_nbt_multi_tag(_, _, _), put_nbt_list_tag(_, _), put_nbt_compound_tag(_, _)

put_nbt_multi_tag(data, tag, e) ==
  CASE tag \in NumberTags -> PutNumber(NumberFormat(tag, e), data)
    [] tag \in ArrayTags -> put_nbt_array(tag, data, e)
    [] tag = LIST_TAG -> put_nbt_list_tag(data, e)
    [] tag = COMPOUND_TAG -> put_nbt_compound_tag(data, e)
    [] OTHER -> <<>>

put_nbt_list_tag(list, e) ==
  PutNumber("byte", list.tag_id) \o PutNumber(IntFormat(e), Len(list.items))
    \o FlattenSeq([n \in DOMAIN list.items |-> put_nbt_multi_tag(list.items[n], list.tag_id, e)])

put_nbt_compound_tag(entries, e) ==
  FlattenSeq([n \in DOMAIN entries |->
                PutNumber("byte", entries[n].tag_id) \o put_nbt_array(STRING_TAG, entries[n].name, e)
                  \o put_nbt_multi_tag(entries[n].data, entries[n].tag_id, e)])
    \o PutNumber("byte", END_TAG)

put_nbt_named_tag(named, e) ==
  PutNumber("byte", named.tag_id)
    \o (IF named.tag_id = END_TAG THEN <<>>
        ELSE put_nbt_array(STRING_TAG, named.name, e)
               \o put_nbt_multi_tag(named.data, named.tag_id, e))
-------------------------------------------------------------------------------
\* The items that Get takes one after the other, in a sequence.
Repeat(count, Get(_), r) ==
  FoldLeft(LAMBDA acc, n : LET g == Get(acc.reader)
                           IN [value |-> Append(acc.value, g.value), reader |-> g.reader],
           [value |-> <<>>, reader |-> r], [n \in 1 .. count |-> n])

\* A count, and as many items.
Counted(size, Get(_)) == Repeat(size.value, Get, size.reader)

get_nbt_array(tag, e, r) ==
  Counted(GetNumber(CountFormat(tag, e), r), LAMBDA s : GetNumber(NumberFormat(tag, e), s))

RECURSIVE get_nbt_multi_tag(_, _, _), get_nbt_list_tag(_, _), get_nbt_compound_tag(_, _)

get_nbt_multi_tag(tag, e, r) ==
  CASE tag \in NumberTags -> GetNumber(NumberFormat(tag, e), r)
    [] tag \in ArrayTags -> get_nbt_array(tag, e, r)
    [] tag = LIST_TAG -> get_nbt_list_tag(e, r)
    [] tag = COMPOUND_TAG -> get_nbt_compound_tag(e, r)
    [] OTHER -> [value |-> 0, reader |-> r]

TagItems(tag, items) == [value |-> [tag_id |-> tag.value, items |-> items.value], reader |-> items.reader]
ListItems(tag, e) ==
  TagItems(tag, Counted(GetNumber(IntFormat(e), tag.reader), LAMBDA s : get_nbt_multi_tag(tag.value, e, s)))
get_nbt_list_tag(e, r) == ListItems(GetNumber("byte", r), e)

\* What stands behind the byte of a tag that is not the end: a name and the data.
NamedTag(tag, name, data) ==
  [value |-> [tag_id |-> tag.value, name |-> name.value, data |-> data.value], reader |-> data.reader]
WithName(tag, name, e) == NamedTag(tag, name, get_nbt_multi_tag(tag.value, e, name.reader))
NameAndData(tag, e) == WithName(tag, get_nbt_array(STRING_TAG, e, tag.reader), e)

\* Up to the end tag, or to the end of the stream.
Followed(entry, rest) == [value |-> <<entry.value>> \o rest.value, reader |-> rest.reader]
EntriesFrom(entry, e) == Followed(entry, get_nbt_compound_tag(e, entry.reader))
CompoundFrom(tag, e) ==
  IF tag.value = END_TAG THEN [value |-> <<>>, reader |-> tag.reader] ELSE EntriesFrom(NameAndData(tag, e), e)
get_nbt_compound_tag(e, r) ==
  IF r.offset >= Len(r.bytes) THEN [value |-> <<>>, reader |-> r] ELSE CompoundFrom(GetNumber("byte", r), e)

\* The name and the data of an end tag are not set.
RootTag(tag, e) ==
  IF tag.value = END_TAG THEN [value |-> [tag_id |-> END_TAG], reader |-> tag.reader] ELSE NameAndData(tag, e)
get_nbt_named_tag(e, r) == RootTag(GetNumber("byte", r), e)
===============================================================================
