-------------------------------- MODULE Layout --------------------------------
(***************************************************************************)
(* A put or get function of the codecs is a sequence of steps, each of     *)
(* which puts a field of a structure or gets one, in the order of its      *)
(* calls.  Put and Get run such a layout.  A structure is a function from  *)
(* the names of its fields; one that was not got is not in its domain.     *)
(***************************************************************************)
EXTENDS Nbt, TLC

\* The calls that put and get something with a length before it, and the format of the length.
Lengths == [string_var_int |-> "var_int", string_int_le |-> "int_le", string_int |-> "unsigned_int_le",
            string_short_be |-> "short_be", byte_array_var_int |-> "var_int",
            byte_array_signed_var_int |-> "signed_var_int", byte_array_short_le |-> "short_le"]

\* Numbers and bytes that are changed on their way.
Turned(v) == [n \in DOMAIN v |-> 255 - v[n]]
FrameSizeWidth == 65536

Order == [nbt |-> E_NETWORK_ENDIAN, lnbt |-> E_LITTLE_ENDIAN]

\* Bytes of a known number.
UuidSize == 16
Sizes == [uuid |-> UuidSize, ipv6 |-> 16]

PutValue(format, v) ==
  IF format \in DOMAIN Lengths THEN PutNumber(Lengths[format], Len(v)) \o v
  ELSE IF format \in DOMAIN Order THEN put_nbt_named_tag(v, Order[format])
  ELSE IF format \in DOMAIN Sizes THEN v
  ELSE IF format = "ipv4" THEN Turned(v)
  ELSE IF format = "bits" THEN PutNumber("unsigned_short_be", (8 * v) % FrameSizeWidth)
  ELSE PutNumber(format, v)

GetValue(format, r) ==
  IF format \in DOMAIN Lengths
  THEN LET size == GetNumber(Lengths[format], r) IN GetBytes(size.value, size.reader)
  ELSE IF format \in DOMAIN Order THEN get_nbt_named_tag(Order[format], r)
  ELSE IF format \in DOMAIN Sizes THEN GetBytes(Sizes[format], r)
  ELSE IF format = "ipv4" THEN LET got == GetBytes(4, r) IN [got EXCEPT !.value = Turned(@)]
  ELSE IF format = "bits" THEN LET got == GetNumber("unsigned_short_be", r) IN [got EXCEPT !.value = @ \div 8]
  ELSE GetNumber(format, r)
-------------------------------------------------------------------------------
\* One field; several of a format; a literal; bytes that are stepped over.
F(format, name)     == [do |-> "field", format |-> format, name |-> name]
Fs(format, names)   == [n \in DOMAIN names |-> F(format, names[n])]
Literal(bytes)      == [do |-> "literal", bytes |-> bytes]
Over(n)             == [do |-> "over", n |-> n]
\* Bytes whose number is a field; zeros up to a size, which the receiver knows from the whole.
Bytes(size, name)   == [do |-> "bytes", size |-> size, name |-> name]
Padding(name, size) == [do |-> "padding", name |-> name, size |-> size]
\* A count and as many structures; n structures; structures to the end of the stream.
Many(format, name, of) == [do |-> "many", format |-> format, name |-> name, of |-> of]
Times(n, name, of)     == [do |-> "times", n |-> n, name |-> name, of |-> of]
Rest(name, of)         == [do |-> "rest", name |-> name, of |-> of]
\* A structure in the structure; one in a stream of its own, behind its length.
Sub(name, of)          == [do |-> "sub", name |-> name, of |-> of]
Blob(format, name, of) == [do |-> "blob", format |-> format, name |-> name, of |-> of]
\* Steps that are taken if a field has one of the values, or has none of them.
When(name, values, of)   == [do |-> "when", name |-> name, values |-> values, of |-> of]
Unless(name, values, of) == [do |-> "unless", name |-> name, values |-> values, of |-> of]
\* Steps whose fields are dropped; steps repeated below a count that is got before each.
Drop(of)           == [do |-> "drop", of |-> of]
Reread(format, of) == [do |-> "reread", format |-> format, of |-> of]

\* The bytes that a layout puts for the structure p.
RECURSIVE Put(_, _)
Put(layout, p) ==
  LET Step(s) ==
        CASE s.do = "field"   -> PutValue(s.format, p[s.name])
          [] s.do = "literal" -> s.bytes
          [] s.do = "bytes"   -> p[s.name]
          [] s.do = "padding" -> [n \in 1 .. p[s.name] - s.size |-> 0]
          [] s.do = "many"    -> PutNumber(s.format, Len(p[s.name]))
                                   \o FlattenSeq([n \in DOMAIN p[s.name] |-> Put(s.of, p[s.name][n])])
          [] s.do \in {"times", "rest"} -> FlattenSeq([n \in DOMAIN p[s.name] |-> Put(s.of, p[s.name][n])])
          [] s.do = "sub"     -> Put(s.of, p[s.name])
          [] s.do = "blob"    -> LET inner == Put(s.of, p[s.name])
                                 IN PutNumber(s.format, Len(inner)) \o inner
          [] s.do = "when"    -> IF p[s.name] \in s.values THEN Put(s.of, p) ELSE <<>>
          [] s.do = "unless"  -> IF p[s.name] \notin s.values THEN Put(s.of, p) ELSE <<>>
  IN FlattenSeq([n \in DOMAIN layout |-> Step(layout[n])])

\* The structure that a layout gets behind the fields of p, and the reader after it.
RECURSIVE Get(_, _, _), GetRest(_, _), GetReread(_, _, _)
Get(layout, p, r) ==
  LET Set(q, name, got) == [value |-> q @@ (name :> got.value), reader |-> got.reader]
      New(of, s) == Get(of, <<>>, s)
      Step(acc, s) ==
        LET q == acc.value
            t == acc.reader
        IN CASE s.do = "field"  -> Set(q, s.name, GetValue(s.format, t))
             [] s.do = "over"   -> [acc EXCEPT !.reader = Past(t, s.n)]
             [] s.do = "bytes"  -> Set(q, s.name, GetBytes(q[s.size], t))
             [] s.do = "padding" -> [value  |-> q @@ (s.name :> Len(t.bytes)),
                                     reader |-> [t EXCEPT !.offset = Len(t.bytes) - 1]]
             [] s.do = "many"   -> LET count == GetNumber(s.format, t)
                                   IN Set(q, s.name, Repeat(count.value, LAMBDA u : New(s.of, u), count.reader))
             [] s.do = "times"  -> Set(q, s.name, Repeat(s.n, LAMBDA u : New(s.of, u), t))
             [] s.do = "rest"   -> Set(q, s.name, GetRest(s.of, t))
             [] s.do = "sub"    -> Set(q, s.name, New(s.of, t))
             [] s.do = "blob"   -> LET size  == GetNumber(s.format, t)
                                       bytes == GetBytes(size.value, size.reader)
                                   IN [value |-> q @@ (s.name :> New(s.of, Reader(bytes.value)).value),
                                       reader |-> bytes.reader]
             [] s.do = "when"   -> IF q[s.name] \in s.values THEN Get(s.of, q, t) ELSE acc
             [] s.do = "unless" -> IF q[s.name] \notin s.values THEN Get(s.of, q, t) ELSE acc
             [] s.do = "drop"   -> [acc EXCEPT !.reader = New(s.of, t).reader]
             [] s.do = "reread" -> [acc EXCEPT !.reader = GetReread(s, 0, t)]
  IN FoldLeft(Step, [value |-> p, reader |-> r], layout)

GetRest(of, r) ==
  LET first == Get(of, <<>>, r)
      rest  == GetRest(of, first.reader)
  IN IF r.offset >= Len(r.bytes) THEN [value |-> <<>>, reader |-> r]
     ELSE [value |-> <<first.value>> \o rest.value, reader |-> rest.reader]

GetReread(s, i, r) ==
  LET count == GetNumber(s.format, r)
  IN IF i >= count.value THEN count.reader
     ELSE GetReread(s, i + 1, Get(s.of, <<>>, count.reader).reader)
===============================================================================
