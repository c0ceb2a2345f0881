----------------------------- MODULE BinaryStream -----------------------------
(***************************************************************************)
(* binary_stream.c: a buffer that grows at its end and an offset from      *)
(* which it is read.  Every codec of the server is built from these calls. *)
(* Floats are stored as the integers of their bits.  The size of a byte is *)
(* a parameter, and with it the number of bytes of a var int, so that all  *)
(* values can be tried.                                                    *)
(***************************************************************************)
EXTENDS Integers, Sequences, SequencesExt

CONSTANTS ByteSize,       \* 256
          VarIntBytes,    \* 5, the bytes of 7 bits that hold 32
          VarLongBytes,   \* 10
          PutValues(_),   \* inputs: what is put as each kind
          MaxItems        \* bound: items in a stream

VARIABLES buffer, offset,
          put,   \* what was put, [kind, value] in order
          got    \* what was got

stream == <<buffer, offset, put, got>>

Byte == 0 .. ByteSize - 1
Group == ByteSize \div 2

\* The fixed formats by the bytes they take.
OneByte    == {"unsigned_byte", "byte"}
TwoBytes   == {"unsigned_short_le", "unsigned_short_be", "short_le", "short_be"}
ThreeBytes == {"unsigned_triad_le", "unsigned_triad_be", "triad_le", "triad_be"}
FourBytes  == {"unsigned_int_le", "unsigned_int_be", "int_le", "int_be"}
EightBytes == {"unsigned_long_le", "unsigned_long_be", "long_le", "long_be"}
Fixed      == OneByte \cup TwoBytes \cup ThreeBytes \cup FourBytes \cup EightBytes

\* Those whose first byte is the highest, and those that give a sign back.
HighestFirst == {"unsigned_short_be", "short_be", "unsigned_triad_be", "triad_be", "unsigned_int_be", "int_be",
                 "unsigned_long_be", "long_be"}
SignedFixed  == {"byte", "short_le", "short_be", "int_le", "int_be", "long_le", "long_be"}

\* Signed by their type only: what is got is never negative.
Triads == {"triad_le", "triad_be"}

UnsignedVar == {"var_int", "var_long"}
SignedVar   == {"signed_var_int", "signed_var_long"}
Kinds       == Fixed \cup UnsignedVar \cup SignedVar \cup {"bytes"}

\* How far the loops of the var formats go.
Rounds(kind) == IF kind \in {"var_int", "signed_var_int"} THEN VarIntBytes ELSE VarLongBytes

Power(base, n) ==
  LET power[k \in 0 .. n] == IF k = 0 THEN 1 ELSE base * power[k - 1] IN power[n]

\* The bytes of the type of a parameter.
BytesOf(kind) ==
  CASE kind \in OneByte -> 1
    [] kind \in TwoBytes -> 2
    [] kind \in ThreeBytes -> 3
    [] kind \in FourBytes \cup {"var_int", "signed_var_int"} -> 4
    [] kind \in EightBytes \cup {"var_long", "signed_var_long"} -> 8

SizeOf(kind) == Power(ByteSize, BytesOf(kind))

\* What the parameter of a put function holds; that of put_triad_* has 32 bits.
InUnsigned(size) == 0 .. size - 1
InSigned(size)   == -(size \div 2) .. (size \div 2) - 1

Legal(kind) ==
  CASE kind = "bytes" -> Seq(Byte)
    [] kind \in Triads -> InSigned(Power(ByteSize, 4))
    [] kind \in SignedFixed \cup SignedVar -> InSigned(SizeOf(kind))
    [] kind \in (Fixed \ (SignedFixed \cup Triads)) \cup UnsignedVar -> InUnsigned(SizeOf(kind))

\* A byte is at least four values and splits in two; the bytes of a var int and a var long
\* hold 4 and 8 bytes.
ASSUME ByteAssumption == ByteSize \in Nat /\ ByteSize >= 4 /\ ByteSize % 2 = 0
ASSUME VarAssumption ==
  /\ VarIntBytes \in Nat \ {0} /\ Power(ByteSize, 4) <= Power(Group, VarIntBytes)
  /\ VarLongBytes \in Nat \ {0} /\ Power(ByteSize, 8) <= Power(Group, VarLongBytes)
ASSUME ValuesAssumption == \A kind \in Kinds : PutValues(kind) \subseteq Legal(kind)

\* Two's complement and back.
Wrap(v, size) == v % size
Unwrap(raw, size) == IF raw < size \div 2 THEN raw ELSE raw - size
-------------------------------------------------------------------------------
\* The n lowest digits of a number, the lowest first: the shifts and masks of the put functions.
Digits(v, base, n) == [k \in 1 .. n |-> (v \div Power(base, k - 1)) % base]

\* The number of digits that stand in bytes, which may hold more: those of the get functions.
Number(s, base) ==
  LET sum[n \in 0 .. Len(s)] == IF n = 0 THEN 0 ELSE sum[n - 1] + (s[n] % base) * Power(base, n - 1)
  IN sum[Len(s)]

\* From the lowest digit first to the order of a kind, and back.
Ordered(s, kind) == IF kind \in HighestFirst THEN Reverse(s) ELSE s

\* put_unsigned_*: the bytes of a number.
PutFixed(raw, kind) == Ordered(Digits(raw, ByteSize, BytesOf(kind)), kind)

\* get_unsigned_*.
GetFixed(s, kind) == Number(Ordered(s, kind), ByteSize)

\* The groups a number takes, at most what the loop of put_var_int writes.
Groups(raw, rounds) ==
  CHOOSE n \in 1 .. rounds :
    /\ n = rounds \/ raw < Power(Group, n)
    /\ \A k \in 1 .. n - 1 : raw >= Power(Group, k)

\* put_var_int, put_var_long: the lowest group first, the highest bit says that more follow.
PutVar(raw, rounds) ==
  LET groups == Digits(raw, Group, Groups(raw, rounds))
  IN [n \in DOMAIN groups |-> groups[n] + (IF raw >= Power(Group, n) THEN Group ELSE 0)]

\* get_var_int, get_var_long: where the loop ends; past it when all groups continue.
Ending(s, rounds) ==
  CHOOSE n \in 1 .. rounds + 1 :
    /\ n = rounds + 1 \/ s[n] < Group
    /\ \A k \in 1 .. n - 1 : s[k] >= Group

\* What is read: the value, 0 when it does not end, and the bytes taken.
GetVar(s, rounds) ==
  LET n == Ending(s, rounds)
  IN IF n > rounds THEN [raw |-> 0, taken |-> rounds]
     ELSE [raw |-> Number(SubSeq(s, 1, n), Group), taken |-> n]

\* Mutant: the numbers are doubled, whatever their sign.
MutZigZag(v) == Wrap(2 * v, Power(ByteSize, 4))

\* put_signed_var_int: the sign goes to the lowest bit.
ZigZag(v) == IF v >= 0 THEN 2 * v ELSE 2 * (-1 - v) + 1

\* get_signed_var_int: the other bits, all of them turned when it is set.
UnZigZag(raw) == IF raw % 2 = 0 THEN raw \div 2 ELSE -1 - (raw \div 2)
-------------------------------------------------------------------------------
Encode(kind, v) ==
  CASE kind \in Fixed -> PutFixed(Wrap(v, SizeOf(kind)), kind)
    [] kind \in UnsignedVar -> PutVar(v, Rounds(kind))
    [] kind \in SignedVar -> PutVar(ZigZag(v), Rounds(kind))
    [] kind = "bytes" -> v

\* What the getter of a kind reads from the bytes s, and how many; get_bytes is told how many.
Decode(kind, s, count) ==
  CASE kind \in Fixed ->
         LET raw == GetFixed(SubSeq(s, 1, BytesOf(kind)), kind)
         IN [value |-> IF kind \in SignedFixed THEN Unwrap(raw, SizeOf(kind)) ELSE raw,
             taken |-> BytesOf(kind)]
    [] kind \in UnsignedVar ->
         LET r == GetVar(s, Rounds(kind)) IN [value |-> r.raw, taken |-> r.taken]
    [] kind \in SignedVar ->
         LET r == GetVar(s, Rounds(kind)) IN [value |-> UnZigZag(r.raw), taken |-> r.taken]
    [] kind = "bytes" -> [value |-> SubSeq(s, 1, count), taken |-> count]

StreamInit == buffer = <<>> /\ offset = 0 /\ put = <<>> /\ got = <<>>

PutItem(kind, v) ==
  /\ Len(put) < MaxItems
  /\ buffer' = buffer \o Encode(kind, v)
  /\ put' = Append(put, [kind |-> kind, value |-> v])
  /\ UNCHANGED <<offset, got>>

\* The reader asks for what was put, in its order; it may still grow behind it.
GetItem ==
  /\ Len(got) < Len(put)
  /\ LET item == put[Len(got) + 1]
         r == Decode(item.kind, SubSeq(buffer, offset + 1, Len(buffer)),
                     IF item.kind = "bytes" THEN Len(item.value) ELSE 0)
     IN /\ got' = Append(got, r.value)
        /\ offset' = offset + r.taken
  /\ UNCHANGED <<buffer, put>>

StreamNext == (\E kind \in Kinds : \E v \in PutValues(kind) : PutItem(kind, v)) \/ GetItem

StreamSpec == StreamInit /\ [][StreamNext]_stream
-------------------------------------------------------------------------------
\* The buffer holds bytes, and the items are of the kinds and in the ranges of the functions.
StreamTypeOK ==
  /\ buffer \in Seq(Byte)
  /\ offset \in Nat
  /\ put \in Seq([kind : Kinds, value : Int \cup Seq(Byte)])
  /\ \A n \in DOMAIN put : put[n].value \in Legal(put[n].kind)
  /\ got \in Seq(Int \cup Seq(Byte))
  /\ Len(got) <= Len(put)

\* What a getter should give; a negative triad comes back as the positive number of its bits.
Meant(item) == IF item.kind \in Triads THEN Wrap(item.value, SizeOf(item.kind)) ELSE item.value

\* What is got is what was put, whatever stands before and behind it in the stream; the reader
\* never leaves the buffer, and once all is read it is at the end: no item was cut, none took a
\* byte of the next (binary_stream.c).
NumbersReadBack ==
  /\ \A n \in DOMAIN got : got[n] = Meant(put[n])
  /\ offset <= Len(buffer)
  /\ Len(got) = Len(put) => offset = Len(buffer)
===============================================================================
