------------------------------ MODULE AckRanges ------------------------------
(***************************************************************************)
(* How the numbers of an ACK or NACK travel (podrum/network/raknet/        *)
(* rakpacket.c): put_packet_acknowledge sorts them in place and writes     *)
(* runs of consecutive numbers as records, get_packet_acknowledge lists    *)
(* them again.  The loops are steps.  The stream is what the two put and   *)
(* get: a flag or a triad is one item of it, wherever a record starts.     *)
(***************************************************************************)
EXTENDS Integers, Sequences

CONSTANTS Numbers,  \* the sequence numbers in use, of 24 bits on the wire
          MaxCount  \* bound: numbers in one acknowledgement

ASSUME NumbersAreNat == Numbers \subseteq Nat
ASSUME MaxCountIsNat == MaxCount \in Nat

VARIABLES given,         \* the numbers to acknowledge, each once (is_in_raknet_ack_queue)
          numbers,       \* packet.sequence_numbers
          pc,            \* "sort", "scan", "decode", "done"
          i, j,          \* the loop variables
          start_index, end_index,
          records,       \* the ranges written and where: as many as record_count says
          stream,        \* what was put after the record_count
          offset,        \* the item get_packet_acknowledge reads next
          decoded        \* what it has listed

ack_vars == <<given, numbers, pc, i, j, start_index, end_index, records, stream, offset, decoded>>

Count == Len(numbers)
Elements(s) == {s[k] : k \in DOMAIN s}
Distinct(s) == \A a, b \in DOMAIN s : s[a] = s[b] => a = b

\* append_raknet_ack_queue, append_raknet_nack_queue: in order of arrival, no
\* number twice; the callers send no empty queue.
AckInit ==
  /\ numbers \in UNION {[1..n -> Numbers] : n \in 1..MaxCount}
  /\ Distinct(numbers)
  /\ given = Elements(numbers)
  /\ pc = "sort"
  /\ i = 1 /\ j = 2
  /\ start_index = 0 /\ end_index = 0
  /\ records = <<>> /\ stream = <<>> /\ offset = 1 /\ decoded = <<>>

\* The inner loop of the exchange sort.
Sort ==
  /\ pc = "sort" /\ i <= Count /\ j <= Count
  /\ numbers' = IF numbers[i] > numbers[j]
                THEN [numbers EXCEPT ![i] = numbers[j], ![j] = numbers[i]] ELSE numbers
  /\ j' = j + 1
  /\ UNCHANGED <<given, pc, i, start_index, end_index, records, stream, offset, decoded>>

SortNext ==
  /\ pc = "sort" /\ i <= Count /\ j > Count
  /\ i' = i + 1 /\ j' = i + 2
  /\ UNCHANGED <<given, numbers, pc, start_index, end_index, records, stream, offset, decoded>>

SortDone ==
  /\ pc = "sort" /\ i > Count
  /\ start_index' = numbers[1] /\ end_index' = numbers[1]
  /\ i' = 2
  /\ pc' = "scan"
  /\ UNCHANGED <<given, numbers, j, records, stream, offset, decoded>>

\* A flag that is not 0 goes before a single number, 0 before the ends of a range.
Items(first, last) == IF first = last THEN <<1, first>> ELSE <<0, first, last>>

Record(first, last) == [first |-> first, last |-> last, at |-> Len(stream) + 1]

PutRange ==
  /\ stream' = stream \o Items(start_index, end_index)
  /\ records' = Append(records, Record(start_index, end_index))

diff == numbers[i] - end_index

\* The next number continues the open range.
Extend ==
  /\ pc = "scan" /\ i <= Count /\ diff = 1
  /\ end_index' = numbers[i]
  /\ i' = i + 1
  /\ UNCHANGED <<given, numbers, pc, j, start_index, records, stream, offset, decoded>>

\* The next number leaves a gap: the open range is written.
Close ==
  /\ pc = "scan" /\ i <= Count /\ diff > 1
  /\ PutRange
  /\ start_index' = numbers[i] /\ end_index' = numbers[i]
  /\ i' = i + 1
  /\ UNCHANGED <<given, numbers, pc, j, offset, decoded>>

\* Mutant: the range that is open when the numbers end is not written.
MutScanDone ==
  /\ pc = "scan" /\ i > Count
  /\ pc' = "decode" /\ i' = 1
  /\ UNCHANGED <<given, numbers, j, start_index, end_index, records, stream, offset, decoded>>

\* The range that is open when the numbers end.
ScanDone ==
  /\ pc = "scan" /\ i > Count
  /\ PutRange
  /\ pc' = "decode" /\ i' = 1
  /\ UNCHANGED <<given, numbers, j, start_index, end_index, offset, decoded>>

FromTo(index, last) == [n \in 1..(last - index + 1) |-> index + n - 1]

\* get_packet_acknowledge, one record: the flag, and a single number or the ends of a range.
Decode ==
  /\ pc = "decode" /\ i <= Len(records)
  /\ \/ /\ stream[offset] # 0
        /\ decoded' = Append(decoded, stream[offset + 1])
        /\ offset' = offset + 2
     \/ /\ stream[offset] = 0
        /\ decoded' = decoded \o FromTo(stream[offset + 1], stream[offset + 2])
        /\ offset' = offset + 3
  /\ i' = i + 1
  /\ UNCHANGED <<given, numbers, pc, j, start_index, end_index, records, stream>>

DecodeDone ==
  /\ pc = "decode" /\ i > Len(records)
  /\ pc' = "done"
  /\ UNCHANGED <<given, numbers, i, j, start_index, end_index, records, stream, offset, decoded>>

AckNext == Sort \/ SortNext \/ SortDone \/ Extend \/ Close \/ ScanDone \/ Decode \/ DecodeDone

AckSpec == AckInit /\ [][AckNext]_ack_vars
------------------------------------------------------------------------------
Ranges == [first : Nat, last : Nat, at : Nat]

AckTypeOK ==
  /\ given \subseteq Numbers
  /\ numbers \in Seq(Numbers) /\ Count > 0
  /\ pc \in {"sort", "scan", "decode", "done"}
  /\ i \in Nat \ {0} /\ j \in Nat \ {0}
  /\ start_index \in Nat /\ end_index \in Nat
  /\ records \in Seq(Ranges) /\ stream \in Seq(Nat) /\ offset \in Nat
  /\ decoded \in Seq(Nat)

\* Sorting in place loses no number and invents none, and what the scan relies on:
\* the numbers ascend.
SortedPermutation ==
  /\ Elements(numbers) = given
  /\ pc # "sort" => \A a, b \in DOMAIN numbers : a < b => numbers[a] < numbers[b]

\* The ranges written are as few as can be: each starts after a gap.
RangesApart ==
  \A a \in DOMAIN records :
    /\ records[a].first <= records[a].last
    /\ a + 1 \in DOMAIN records => records[a].last + 1 < records[a + 1].first

\* The other side learns exactly the numbers that were acknowledged, and reads the packet to
\* its end: an ACK never releases a frame set that was not received, a NACK asks for no other.
RoundTrip == pc = "done" => Elements(decoded) = given /\ offset = Len(stream) + 1
==============================================================================
