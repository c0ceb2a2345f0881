------------------------------ MODULE RakSender ------------------------------
(***************************************************************************)
(* The sending half of a connection_t (podrum/network/raknet/rakserver.c,  *)
(* rakhandler.c): numbering, fragmentation, packing frames into datagrams  *)
(* within the MTU, the recovery queue, and the answers to ACK and NACK.    *)
(* One tick of tick_raknet handles one datagram, drains the messages the   *)
(* worker queued, and flushes; loops over fragments and NACKed numbers are *)
(* steps of their own.  Operators that take a connection have the names of *)
(* the C functions; the field "sent" is the network's record of what left. *)
(***************************************************************************)
EXTENDS Integers, Sequences, FiniteSets, Functions

CONSTANTS Mtu,            \* connection_t.mtu_size, agreed at connection
          Sizes,          \* payload sizes the worker submits
          Reliabilities,  \* reliabilities it submits them with
          Channels,       \* order channels it uses
          Acks,           \* bound: how many numbers an ACK or NACK of the peer lists
          MaxMessages,    \* bound: messages submitted
          MaxSeq,         \* bound: no message is taken once this many frame sets were sent;
                          \* at most 2^24, the numbers of a triad
          CompoundIds     \* the values of compound_id, a uint16_t

ASSUME MtuAssumption == Mtu \in Nat /\ Mtu > 60  \* below, max_size is 0 or wraps (add_to_raknet_queue)
ASSUME MessageAssumption == Sizes \subseteq Nat /\ Reliabilities \subseteq 0 .. 7
ASSUME BoundAssumption == Acks \in Nat /\ MaxMessages \in Nat /\ MaxSeq \in Nat /\ CompoundIds \in Nat \ {0}

UNRELIABLE == 0
UNRELIABLE_SEQUENCED == 1
RELIABLE == 2
RELIABLE_ORDERED == 3
RELIABLE_SEQUENCED == 4
UNRELIABLE_WITH_ACK_RECEIPT == 5
RELIABLE_WITH_ACK_RECEIPT == 6
RELIABLE_ORDERED_WITH_ACK_RECEIPT == 7

VARIABLES conn,       \* the sending fields of connection_t
          step,       \* where the tick thread is
          frame,      \* InFragments: the message being cut
          index,      \* InFragments: the loop variable i
          todo,       \* "nack": the numbers of the NACK still to handle
          submitted,  \* the messages given to add_to_raknet_queue so far
          seen,       \* external: the frame sets the peer received
          popped      \* the frame sets a NACK took out of the recovery queue

vars == <<conn, step, frame, index, todo, submitted, seen, popped>>

none == -1  \* a field the code leaves unset and never writes to the wire

is_reliable(r) ==
  r \in {RELIABLE, RELIABLE_ORDERED, RELIABLE_SEQUENCED,
         RELIABLE_WITH_ACK_RECEIPT, RELIABLE_ORDERED_WITH_ACK_RECEIPT}
is_sequenced(r) == r \in {UNRELIABLE_SEQUENCED, RELIABLE_SEQUENCED}
is_ordered(r) ==
  r \in {UNRELIABLE_SEQUENCED, RELIABLE_ORDERED, RELIABLE_SEQUENCED,
         RELIABLE_ORDERED_WITH_ACK_RECEIPT}

\* misc_frame_t: "msg" and "size" stand for the payload.
Frame(m) ==
  [msg |-> m.id, size |-> m.size, reliability |-> m.reliability,
   order_channel |-> IF is_ordered(m.reliability) THEN m.channel ELSE none,
   reliable_frame_index |-> none, ordered_frame_index |-> none, sequenced_frame_index |-> none,
   is_fragmented |-> FALSE, compound_id |-> none, compound_size |-> none, index |-> none]
NoFrame == [msg |-> none]

get_frame_size(f) ==
  3 + f.size
    + (IF is_reliable(f.reliability) THEN 3 ELSE 0)
    + (IF is_sequenced(f.reliability) THEN 3 ELSE 0)
    + (IF is_ordered(f.reliability) THEN 4 ELSE 0)
    + (IF f.is_fragmented THEN 10 ELSE 0)

\* The bytes of the first frames of a set, of all of them.
SizeUpTo(fs) == LET size[n \in 0 .. Len(fs)] == IF n = 0 THEN 0 ELSE size[n - 1] + get_frame_size(fs[n]) IN size
FramesSize(fs) == SizeUpTo(fs)[Len(fs)]
------------------------------------------------------------------------------
\* add_raknet_connection
NewConnection ==
  [sender_sequence_number |-> 0, sender_reliable_frame_index |-> 0,
   sender_order_channels |-> [c \in Channels |-> 0],
   sender_sequence_channels |-> [c \in Channels |-> 0],
   compound_id |-> 0, queue |-> <<>>, recovery_queue |-> {}, sent |-> {}]

\* The recovery queue is looked up by number only, and holds no number twice: its order means nothing.
append_raknet_recovery_queue(fs, c) ==
  IF \E other \in c.recovery_queue : other.seq = fs.seq THEN c
  ELSE [c EXCEPT !.recovery_queue = @ \cup {fs}]

deduct_raknet_recovery_queue(numbers, c) ==
  [c EXCEPT !.recovery_queue = {fs \in @ : fs.seq \notin numbers}]

\* Mutant: the number is not advanced.
MutSameNumber(frames, c) ==
  LET fs == [seq |-> c.sender_sequence_number, frames |-> frames]
  IN [append_raknet_recovery_queue(fs, c) EXCEPT !.sent = @ \cup {fs}]

\* Mutant: what is sent is not remembered.
MutForget(frames, c) ==
  LET fs == [seq |-> c.sender_sequence_number, frames |-> frames]
  IN [c EXCEPT !.sender_sequence_number = @ + 1, !.sent = @ \cup {fs}]

\* What send_raknet_queue and handle_nack share: number the frames, remember
\* them, send them.
SendFrames(frames, c) ==
  LET fs == [seq |-> c.sender_sequence_number, frames |-> frames]
  IN [append_raknet_recovery_queue(fs, c) EXCEPT
        !.sender_sequence_number = @ + 1, !.sent = @ \cup {fs}]

send_raknet_queue(c) ==
  IF c.queue = <<>> THEN c ELSE [SendFrames(c.queue, c) EXCEPT !.queue = <<>>]

\* Mutant: only the new frame is measured.
MutPackBlindly(f, flush, c) ==
  LET overflow == 4 + get_frame_size(f) > Mtu - 36
      grown == [(IF overflow THEN send_raknet_queue(c) ELSE c) EXCEPT !.queue = Append(@, f)]
  IN IF flush THEN send_raknet_queue(grown) ELSE grown

append_raknet_frame(f, flush, c) ==
  LET overflow == 4 + get_frame_size(f) + FramesSize(c.queue) > Mtu - 36
      grown == [(IF overflow THEN send_raknet_queue(c) ELSE c) EXCEPT !.queue = Append(@, f)]
  IN IF flush THEN send_raknet_queue(grown) ELSE grown

\* The first lines of add_to_raknet_queue: a sequenced frame takes the order
\* index without advancing it, an ordered one advances it.
Numbered(f, c) ==
  IF ~is_ordered(f.reliability) THEN f
  ELSE [f EXCEPT
          !.ordered_frame_index = c.sender_order_channels[f.order_channel],
          !.sequenced_frame_index =
             IF is_sequenced(f.reliability) THEN c.sender_sequence_channels[f.order_channel] ELSE none]

\* Mutant: sequenced frames advance the order index too.
MutAdvanced(f, c) ==
  IF ~is_ordered(f.reliability) THEN c
  ELSE LET d == [c EXCEPT !.sender_order_channels[f.order_channel] = @ + 1]
       IN IF is_sequenced(f.reliability) THEN [d EXCEPT !.sender_sequence_channels[f.order_channel] = @ + 1] ELSE d

Advanced(f, c) ==
  IF is_sequenced(f.reliability) THEN [c EXCEPT !.sender_sequence_channels[f.order_channel] = @ + 1]
  ELSE IF is_ordered(f.reliability) THEN [c EXCEPT !.sender_order_channels[f.order_channel] = @ + 1]
  ELSE c

max_size == Mtu - 60

frame_count(f) == f.size \div max_size + 1

Fragment(f, i, c) ==
  LET pad_bytes == frame_count(f) * max_size - f.size
  IN [f EXCEPT
        !.is_fragmented = TRUE, !.index = i,
        !.compound_id = c.compound_id, !.compound_size = frame_count(f),
        !.size = IF i = frame_count(f) - 1 THEN max_size - pad_bytes ELSE max_size]

\* The next reliable index, for the frames that carry one.
Reliable(f, c) ==
  IF is_reliable(f.reliability) THEN [f EXCEPT !.reliable_frame_index = c.sender_reliable_frame_index]
  ELSE f

AdvancedReliable(f, c) ==
  IF is_reliable(f.reliability) THEN [c EXCEPT !.sender_reliable_frame_index = @ + 1] ELSE c
------------------------------------------------------------------------------
Init ==
  /\ conn = NewConnection
  /\ step = "receive"
  /\ frame = NoFrame
  /\ index = 0
  /\ todo = <<>>
  /\ submitted = {}
  /\ seen = {}
  /\ popped = {}

\* handle_raknet_packet with nothing more for this half: go on to the messages.
ReceiveNothing ==
  /\ step \in {"receive", "answer"}
  /\ step' = "drain"
  /\ UNCHANGED <<conn, frame, index, todo, submitted, seen, popped>>

Lists(S) == {s \in UNION {[1..n -> S] : n \in 1..Acks} : IsInjective(s)}
SeqsOf(ds) == {d.seq : d \in ds}

\* handle_ack.  The peer (external) acknowledges frame sets it received.
ReceiveAck(numbers) ==
  /\ step = "receive"
  /\ conn' = deduct_raknet_recovery_queue(numbers, conn)
  /\ step' = "drain"
  /\ UNCHANGED <<frame, index, todo, submitted, seen, popped>>

\* handle_nack starts.  The peer (external) misses frame sets sent before one it has, or missed
\* them when it wrote a NACK that comes late.
ReceiveNack(numbers) ==
  /\ step = "receive"
  /\ todo' = numbers
  /\ step' = "nack"
  /\ UNCHANGED <<conn, frame, index, submitted, seen, popped>>

\* handle_nack, one number: pop_raknet_recovery_queue answers "absent" with a
\* frame set numbered 0, so that frame set 0 itself is popped and not sent again.
ResendNacked ==
  /\ step = "nack" /\ todo # <<>>
  /\ todo' = Tail(todo)
  /\ LET hit == {fs \in conn.recovery_queue : fs.seq = Head(todo)}
         rest == deduct_raknet_recovery_queue({Head(todo)}, conn)
     IN /\ popped' = popped \cup hit
        /\ \/ \E fs \in hit : fs.seq # 0 /\ fs.frames # <<>> /\ conn' = SendFrames(fs.frames, rest)
           \/ (\A fs \in hit : fs.seq = 0 \/ fs.frames = <<>>) /\ conn' = rest
  /\ UNCHANGED <<step, frame, index, submitted, seen>>

NackDone ==
  /\ step = "nack" /\ todo = <<>>
  /\ step' = "drain"
  /\ UNCHANGED <<conn, frame, index, todo, submitted, seen, popped>>

\* add_to_raknet_queue for a message the worker queued, or for the answer to a
\* connection request or a ping; `cut` is its loop over the fragments.
AddToQueue(m, next, cut) ==
  LET f == Numbered(Frame(m), conn)
      c == Advanced(f, conn)
  IN /\ submitted' = submitted \cup {m}
     /\ \/ /\ m.size > max_size
           /\ conn' = c /\ frame' = f /\ index' = 0
           /\ step' = cut
        \/ /\ m.size <= max_size
           /\ conn' = append_raknet_frame(Reliable(f, c), FALSE, AdvancedReliable(f, c))
           /\ step' = next /\ UNCHANGED <<frame, index>>
     /\ UNCHANGED <<todo, seen, popped>>

Messages(sizes, reliabilities) ==
  [id : {Cardinality(submitted) + 1}, size : sizes, reliability : reliabilities, channel : Channels]

\* handle_frame: each CONNECTION_REQUEST and CONNECTED_PING of a datagram is answered unreliably.
Answer(m) == step \in {"receive", "answer"} /\ AddToQueue(m, "answer", "answer fragment")

\* handle_raknet_internal: the next message of threaded_to_main.
TakeMessage(m) == step = "drain" /\ AddToQueue(m, "drain", "fragment")

InFragments == step \in {"fragment", "answer fragment"}

\* add_to_raknet_queue, one turn of the loop over the fragments.
SendFragment ==
  /\ InFragments /\ index < frame_count(frame)
  /\ LET f == Fragment(frame, index, conn)
     IN conn' = append_raknet_frame(Reliable(f, conn), TRUE, AdvancedReliable(f, conn))
  /\ index' = index + 1
  /\ UNCHANGED <<step, frame, todo, submitted, seen, popped>>

\* Mutant: the next fragmented message reuses the compound id.
MutFragmentsDone ==
  /\ InFragments /\ index = frame_count(frame)
  /\ step' = (IF step = "fragment" THEN "drain" ELSE "answer") /\ frame' = NoFrame /\ index' = 0
  /\ UNCHANGED <<conn, todo, submitted, seen, popped>>

FragmentsDone ==
  /\ InFragments /\ index = frame_count(frame)
  /\ conn' = [conn EXCEPT !.compound_id = (@ + 1) % CompoundIds]
  /\ step' = (IF step = "fragment" THEN "drain" ELSE "answer") /\ frame' = NoFrame /\ index' = 0
  /\ UNCHANGED <<todo, submitted, seen, popped>>

\* threaded_to_main is empty: update_raknet_connections flushes.
Update ==
  /\ step = "drain"
  /\ conn' = send_raknet_queue(conn)
  /\ step' = "receive"
  /\ UNCHANGED <<frame, index, todo, submitted, seen, popped>>

\* External: the network hands the peer some datagram, in any order, or never.
PeerReceives(d) ==
  /\ d.seq \notin seen
  /\ seen' = seen \cup {d.seq}
  /\ UNCHANGED <<conn, step, frame, index, todo, submitted, popped>>

Missed == {n \in SeqsOf(conn.sent) : \E k \in seen : k > n}

Room == conn.sender_sequence_number + Len(conn.queue) < MaxSeq /\ Cardinality(submitted) < MaxMessages

Next ==
  \/ ReceiveNothing
  \/ \E numbers \in SUBSET seen \ {{}} : Cardinality(numbers) <= Acks /\ ReceiveAck(numbers)
  \/ \E numbers \in Lists(Missed) :
       conn.sender_sequence_number + Len(numbers) <= MaxSeq /\ ReceiveNack(numbers)
  \/ ResendNacked
  \/ NackDone
  \/ \E m \in Messages(Sizes, {UNRELIABLE}) : Room /\ Answer(m)
  \/ \E m \in Messages(Sizes, Reliabilities) : Room /\ TakeMessage(m)
  \/ SendFragment
  \/ FragmentsDone
  \/ Update
  \/ \E d \in conn.sent : PeerReceives(d)

Spec == Init /\ [][Next]_vars
------------------------------------------------------------------------------
Ids == 1 .. MaxMessages
Submitted == [id : Ids, size : Nat, reliability : 0 .. 7, channel : Channels]

\* Frames, and the ones that fit a datagram: no payload is longer than a fragment may be.
Frames ==
  [msg : Ids, size : Nat, reliability : 0 .. 7, order_channel : Channels \cup {none},
   reliable_frame_index : Nat \cup {none}, ordered_frame_index : Nat \cup {none},
   sequenced_frame_index : Nat \cup {none}, is_fragmented : BOOLEAN,
   compound_id : 0 .. CompoundIds - 1 \cup {none}, compound_size : Nat \cup {none}, index : Nat \cup {none}]
FrameOK(f) ==
  /\ f \in Frames
  /\ f.size <= max_size
  /\ f.is_fragmented => f.index \in 0 .. f.compound_size - 1

FrameSets == [seq : Nat, frames : Seq(Frames)]
Connections ==
  [sender_sequence_number : Nat, sender_reliable_frame_index : Nat,
   sender_order_channels : [Channels -> Nat], sender_sequence_channels : [Channels -> Nat],
   compound_id : 0 .. CompoundIds - 1, queue : Seq(Frames), recovery_queue : SUBSET FrameSets,
   sent : SUBSET FrameSets]

FramesOf(fs) == Range(fs.frames)
Wire(c) == UNION {FramesOf(fs) : fs \in c.sent}
Out(c) == Wire(c) \cup Range(c.queue)

TypeOK ==
  /\ conn \in Connections /\ \A f \in Out(conn) : FrameOK(f)
  /\ step \in {"receive", "nack", "answer", "answer fragment", "drain", "fragment"}
  /\ InFragments => frame \in Frames
  /\ index \in Nat /\ todo \in Seq(Nat)
  /\ submitted \subseteq Submitted
  /\ seen \subseteq SeqsOf(conn.sent) /\ popped \subseteq conn.sent

\* A number means one frame set for ever, so that an ACK or a NACK of it, however
\* late, is about the frames the server thinks it is about; and the recovery queue
\* holds only what was sent.
NumbersAreUnique ==
  /\ \A d, e \in conn.sent : d.seq = e.seq => d = e
  /\ conn.recovery_queue \subseteq conn.sent

\* The peer drops a reliable frame whose index it has seen: two frames, or two
\* fragments, that shared an index would be one frame to it.
ReliableIndexIsUnique ==
  \A f, g \in Out(conn) :
    f.reliable_frame_index = g.reliable_frame_index /\ f.reliable_frame_index # none => f = g

\* What the recovery of a lost datagram rests on: a number names one frame set for ever, a reliable
\* index one frame, and the counters are in their types (rakserver.c:355, 392, rakhandler.c:115).
NumbersIdentify == TypeOK /\ NumbersAreUnique /\ ReliableIndexIsUnique

\* Whatever the network loses, reorders or repeats, and in whatever order ACKs and
\* NACKs come back, a frame that left the server has reached the peer or can still
\* be sent again.  The one exception is what handle_nack does with number 0.
NothingLost ==
  \A f \in Wire(conn) :
    \/ \E fs \in conn.sent : fs.seq \in seen /\ f \in FramesOf(fs)
    \/ \E fs \in conn.recovery_queue : f \in FramesOf(fs)
    \/ \E fs \in popped : fs.seq = 0 /\ f \in FramesOf(fs)

Ordered == {r \in 0 .. 7 : is_ordered(r) /\ ~is_sequenced(r)}
Sequenced == {r \in 0 .. 7 : is_sequenced(r)}

Before(m, reliabilities) ==
  Cardinality({k \in submitted : k.id < m.id /\ k.channel = m.channel /\ k.reliability \in reliabilities})

\* The peer delivers ordered frames by index, without gaps: the index of an ordered
\* message is the number of ordered messages before it on its channel, all its
\* fragments share it, and a sequenced message carries the index of the ordered
\* one that follows it and its own count.
OrderFollowsSubmission ==
  \A f \in Out(conn) : \A m \in submitted :
    f.msg = m.id /\ is_ordered(m.reliability) =>
      /\ f.order_channel = m.channel
      /\ f.ordered_frame_index = Before(m, Ordered)
      /\ f.sequenced_frame_index = IF is_sequenced(m.reliability) THEN Before(m, Sequenced) ELSE none

\* The frames of a message, wherever they are, are the whole message or its fragments: each index
\* once, of one length but the last, which holds the rest.
InOnePiece(m, mine) == \E f \in mine : mine = {f} /\ ~f.is_fragmented /\ f.size = m.size
InPieces(m, mine) ==
  \E n \in 2 .. m.size + 1 :
    /\ \A f \in mine : f.is_fragmented /\ f.compound_size = n
    /\ {f.index : f \in mine} = 0 .. n - 1
    /\ \A f, g \in mine : f.index = g.index => f = g
    /\ \E length \in 1 .. m.size : \A f \in mine :
         f.size = IF f.index < n - 1 THEN length ELSE m.size - (n - 1) * length

\* When a tick ends everything submitted is on the wire, and a fragmented message
\* can be put together from it, under one compound id that no other message has.
WholeMessagesSent ==
  step = "receive" =>
    \A m \in submitted :
      LET mine == {f \in Wire(conn) : f.msg = m.id}
      IN \/ InOnePiece(m, mine)
         \/ /\ InPieces(m, mine)
            /\ \A f, g \in mine : f.compound_id = g.compound_id
            /\ \A f \in mine, g \in Wire(conn) : f.compound_id = g.compound_id => g.msg = m.id

\* rakhandler.c, handle_open_connection_request_1, counts an IP header of 20 and a
\* UDP header of 8 bytes in the MTU: with them every datagram fits.
DatagramsFitTheMtu == \A fs \in conn.sent : 20 + 8 + 4 + FramesSize(fs.frames) <= Mtu
==============================================================================
