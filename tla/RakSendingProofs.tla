--------------------------- MODULE RakSendingProofs ---------------------------
(***************************************************************************)
(* Proofs about the sending half of a connection_t, for any sizes, order   *)
(* channels, MTU and number of messages, and at the end about the codec    *)
(* of its acknowledgements, for any numbers.                               *)
(***************************************************************************)
EXTENDS RakSender, AckRanges, SequenceTheorems, FiniteSetTheorems, NaturalsInduction, WellFoundedInduction, TLAPS


-----------------------------------------------------------------------------
(* Sequences *)

LEMMA SeqRange ==
  ASSUME NEW S, NEW s \in Seq(S)
  PROVE  Range(s) = {s[k] : k \in 1 .. Len(s)} /\ Range(s) \subseteq S
BY DEF Range

LEMMA AppendRange ==
  ASSUME NEW S, NEW s \in Seq(S), NEW x \in S
  PROVE  Append(s, x) \in Seq(S) /\ Range(Append(s, x)) = Range(s) \cup {x}
<1>1. /\ Append(s, x) \in Seq(S) /\ Len(Append(s, x)) = Len(s) + 1 /\ Append(s, x)[Len(s) + 1] = x
      /\ DOMAIN Append(s, x) = DOMAIN s \cup {Len(s) + 1}
      /\ \A k \in DOMAIN s : Append(s, x)[k] = s[k]
  OBVIOUS
<1> QED
  BY <1>1 DEF Range

LEMMA EmptyRange == Range(<<>>) = {} /\ \A S : <<>> \in Seq(S)
BY DEF Range

-----------------------------------------------------------------------------
(* The bytes of frames *)

LEMMA SmallestNat == ASSUME NEW T \in SUBSET Nat, T # {} PROVE \E n \in T : \A t \in T : n <= t
<1>1. IsWellFoundedOn(OpToRel(<, Nat), Nat)
  BY NatLessThanWellFounded
<1>2. PICK n \in T : \A t \in T : <<t, n>> \notin OpToRel(<, Nat)
  BY <1>1, WFMin
<1>3. \A t \in T : ~(t < n)
  BY <1>2 DEF OpToRel
<1> QED
  BY <1>3

LEMMA FrameSize == \A f \in Frames : get_frame_size(f) \in 3 .. f.size + 23 /\ get_frame_size(f) \in Nat
BY DEF Frames, get_frame_size

\* The sizes of the first frames of fs, up to the n-th.
IsSize(h, fs, n) == \A k \in 0 .. n : h[k] = IF k = 0 THEN 0 ELSE h[k - 1] + get_frame_size(fs[k])

LEMMA SizeExists == ASSUME NEW fs \in Seq(Frames) PROVE \A n \in 0 .. Len(fs) : \E h \in [0 .. n -> Nat] : IsSize(h, fs, n)
<1> DEFINE T == {n \in 0 .. Len(fs) : ~ \E h \in [0 .. n -> Nat] : IsSize(h, fs, n)}
<1> SUFFICES ASSUME T # {} PROVE FALSE
  OBVIOUS
<1>1. PICK n \in T : \A t \in T : n <= t
  <2>1. T \in SUBSET Nat
    OBVIOUS
  <2> QED
    BY <2>1, SmallestNat
<1>2. n # 0
  <2>1. [k \in 0 .. 0 |-> 0] \in [0 .. 0 -> Nat] /\ IsSize([k \in 0 .. 0 |-> 0], fs, 0)
    BY DEF IsSize
  <2> QED
    BY <2>1
<1>3. n - 1 \in 0 .. Len(fs) /\ n - 1 \notin T
  <2>1. n \in 0 .. Len(fs) /\ Len(fs) \in Nat
    OBVIOUS
  <2>2. n - 1 \in 0 .. Len(fs) /\ ~(n <= n - 1)
    BY <2>1, <1>2
  <2> QED
    BY <1>1, <2>2
<1>4. PICK h \in [0 .. n - 1 -> Nat] : IsSize(h, fs, n - 1)
  BY <1>3
<1>5. get_frame_size(fs[n]) \in Nat
  BY <1>2, FrameSize
<1> DEFINE g == [k \in 0 .. n |-> IF k = n THEN h[n - 1] + get_frame_size(fs[n]) ELSE h[k]]
<1>6. g \in [0 .. n -> Nat]
  BY <1>2, <1>5
<1>7. IsSize(g, fs, n)
  <2> SUFFICES ASSUME NEW k \in 0 .. n PROVE g[k] = IF k = 0 THEN 0 ELSE g[k - 1] + get_frame_size(fs[k])
    BY DEF IsSize
  <2>1. CASE k = n
    BY <2>1, <1>2
  <2>2. CASE k # n
    <3>1. k \in 0 .. n - 1 /\ g[k] = h[k] /\ (k # 0 => g[k - 1] = h[k - 1])
      BY <2>2, <1>2
    <3> QED
      BY <3>1, <1>4 DEF IsSize
  <2> QED
    BY <2>1, <2>2
<1> QED
  BY <1>6, <1>7

LEMMA SizeUnique ==
  ASSUME NEW fs, NEW n \in Nat, NEW m \in Nat, n <= m, NEW g, NEW h, IsSize(g, fs, n), IsSize(h, fs, m)
  PROVE  g[n] = h[n]
<1> DEFINE T == {k \in 0 .. n : g[k] # h[k]}
<1> SUFFICES ASSUME T # {} PROVE FALSE
  OBVIOUS
<1>1. PICK k \in T : \A t \in T : k <= t
  <2>1. T \in SUBSET Nat
    OBVIOUS
  <2> QED
    BY <2>1, SmallestNat
<1>2. CASE k = 0
  BY <1>1, <1>2 DEF IsSize
<1>3. CASE k # 0
  <2>1. k - 1 \in 0 .. n /\ k - 1 \notin T
    BY <1>1, <1>3
  <2>2. g[k - 1] = h[k - 1]
    BY <2>1
  <2>3. k \in 0 .. n /\ k \in 0 .. m
    BY <1>1
  <2>4. g[k] = g[k - 1] + get_frame_size(fs[k]) /\ h[k] = h[k - 1] + get_frame_size(fs[k])
    BY <1>3, <2>3 DEF IsSize
  <2> QED
    BY <1>1, <2>2, <2>4
<1> QED
  BY <1>2, <1>3

LEMMA SizeUpToIs ==
  ASSUME NEW fs \in Seq(Frames)
  PROVE  SizeUpTo(fs) \in [0 .. Len(fs) -> Nat] /\ IsSize(SizeUpTo(fs), fs, Len(fs))
<1> DEFINE body(h) == [n \in 0 .. Len(fs) |-> IF n = 0 THEN 0 ELSE h[n - 1] + get_frame_size(fs[n])]
<1>1. PICK h \in [0 .. Len(fs) -> Nat] : IsSize(h, fs, Len(fs))
  <2>1. Len(fs) \in 0 .. Len(fs)
    OBVIOUS
  <2> QED
    BY <2>1, SizeExists
<1>2. h = body(h)
  BY <1>1 DEF IsSize
<1>3. SizeUpTo(fs) = body(SizeUpTo(fs))
  BY <1>2 DEF SizeUpTo
<1>4. IsSize(SizeUpTo(fs), fs, Len(fs))
  BY <1>3 DEF IsSize
<1>5. \A n \in 0 .. Len(fs) : SizeUpTo(fs)[n] = h[n]
  <2> SUFFICES ASSUME NEW n \in 0 .. Len(fs) PROVE SizeUpTo(fs)[n] = h[n]
    OBVIOUS
  <2>1. IsSize(SizeUpTo(fs), fs, n) /\ IsSize(h, fs, n)
    BY <1>1, <1>4 DEF IsSize
  <2> QED
    BY <2>1, SizeUnique
<1> QED
  BY <1>3, <1>4, <1>5

LEMMA FramesSizeType == \A fs \in Seq(Frames) : FramesSize(fs) \in Nat
<1> TAKE fs \in Seq(Frames)
<1> QED
  BY SizeUpToIs DEF FramesSize

LEMMA NoFramesSize == FramesSize(<<>>) = 0
<1>1. <<>> \in Seq(Frames) /\ Len(<<>>) = 0
  OBVIOUS
<1>2. IsSize(SizeUpTo(<<>>), <<>>, 0)
  BY <1>1, SizeUpToIs
<1>3. SizeUpTo(<<>>)[0] = 0
  BY <1>2 DEF IsSize
<1> QED
  BY <1>1, <1>3 DEF FramesSize

LEMMA AppendSize ==
  ASSUME NEW fs \in Seq(Frames), NEW f \in Frames
  PROVE  FramesSize(Append(fs, f)) = FramesSize(fs) + get_frame_size(f)
<1> DEFINE gs == Append(fs, f)
           n == Len(fs)
<1>1. gs \in Seq(Frames) /\ Len(gs) = n + 1 /\ gs[n + 1] = f /\ n \in Nat /\ \A k \in 1 .. n : gs[k] = fs[k]
  OBVIOUS
<1>2. IsSize(SizeUpTo(gs), gs, n + 1) /\ IsSize(SizeUpTo(fs), fs, n)
  BY <1>1, SizeUpToIs
<1> HIDE DEF gs, n
<1>3. IsSize(SizeUpTo(gs), fs, n)
  <2>1. \A k \in 0 .. n : k \in 0 .. n + 1 /\ (k # 0 => gs[k] = fs[k])
    BY <1>1
  <2> QED
    BY <1>2, <2>1 DEF IsSize
<1>4. SizeUpTo(gs)[n] = SizeUpTo(fs)[n]
  BY <1>1, <1>2, <1>3, SizeUnique
<1>5. n + 1 \in 0 .. n + 1 /\ n + 1 # 0 /\ (n + 1) - 1 = n
  BY <1>1
<1>6. SizeUpTo(gs)[n + 1] = SizeUpTo(gs)[n] + get_frame_size(f)
  BY <1>1, <1>2, <1>5 DEF IsSize
<1> QED
  BY <1>1, <1>4, <1>6 DEF FramesSize, gs, n

-----------------------------------------------------------------------------
(* Connections *)

NumbersInv(c) ==
  /\ \A d \in c.sent : d.seq < c.sender_sequence_number
  /\ \A d, e \in c.sent : d.seq = e.seq => d = e
  /\ c.recovery_queue \subseteq c.sent

ReliableInv(c) ==
  /\ \A f \in Out(c) : f.reliable_frame_index < c.sender_reliable_frame_index
  /\ \A f, g \in Out(c) : f.reliable_frame_index = g.reliable_frame_index /\ f.reliable_frame_index # none => f = g

Fits(frames) == 32 + FramesSize(frames) <= Mtu
FitsInv(c) == (\A fs \in c.sent : Fits(fs.frames)) /\ Fits(c.queue)

ConnInv(c) ==
  /\ c \in Connections /\ \A f \in Out(c) : FrameOK(f)
  /\ NumbersInv(c) /\ ReliableInv(c) /\ FitsInv(c)

\* d is c after more was sent: whatever is new can be sent again.
Grows(c, d) ==
  c.sent \subseteq d.sent /\ c.recovery_queue \subseteq d.recovery_queue /\ d.sent \ c.sent \subseteq d.recovery_queue

\* The counters of the messages are what they were.
SameCounters(c, d) ==
  /\ d.sender_order_channels = c.sender_order_channels /\ d.sender_sequence_channels = c.sender_sequence_channels
  /\ d.compound_id = c.compound_id

Sent(c, d) ==
  Grows(c, d) /\ SameCounters(c, d) /\ d.sender_reliable_frame_index = c.sender_reliable_frame_index

\* The frames of send_raknet_queue and handle_nack get a number nothing else has.
LEMMA SendFramesFields ==
  ASSUME NEW c, ConnInv(c), NEW frames \in Seq(Frames)
  PROVE  LET fs == [seq |-> c.sender_sequence_number, frames |-> frames]
             d == SendFrames(frames, c)
         IN /\ d \in Connections /\ fs \in FrameSets
            /\ d.recovery_queue = c.recovery_queue \cup {fs} /\ d.sent = c.sent \cup {fs}
            /\ d.sender_sequence_number = c.sender_sequence_number + 1
            /\ d.queue = c.queue /\ Sent(c, d)
<1> DEFINE fs == [seq |-> c.sender_sequence_number, frames |-> frames]
           d == SendFrames(frames, c)
<1>1. c \in Connections /\ NumbersInv(c) /\ c.sender_sequence_number \in Nat
  BY DEF ConnInv, Connections
<1>2. fs \in FrameSets
  BY <1>1 DEF FrameSets
<1>3. \A other \in c.recovery_queue : other.seq # fs.seq
  <2> SUFFICES ASSUME NEW other \in c.recovery_queue PROVE other.seq # fs.seq
    OBVIOUS
  <2>1. other \in c.sent /\ other.seq < c.sender_sequence_number
    BY <1>1 DEF NumbersInv
  <2>2. other.seq \in Nat
    BY <1>1 DEF Connections, FrameSets
  <2> QED
    BY <1>1, <2>1, <2>2
<1>4. append_raknet_recovery_queue(fs, c) = [c EXCEPT !.recovery_queue = @ \cup {fs}]
  BY <1>3 DEF append_raknet_recovery_queue
<1>5. d = [[c EXCEPT !.recovery_queue = @ \cup {fs}] EXCEPT !.sender_sequence_number = @ + 1, !.sent = @ \cup {fs}]
  BY <1>4 DEF SendFrames
<1>6. d = [c EXCEPT !.recovery_queue = @ \cup {fs}, !.sender_sequence_number = @ + 1, !.sent = @ \cup {fs}]
  BY <1>1, <1>5 DEF Connections
<1> HIDE DEF fs, d
<1>7. /\ d.recovery_queue = c.recovery_queue \cup {fs} /\ d.sent = c.sent \cup {fs}
      /\ d.sender_sequence_number = c.sender_sequence_number + 1 /\ d.queue = c.queue
      /\ d.sender_order_channels = c.sender_order_channels /\ d.sender_sequence_channels = c.sender_sequence_channels
      /\ d.compound_id = c.compound_id /\ d.sender_reliable_frame_index = c.sender_reliable_frame_index
  BY <1>1, <1>6 DEF Connections
<1>8. d \in Connections
  <2>1. /\ c.recovery_queue \cup {fs} \in SUBSET FrameSets /\ c.sent \cup {fs} \in SUBSET FrameSets
        /\ c.sender_sequence_number + 1 \in Nat
    BY <1>1, <1>2 DEF Connections
  <2> HIDE DEF FrameSets
  <2> QED
    BY <1>1, <1>6, <2>1 DEF Connections
<1>9. Sent(c, d)
  BY <1>7 DEF Sent, Grows, SameCounters
<1> QED
  BY <1>2, <1>7, <1>8, <1>9 DEF fs, d

LEMMA SendFramesKeeps ==
  ASSUME NEW c, ConnInv(c), NEW frames \in Seq(Frames), Range(frames) \subseteq Out(c), Fits(frames)
  PROVE  LET d == SendFrames(frames, c)
         IN /\ ConnInv(d) /\ Wire(d) = Wire(c) \cup Range(frames) /\ Out(d) = Out(c) /\ d.queue = c.queue /\ Sent(c, d)
            /\ \E fs : /\ fs.frames = frames
                      /\ d.recovery_queue = c.recovery_queue \cup {fs} /\ d.sent = c.sent \cup {fs}
<1> DEFINE d == SendFrames(frames, c)
           fs == [seq |-> c.sender_sequence_number, frames |-> frames]
<1>1. /\ d \in Connections /\ fs \in FrameSets /\ d.recovery_queue = c.recovery_queue \cup {fs} /\ d.sent = c.sent \cup {fs}
      /\ d.sender_sequence_number = c.sender_sequence_number + 1 /\ d.queue = c.queue /\ Sent(c, d)
  BY SendFramesFields
<1>2. c \in Connections /\ NumbersInv(c) /\ ReliableInv(c) /\ FitsInv(c) /\ \A f \in Out(c) : FrameOK(f)
  BY DEF ConnInv
<1>3. fs.seq = c.sender_sequence_number /\ fs.frames = frames
  OBVIOUS
<1> HIDE DEF d, fs
<1>4. Wire(d) = Wire(c) \cup Range(frames)
  BY <1>1, <1>3 DEF Wire, FramesOf
<1>5. Out(d) = Out(c)
  BY <1>1, <1>4 DEF Out
<1>6. NumbersInv(d)
  <2>1. \A e \in c.sent : e.seq \in Nat /\ e.seq < c.sender_sequence_number
    BY <1>2 DEF NumbersInv, Connections, FrameSets
  <2>2. c.sender_sequence_number \in Nat
    BY <1>2 DEF Connections
  <2> QED
    BY <1>1, <1>2, <1>3, <2>1, <2>2 DEF NumbersInv
<1>7. ReliableInv(d)
  BY <1>1, <1>2, <1>5 DEF ReliableInv, Sent
<1>8. FitsInv(d)
  BY <1>1, <1>2, <1>3 DEF FitsInv
<1>9. \E x : x.frames = frames /\ d.recovery_queue = c.recovery_queue \cup {x} /\ d.sent = c.sent \cup {x}
  BY <1>1, <1>3
<1>10. ConnInv(d)
  BY <1>1, <1>2, <1>5, <1>6, <1>7, <1>8 DEF ConnInv
<1> QED
  BY <1>1, <1>4, <1>5, <1>9, <1>10 DEF d

LEMMA SentTransitive == \A c, d, e : Sent(c, d) /\ Sent(d, e) => Sent(c, e)
BY DEF Sent, Grows, SameCounters

\* Another queue, nothing else.
LEMMA NewQueue ==
  ASSUME NEW c \in Connections, NEW q \in Seq(Frames)
  PROVE  LET d == [c EXCEPT !.queue = q]
         IN d \in Connections /\ d.queue = q /\ Wire(d) = Wire(c) /\ d.sent = c.sent /\ Out(d) = Wire(c) \cup Range(q)
            /\ d.sender_sequence_number = c.sender_sequence_number /\ d.recovery_queue = c.recovery_queue
            /\ d.sender_reliable_frame_index = c.sender_reliable_frame_index /\ Sent(c, d)
<1> DEFINE d == [c EXCEPT !.queue = q]
<1>1. /\ d \in Connections /\ d.queue = q /\ d.sent = c.sent /\ d.recovery_queue = c.recovery_queue
      /\ d.sender_sequence_number = c.sender_sequence_number
      /\ d.sender_order_channels = c.sender_order_channels /\ d.sender_sequence_channels = c.sender_sequence_channels
      /\ d.compound_id = c.compound_id /\ d.sender_reliable_frame_index = c.sender_reliable_frame_index
  BY DEF Connections
<1> QED
  BY <1>1 DEF Wire, Out, Sent, Grows, SameCounters

\* send_raknet_queue: all that was queued is on the wire.
LEMMA SendQueueKeeps ==
  ASSUME NEW c, ConnInv(c)
  PROVE  LET d == send_raknet_queue(c)
         IN ConnInv(d) /\ d.queue = <<>> /\ Wire(d) = Out(c) /\ Out(d) = Out(c) /\ Sent(c, d)
<1>1. c \in Connections /\ c.queue \in Seq(Frames) /\ Range(c.queue) \subseteq Out(c) /\ Fits(c.queue)
  BY DEF ConnInv, Connections, Out, FitsInv
<1>2. CASE c.queue = <<>>
  <2>1. send_raknet_queue(c) = c /\ Wire(c) = Out(c) /\ Sent(c, c)
    BY <1>2, EmptyRange DEF send_raknet_queue, Out, Sent, Grows, SameCounters
  <2> QED
    BY <1>2, <2>1
<1>3. CASE c.queue # <<>>
  <2> DEFINE e == SendFrames(c.queue, c)
             d == [e EXCEPT !.queue = <<>>]
  <2>1. send_raknet_queue(c) = d
    BY <1>3 DEF send_raknet_queue
  <2>2. ConnInv(e) /\ Wire(e) = Wire(c) \cup Range(c.queue) /\ Sent(c, e)
    BY <1>1, SendFramesKeeps
  <2> HIDE DEF e
  <2>3. /\ d \in Connections /\ d.queue = <<>> /\ Wire(d) = Wire(e) /\ Out(d) = Wire(e) \cup Range(<<>>) /\ Sent(e, d)
        /\ d.sent = e.sent /\ d.sender_sequence_number = e.sender_sequence_number /\ d.recovery_queue = e.recovery_queue
        /\ d.sender_reliable_frame_index = e.sender_reliable_frame_index
    <3>1. e \in Connections /\ <<>> \in Seq(Frames)
      BY <2>2, EmptyRange DEF ConnInv
    <3> QED
      BY <3>1, NewQueue
  <2> HIDE DEF d
  <2>4. Out(d) = Out(c) /\ Wire(d) = Out(c) /\ Out(d) \subseteq Out(e)
    BY <2>2, <2>3, EmptyRange DEF Out
  <2>5. Fits(<<>>)
    BY NoFramesSize, MtuAssumption DEF Fits
  <2>6. NumbersInv(d) /\ ReliableInv(d) /\ FitsInv(d) /\ \A f \in Out(d) : FrameOK(f)
    BY <2>2, <2>3, <2>4, <2>5 DEF ConnInv, NumbersInv, ReliableInv, FitsInv
  <2>7. Sent(c, d)
    BY <2>2, <2>3, SentTransitive
  <2> QED
    BY <2>1, <2>3, <2>4, <2>6, <2>7 DEF ConnInv
<1> QED
  BY <1>2, <1>3

\* One more frame in the queue, for which there is room.
LEMMA GrowQueue ==
  ASSUME NEW c, ConnInv(c), NEW f, FrameOK(f), f.reliable_frame_index < c.sender_reliable_frame_index,
         \A g \in Out(c) : g.reliable_frame_index = f.reliable_frame_index /\ f.reliable_frame_index # none => g = f,
         40 + get_frame_size(f) + FramesSize(c.queue) <= Mtu \/ c.queue = <<>>
  PROVE  LET d == [c EXCEPT !.queue = Append(@, f)]
         IN ConnInv(d) /\ Out(d) = Out(c) \cup {f} /\ Sent(c, d)
<1> DEFINE q == Append(c.queue, f)
           d == [c EXCEPT !.queue = q]
<1>1. c \in Connections /\ c.queue \in Seq(Frames) /\ f \in Frames /\ NumbersInv(c) /\ ReliableInv(c) /\ FitsInv(c)
  BY DEF ConnInv, Connections, FrameOK
<1>2. q \in Seq(Frames) /\ Range(q) = Range(c.queue) \cup {f}
  BY <1>1, AppendRange
<1>3. Fits(q)
  <2>1. FramesSize(q) = FramesSize(c.queue) + get_frame_size(f) /\ FramesSize(c.queue) \in Nat
    BY <1>1, AppendSize, FramesSizeType
  <2>2. get_frame_size(f) \in Nat /\ get_frame_size(f) <= f.size + 23 /\ f.size \in Nat /\ f.size <= Mtu - 60
    BY <1>1, FrameSize DEF FrameOK, Frames, max_size
  <2>3. CASE 40 + get_frame_size(f) + FramesSize(c.queue) <= Mtu
    BY <2>1, <2>2, <2>3, MtuAssumption DEF Fits
  <2>4. CASE c.queue = <<>>
    BY <2>1, <2>2, <2>4, NoFramesSize, MtuAssumption DEF Fits
  <2> QED
    BY <2>3, <2>4
<1>4. /\ d \in Connections /\ d.queue = q /\ Wire(d) = Wire(c) /\ Out(d) = Wire(c) \cup Range(q) /\ Sent(c, d)
      /\ d.sent = c.sent /\ d.sender_sequence_number = c.sender_sequence_number /\ d.recovery_queue = c.recovery_queue
      /\ d.sender_reliable_frame_index = c.sender_reliable_frame_index
  BY <1>1, <1>2, NewQueue
<1>5. [c EXCEPT !.queue = Append(@, f)] = d
  OBVIOUS
<1> HIDE DEF d, q
<1>6. Out(d) = Out(c) \cup {f}
  BY <1>2, <1>4 DEF Out
<1>7. NumbersInv(d) /\ ReliableInv(d) /\ FitsInv(d) /\ \A g \in Out(d) : FrameOK(g)
  BY <1>1, <1>3, <1>4, <1>6 DEF ConnInv, NumbersInv, ReliableInv, FitsInv
<1> QED
  BY <1>4, <1>5, <1>6, <1>7 DEF ConnInv

LEMMA AppendFrameKeeps ==
  ASSUME NEW c, ConnInv(c), NEW f, FrameOK(f), f.reliable_frame_index < c.sender_reliable_frame_index,
         \A g \in Out(c) : g.reliable_frame_index = f.reliable_frame_index /\ f.reliable_frame_index # none => g = f,
         NEW flush \in BOOLEAN
  PROVE  LET d == append_raknet_frame(f, flush, c)
         IN ConnInv(d) /\ Out(d) = Out(c) \cup {f} /\ Sent(c, d) /\ (flush => d.queue = <<>>)
<1> DEFINE overflow == 4 + get_frame_size(f) + FramesSize(c.queue) > Mtu - 36
           b == IF overflow THEN send_raknet_queue(c) ELSE c
           e == [b EXCEPT !.queue = Append(@, f)]
           d == IF flush THEN send_raknet_queue(e) ELSE e
<1>1. append_raknet_frame(f, flush, c) = d
  BY DEF append_raknet_frame
<1>2. /\ ConnInv(b) /\ Out(b) = Out(c) /\ Sent(c, b)
      /\ 40 + get_frame_size(f) + FramesSize(b.queue) <= Mtu \/ b.queue = <<>>
  <2>1. CASE overflow
    BY <2>1, SendQueueKeeps
  <2>2. CASE ~overflow
    <3>1. FramesSize(c.queue) \in Nat /\ get_frame_size(f) \in Nat
      BY FramesSizeType, FrameSize DEF ConnInv, Connections, FrameOK
    <3> QED
      BY <2>2, <3>1, MtuAssumption DEF Sent, Grows, SameCounters
  <2> QED
    BY <2>1, <2>2
<1> HIDE DEF b
<1>3. ConnInv(e) /\ Out(e) = Out(b) \cup {f} /\ Sent(b, e)
  <2>1. b.sender_reliable_frame_index = c.sender_reliable_frame_index
    BY <1>2 DEF Sent, Grows, SameCounters
  <2> QED
    BY <1>2, <2>1, GrowQueue
<1> HIDE DEF e
<1>4. ConnInv(d) /\ Out(d) = Out(e) /\ Sent(e, d) /\ (flush => d.queue = <<>>)
  <2>1. CASE flush
    BY <2>1, <1>3, SendQueueKeeps
  <2>2. CASE ~flush
    BY <2>2, <1>3 DEF Sent, Grows, SameCounters
  <2> QED
    BY <2>1, <2>2
<1>5. Sent(c, d)
  BY <1>2, <1>3, <1>4, SentTransitive
<1> QED
  BY <1>1, <1>2, <1>3, <1>4, <1>5

-----------------------------------------------------------------------------
(* What is lost can be sent again *)

LEMMA DeductKeeps ==
  ASSUME NEW c, ConnInv(c), NEW ns
  PROVE  LET d == deduct_raknet_recovery_queue(ns, c)
         IN /\ ConnInv(d) /\ d.sent = c.sent /\ d.queue = c.queue /\ Wire(d) = Wire(c) /\ Out(d) = Out(c)
            /\ d.recovery_queue = {fs \in c.recovery_queue : fs.seq \notin ns}
            /\ SameCounters(c, d)
<1> DEFINE kept == {fs \in c.recovery_queue : fs.seq \notin ns}
           d == [c EXCEPT !.recovery_queue = kept]
<1>1. c \in Connections /\ kept \subseteq c.recovery_queue
  BY DEF ConnInv
<1>2. deduct_raknet_recovery_queue(ns, c) = d
  BY DEF deduct_raknet_recovery_queue
<1> HIDE DEF kept
<1>3. /\ d \in Connections /\ d.recovery_queue = kept /\ d.sent = c.sent /\ d.queue = c.queue
      /\ d.sender_sequence_number = c.sender_sequence_number
      /\ d.sender_order_channels = c.sender_order_channels /\ d.sender_sequence_channels = c.sender_sequence_channels
      /\ d.compound_id = c.compound_id /\ d.sender_reliable_frame_index = c.sender_reliable_frame_index
  BY <1>1 DEF Connections
<1> HIDE DEF d
<1>4. Wire(d) = Wire(c) /\ Out(d) = Out(c)
  BY <1>3 DEF Wire, Out
<1>5. ConnInv(d)
  BY <1>1, <1>3, <1>4 DEF ConnInv, NumbersInv, ReliableInv, FitsInv
<1> QED
  BY <1>2, <1>3, <1>4, <1>5 DEF kept, SameCounters

\* More was sent, and all of it can be sent again.
LEMMA SentIsKept ==
  ASSUME NothingLost, Grows(conn, conn'), seen \subseteq seen', popped \subseteq popped'
  PROVE  NothingLost'
<1> SUFFICES ASSUME NEW f \in Wire(conn')
             PROVE  \/ \E fs \in conn'.sent : fs.seq \in seen' /\ f \in FramesOf(fs)
                    \/ \E fs \in conn'.recovery_queue : f \in FramesOf(fs)
                    \/ \E fs \in popped' : fs.seq = 0 /\ f \in FramesOf(fs)
  BY DEF NothingLost
<1>1. PICK fs \in conn'.sent : f \in FramesOf(fs)
  BY DEF Wire
<1>2. CASE fs \in conn.sent
  <2>1. f \in Wire(conn)
    BY <1>1, <1>2 DEF Wire
  <2> QED
    BY <2>1 DEF NothingLost, Grows
<1>3. CASE fs \notin conn.sent
  BY <1>1, <1>3 DEF Sent, Grows, SameCounters
<1> QED
  BY <1>2, <1>3

\* The peer acknowledges what it has.
LEMMA AckKeeps ==
  ASSUME ConnInv(conn), NothingLost, NEW ns \in SUBSET seen, ReceiveAck(ns)
  PROVE  NothingLost'
<1>1. conn'.sent = conn.sent /\ conn'.recovery_queue = {fs \in conn.recovery_queue : fs.seq \notin ns}
  BY DeductKeeps DEF ReceiveAck
<1>2. conn.recovery_queue \subseteq conn.sent /\ seen' = seen /\ popped' = popped
  BY DEF ConnInv, NumbersInv, ReceiveAck
<1> QED
  BY <1>1, <1>2 DEF NothingLost, Wire

\* One NACKed number: its frames go out again, or it was frame set 0, or held nothing.
LEMMA ResendKeeps ==
  ASSUME ConnInv(conn), ResendNacked
  PROVE  /\ ConnInv(conn') /\ Out(conn') = Out(conn) /\ conn'.queue = conn.queue
         /\ conn.sent \subseteq conn'.sent /\ popped' \subseteq popped \cup conn.sent
         /\ SameCounters(conn, conn')
         /\ NothingLost => NothingLost'
<1> DEFINE hit == {fs \in conn.recovery_queue : fs.seq = Head(todo)}
           rest == deduct_raknet_recovery_queue({Head(todo)}, conn)
<1>1. /\ ConnInv(rest) /\ rest.sent = conn.sent /\ rest.queue = conn.queue /\ Wire(rest) = Wire(conn) /\ Out(rest) = Out(conn)
      /\ rest.recovery_queue = conn.recovery_queue \ hit
      /\ SameCounters(conn, rest)
  BY DeductKeeps
<1>2. popped' = popped \cup hit /\ seen' = seen
  BY DEF ResendNacked
<1>3. hit \subseteq conn.sent /\ conn.recovery_queue \subseteq conn.sent /\ \A d, e \in hit : d = e
  BY DEF ConnInv, NumbersInv
<1>4. \/ \E fs \in hit : fs.seq # 0 /\ fs.frames # <<>> /\ conn' = SendFrames(fs.frames, rest)
      \/ (\A fs \in hit : fs.seq = 0 \/ fs.frames = <<>>) /\ conn' = rest
  BY DEF ResendNacked
<1> HIDE DEF hit, rest
<1>5. ASSUME NEW fs \in hit, conn' = SendFrames(fs.frames, rest)
      PROVE  /\ ConnInv(conn') /\ Out(conn') = Out(conn) /\ conn'.queue = conn.queue
             /\ conn.sent \subseteq conn'.sent /\ popped' \subseteq popped \cup conn.sent
             /\ SameCounters(conn, conn')
             /\ NothingLost => NothingLost'
  <2>1. fs.frames \in Seq(Frames) /\ Fits(fs.frames) /\ FramesOf(fs) \subseteq Wire(conn)
    BY <1>3 DEF ConnInv, Connections, FrameSets, FitsInv, Wire
  <2>2. FramesOf(fs) = Range(fs.frames) /\ Wire(conn) \subseteq Out(rest)
    BY <1>1 DEF FramesOf, Out
  <2> DEFINE d == SendFrames(fs.frames, rest)
  <2>a. /\ ConnInv(d) /\ Wire(d) = Wire(rest) \cup Range(fs.frames) /\ Out(d) = Out(rest) /\ d.queue = rest.queue /\ Sent(rest, d)
        /\ \E x : x.frames = fs.frames /\ d.recovery_queue = rest.recovery_queue \cup {x} /\ d.sent = rest.sent \cup {x}
    BY <1>1, <2>1, <2>2, SendFramesKeeps
  <2>b. PICK again : /\ again.frames = fs.frames
                     /\ d.recovery_queue = rest.recovery_queue \cup {again} /\ d.sent = rest.sent \cup {again}
    BY <2>a
  <2> HIDE DEF d
  <2>c. conn' = d
    BY <1>5 DEF d
  <2>3. /\ ConnInv(conn') /\ Wire(conn') = Wire(conn) /\ Out(conn') = Out(conn) /\ conn'.queue = conn.queue
        /\ Sent(rest, conn')
    BY <1>1, <2>1, <2>2, <2>a, <2>c
  <2>4. conn'.recovery_queue = (conn.recovery_queue \ hit) \cup {again} /\ conn'.sent = conn.sent \cup {again}
    BY <1>1, <2>b, <2>c
  <2>5. FramesOf(again) = FramesOf(fs)
    BY <2>b DEF FramesOf
  <2>6. NothingLost => NothingLost'
    <3> SUFFICES ASSUME NothingLost, NEW f \in Wire(conn)
                 PROVE  \/ \E e \in conn'.sent : e.seq \in seen /\ f \in FramesOf(e)
                        \/ \E e \in conn'.recovery_queue : f \in FramesOf(e)
                        \/ \E e \in popped' : e.seq = 0 /\ f \in FramesOf(e)
      BY <1>2, <2>3 DEF NothingLost
    <3>1. CASE \E e \in conn.recovery_queue : f \in FramesOf(e)
      <4>1. PICK e \in conn.recovery_queue : f \in FramesOf(e)
        BY <3>1
      <4>2. e \in hit => f \in FramesOf(again)
        BY <1>3, <2>5, <4>1
      <4> QED
        BY <4>1, <4>2, <2>4
    <3>2. CASE ~ \E e \in conn.recovery_queue : f \in FramesOf(e)
      BY <3>2, <1>2, <2>4 DEF NothingLost
    <3> QED
      BY <3>1, <3>2
  <2> QED
    BY <1>1, <1>2, <1>3, <2>3, <2>4, <2>6 DEF Sent, Grows, SameCounters
<1>6. ASSUME \A fs \in hit : fs.seq = 0 \/ fs.frames = <<>>, conn' = rest
      PROVE  NothingLost => NothingLost'
  <2> SUFFICES ASSUME NothingLost, NEW f \in Wire(conn)
               PROVE  \/ \E d \in conn.sent : d.seq \in seen /\ f \in FramesOf(d)
                      \/ \E d \in conn.recovery_queue \ hit : f \in FramesOf(d)
                      \/ \E d \in popped \cup hit : d.seq = 0 /\ f \in FramesOf(d)
    BY <1>1, <1>2, <1>6 DEF NothingLost
  <2>1. \A d \in hit : f \in FramesOf(d) => d.seq = 0
    BY <1>6, EmptyRange DEF FramesOf
  <2> QED
    BY <2>1 DEF NothingLost
<1> QED
  BY <1>1, <1>2, <1>3, <1>4, <1>5, <1>6

-----------------------------------------------------------------------------
(* Messages *)

\* The ids of the messages are 1, 2, 3 ...
TallyInv ==
  /\ submitted \subseteq Submitted /\ IsFiniteSet(submitted) /\ Cardinality(submitted) <= MaxMessages
  /\ \A m \in submitted : m.id <= Cardinality(submitted)
  /\ \A m, k \in submitted : m.id = k.id => m = k

\* f carries m, or a part of it.
Carries(f, m) ==
  /\ f.msg = m.id /\ f.reliability = m.reliability
  /\ is_ordered(m.reliability) =>
       /\ f.order_channel = m.channel
       /\ f.ordered_frame_index = Before(m, Ordered)
       /\ f.sequenced_frame_index = IF is_sequenced(m.reliability) THEN Before(m, Sequenced) ELSE none

OnChannel(c, reliabilities) == {k \in submitted : k.channel = c /\ k.reliability \in reliabilities}

\* The counters of a channel have counted its messages.
OrderInv ==
  /\ \A c \in Channels : /\ conn.sender_order_channels[c] = Cardinality(OnChannel(c, Ordered))
                         /\ conn.sender_sequence_channels[c] = Cardinality(OnChannel(c, Sequenced))
  /\ \A f \in Out(conn) : \E m \in submitted : Carries(f, m)

\* A message is being cut: its fragments so far are out.
Piece(f, p) == IF p = frame_count(f) - 1 THEN f.size - (frame_count(f) - 1) * max_size ELSE max_size

CutInv ==
  InFragments =>
    /\ frame \in Frames /\ frame.size > max_size /\ ~frame.is_fragmented /\ frame.reliable_frame_index = none
    /\ index <= frame_count(frame)
    /\ \E m \in submitted : Carries(frame, m) /\ m.size = frame.size
    /\ \A f \in Out(conn) : f.msg = frame.msg =>
         /\ f.is_fragmented /\ f.compound_size = frame_count(frame) /\ f.compound_id = conn.compound_id
         /\ f.index \in 0 .. index - 1 /\ f.size = Piece(frame, f.index)
    /\ \A p \in 0 .. index - 1 : \E f \in Out(conn) : f.msg = frame.msg /\ f.index = p
    /\ \A f, g \in Out(conn) : f.msg = frame.msg /\ g.msg = frame.msg /\ f.index = g.index => f = g

Mine(m) == {f \in Out(conn) : f.msg = m.id}
Cutting(m) == InFragments /\ m.id = frame.msg

\* All other messages are whole.
WholeInv == \A m \in submitted : Cutting(m) \/ InOnePiece(m, Mine(m)) \/ InPieces(m, Mine(m))

\* A message has one compound id, and as long as they last a compound id has one message.
CompoundInv ==
  /\ \A f \in Out(conn) : f.is_fragmented <=> f.compound_id # none
  /\ \A f, g \in Out(conn) : f.msg = g.msg => f.compound_id = g.compound_id
  /\ MaxMessages < CompoundIds =>
       /\ conn.compound_id + (IF InFragments THEN 1 ELSE 0) <= Cardinality(submitted)
       /\ \A f \in Out(conn) : f.is_fragmented =>
            f.compound_id < conn.compound_id \/ (Cutting([id |-> f.msg]) /\ f.compound_id = conn.compound_id)
       /\ \A f, g \in Out(conn) : f.is_fragmented /\ f.compound_id = g.compound_id => f.msg = g.msg

MessageInv == TallyInv /\ OrderInv /\ CutInv /\ WholeInv /\ CompoundInv

StepInv ==
  /\ step \in {"receive", "nack", "answer", "answer fragment", "drain", "fragment"} /\ index \in Nat /\ todo \in Seq(Nat)
  /\ step \in {"receive", "nack"} => conn.queue = <<>>
  /\ seen \subseteq SeqsOf(conn.sent) /\ popped \subseteq conn.sent

SenderInv == ConnInv(conn) /\ NothingLost /\ StepInv /\ MessageInv

-----------------------------------------------------------------------------
(* One frame *)

\* Frames that differ in their reliable index only.
AlikeButIndex(g, f) ==
  /\ g.msg = f.msg /\ g.size = f.size /\ g.reliability = f.reliability /\ g.order_channel = f.order_channel
  /\ g.ordered_frame_index = f.ordered_frame_index /\ g.sequenced_frame_index = f.sequenced_frame_index
  /\ g.is_fragmented = f.is_fragmented /\ g.compound_id = f.compound_id /\ g.compound_size = f.compound_size
  /\ g.index = f.index

\* A reliable frame gets an index no frame has.
LEMMA ReliableKeeps ==
  ASSUME NEW c, ConnInv(c), NEW f, FrameOK(f), f.reliable_frame_index = none
  PROVE  LET g == Reliable(f, c)
             d == AdvancedReliable(f, c)
         IN /\ ConnInv(d) /\ Out(d) = Out(c) /\ Grows(c, d) /\ SameCounters(c, d)
            /\ FrameOK(g) /\ AlikeButIndex(g, f) /\ g.reliable_frame_index < d.sender_reliable_frame_index
            /\ \A h \in Out(d) : h.reliable_frame_index = g.reliable_frame_index /\ g.reliable_frame_index # none => h = g
<1> DEFINE n == c.sender_reliable_frame_index
           g == Reliable(f, c)
           d == AdvancedReliable(f, c)
<1>1. c \in Connections /\ n \in Nat /\ f \in Frames /\ ReliableInv(c)
  BY DEF ConnInv, Connections, FrameOK
<1>2. CASE is_reliable(f.reliability)
  <2>1. g = [f EXCEPT !.reliable_frame_index = n] /\ d = [c EXCEPT !.sender_reliable_frame_index = n + 1]
    BY <1>2 DEF Reliable, AdvancedReliable
  <2>a. n + 1 \in Nat
    BY <1>1
  <2> HIDE DEF n, g, d
  <2>2. /\ g \in Frames /\ g.reliable_frame_index = n /\ AlikeButIndex(g, f)
    BY <1>1, <2>1 DEF Frames, AlikeButIndex
  <2>3. FrameOK(g)
    BY <2>2 DEF FrameOK, AlikeButIndex
  <2>4. /\ d \in Connections /\ d.sender_reliable_frame_index = n + 1 /\ d.sent = c.sent /\ d.queue = c.queue
        /\ d.recovery_queue = c.recovery_queue /\ d.sender_sequence_number = c.sender_sequence_number
        /\ d.sender_order_channels = c.sender_order_channels /\ d.sender_sequence_channels = c.sender_sequence_channels
        /\ d.compound_id = c.compound_id
    BY <1>1, <2>1, <2>a DEF Connections
  <2>5. Out(d) = Out(c) /\ Grows(c, d) /\ SameCounters(c, d)
    BY <2>4 DEF Out, Wire, Grows, SameCounters
  <2>6. \A h \in Out(c) : h.reliable_frame_index < n /\ h.reliable_frame_index \in Nat \cup {none}
    BY <1>1 DEF ConnInv, FrameOK, Frames, ReliableInv, n
  <2>7. ConnInv(d)
    BY <1>1, <2>4, <2>5, <2>6 DEF ConnInv, NumbersInv, ReliableInv, FitsInv, none
  <2> QED
    BY <1>1, <2>2, <2>3, <2>4, <2>5, <2>6, <2>7 DEF g, d, none
<1>3. CASE ~is_reliable(f.reliability)
  <2>1. g = f /\ d = c
    BY <1>3 DEF Reliable, AdvancedReliable
  <2> HIDE DEF g, d
  <2>2. none < n
    BY <1>1 DEF none
  <2> QED
    BY <1>1, <2>1, <2>2 DEF g, d, n, Grows, SameCounters, AlikeButIndex
<1> QED
  BY <1>2, <1>3

\* The frame with its index is in the queue or on the wire, whole.
LEMMA QueueFrame ==
  ASSUME NEW c, ConnInv(c), NEW f, FrameOK(f), f.reliable_frame_index = none, NEW flush \in BOOLEAN
  PROVE  LET d == append_raknet_frame(Reliable(f, c), flush, AdvancedReliable(f, c))
         IN /\ ConnInv(d) /\ Grows(c, d) /\ SameCounters(c, d) /\ (flush => d.queue = <<>>)
            /\ \E g : AlikeButIndex(g, f) /\ Out(d) = Out(c) \cup {g}
<1> DEFINE g == Reliable(f, c)
           b == AdvancedReliable(f, c)
           d == append_raknet_frame(g, flush, b)
<1>1. /\ ConnInv(b) /\ Out(b) = Out(c) /\ Grows(c, b) /\ SameCounters(c, b)
      /\ FrameOK(g) /\ AlikeButIndex(g, f) /\ g.reliable_frame_index < b.sender_reliable_frame_index
      /\ \A h \in Out(b) : h.reliable_frame_index = g.reliable_frame_index /\ g.reliable_frame_index # none => h = g
  BY ReliableKeeps
<1> HIDE DEF g, b
<1>2. ConnInv(d) /\ Out(d) = Out(b) \cup {g} /\ Sent(b, d) /\ (flush => d.queue = <<>>)
  BY <1>1, AppendFrameKeeps
<1> HIDE DEF d
<1>3. Grows(c, d) /\ SameCounters(c, d)
  BY <1>1, <1>2 DEF Sent, Grows, SameCounters
<1> QED
  BY <1>1, <1>2, <1>3 DEF g, b, d

\* The frame of a message, with the indices of its channel.
LEMMA NumberedFrame ==
  ASSUME NEW c, ConnInv(c), NEW m \in Submitted
  PROVE  LET f == Numbered(Frame(m), c)
         IN /\ f \in Frames /\ f.msg = m.id /\ f.size = m.size /\ f.reliability = m.reliability
            /\ ~f.is_fragmented /\ f.compound_id = none /\ f.reliable_frame_index = none
            /\ is_ordered(m.reliability) =>
                 /\ f.order_channel = m.channel
                 /\ f.ordered_frame_index = c.sender_order_channels[m.channel]
                 /\ f.sequenced_frame_index = IF is_sequenced(m.reliability) THEN c.sender_sequence_channels[m.channel] ELSE none
<1>1. m.id \in Ids /\ m.size \in Nat /\ m.reliability \in 0 .. 7 /\ m.channel \in Channels
  BY DEF Submitted
<1>2. c.sender_order_channels[m.channel] \in Nat /\ c.sender_sequence_channels[m.channel] \in Nat
  BY <1>1 DEF ConnInv, Connections
<1>3. /\ Frame(m) \in Frames /\ Frame(m).msg = m.id /\ Frame(m).size = m.size /\ Frame(m).reliability = m.reliability
      /\ ~Frame(m).is_fragmented /\ Frame(m).compound_id = none /\ Frame(m).reliable_frame_index = none
      /\ Frame(m).order_channel = IF is_ordered(m.reliability) THEN m.channel ELSE none
  BY <1>1 DEF Frame, Frames
<1>4. CASE ~is_ordered(m.reliability)
  BY <1>3, <1>4 DEF Numbered
<1>5. CASE is_ordered(m.reliability)
  <2> DEFINE o == c.sender_order_channels[m.channel]
             q == IF is_sequenced(m.reliability) THEN c.sender_sequence_channels[m.channel] ELSE none
             f == [Frame(m) EXCEPT !.ordered_frame_index = o, !.sequenced_frame_index = q]
  <2>1. Numbered(Frame(m), c) = f
    BY <1>3, <1>5 DEF Numbered
  <2>2. o \in Nat \cup {none} /\ q \in Nat \cup {none}
    BY <1>2
  <2> HIDE DEF o, q
  <2>3. f \in Frames /\ f.msg = m.id /\ f.size = m.size /\ f.reliability = m.reliability
        /\ ~f.is_fragmented /\ f.compound_id = none /\ f.reliable_frame_index = none
        /\ f.order_channel = m.channel /\ f.ordered_frame_index = o /\ f.sequenced_frame_index = q
    BY <1>3, <1>5, <2>2 DEF Frames
  <2> QED
    BY <1>5, <2>1, <2>3 DEF o, q
<1> QED
  BY <1>4, <1>5

\* The counters of its channel have gone on.
LEMMA AdvancedKeeps ==
  ASSUME NEW c, ConnInv(c), NEW f \in Frames, is_ordered(f.reliability) => f.order_channel \in Channels
  PROVE  LET d == Advanced(f, c)
         IN /\ ConnInv(d) /\ Out(d) = Out(c) /\ Grows(c, d) /\ d.compound_id = c.compound_id
            /\ \A ch \in Channels :
                 /\ d.sender_order_channels[ch] = c.sender_order_channels[ch]
                      + (IF ch = f.order_channel /\ f.reliability \in Ordered THEN 1 ELSE 0)
                 /\ d.sender_sequence_channels[ch] = c.sender_sequence_channels[ch]
                      + (IF ch = f.order_channel /\ f.reliability \in Sequenced THEN 1 ELSE 0)
<1> DEFINE d == Advanced(f, c)
           oc == c.sender_order_channels
           sc == c.sender_sequence_channels
<1>1. c \in Connections /\ oc \in [Channels -> Nat] /\ sc \in [Channels -> Nat] /\ f.reliability \in 0 .. 7
  BY DEF ConnInv, Connections, Frames
<1>2. is_sequenced(f.reliability) => is_ordered(f.reliability)
  BY DEF is_sequenced, is_ordered
<1>3. /\ d \in Connections /\ d.sent = c.sent /\ d.queue = c.queue /\ d.recovery_queue = c.recovery_queue
      /\ d.sender_sequence_number = c.sender_sequence_number /\ d.compound_id = c.compound_id
      /\ d.sender_reliable_frame_index = c.sender_reliable_frame_index
      /\ \A ch \in Channels :
           /\ d.sender_order_channels[ch] = oc[ch] + (IF ch = f.order_channel /\ f.reliability \in Ordered THEN 1 ELSE 0)
           /\ d.sender_sequence_channels[ch] = sc[ch] + (IF ch = f.order_channel /\ f.reliability \in Sequenced THEN 1 ELSE 0)
  <2>1. CASE is_sequenced(f.reliability)
    <3>1. d = [c EXCEPT !.sender_sequence_channels = [sc EXCEPT ![f.order_channel] = @ + 1]]
      BY <2>1 DEF Advanced
    <3>2. [sc EXCEPT ![f.order_channel] = @ + 1] \in [Channels -> Nat]
      BY <1>1, <1>2, <2>1
    <3>3. f.reliability \notin Ordered /\ f.reliability \in Sequenced
      BY <1>1, <2>1 DEF Ordered, Sequenced
    <3> HIDE DEF d
    <3>4. /\ d \in Connections /\ d.sent = c.sent /\ d.queue = c.queue /\ d.recovery_queue = c.recovery_queue
          /\ d.sender_sequence_number = c.sender_sequence_number /\ d.compound_id = c.compound_id
          /\ d.sender_reliable_frame_index = c.sender_reliable_frame_index
          /\ d.sender_order_channels = oc /\ d.sender_sequence_channels = [sc EXCEPT ![f.order_channel] = @ + 1]
      BY <1>1, <3>1, <3>2 DEF Connections
    <3> QED
      BY <1>1, <3>3, <3>4
  <2>2. CASE ~is_sequenced(f.reliability) /\ is_ordered(f.reliability)
    <3>1. d = [c EXCEPT !.sender_order_channels = [oc EXCEPT ![f.order_channel] = @ + 1]]
      BY <2>2 DEF Advanced
    <3>2. [oc EXCEPT ![f.order_channel] = @ + 1] \in [Channels -> Nat]
      BY <1>1, <1>2, <2>2
    <3>3. f.reliability \in Ordered /\ f.reliability \notin Sequenced
      BY <1>1, <2>2 DEF Ordered, Sequenced
    <3> HIDE DEF d
    <3>4. /\ d \in Connections /\ d.sent = c.sent /\ d.queue = c.queue /\ d.recovery_queue = c.recovery_queue
          /\ d.sender_sequence_number = c.sender_sequence_number /\ d.compound_id = c.compound_id
          /\ d.sender_reliable_frame_index = c.sender_reliable_frame_index
          /\ d.sender_order_channels = [oc EXCEPT ![f.order_channel] = @ + 1] /\ d.sender_sequence_channels = sc
      BY <1>1, <3>1, <3>2 DEF Connections
    <3> QED
      BY <1>1, <3>3, <3>4
  <2>3. CASE ~is_ordered(f.reliability)
    <3>1. d = c /\ f.reliability \notin Ordered /\ f.reliability \notin Sequenced
      BY <1>2, <2>3 DEF Advanced, Ordered, Sequenced
    <3> QED
      BY <1>1, <3>1
  <2> QED
    BY <2>1, <2>2, <2>3
<1> HIDE DEF d
<1>4. Out(d) = Out(c) /\ Grows(c, d)
  BY <1>3 DEF Out, Wire, Grows
<1>5. ConnInv(d)
  BY <1>3, <1>4 DEF ConnInv, NumbersInv, ReliableInv, FitsInv
<1> QED
  BY <1>3, <1>4, <1>5 DEF d

-----------------------------------------------------------------------------
(* Pieces *)

LEMMA Quotient ==
  ASSUME NEW n \in Nat, NEW s \in Nat \ {0}
  PROVE  n \div s \in Nat /\ (n \div s) * s <= n /\ n < (n \div s) * s + s
BY SMT

LEMMA MaxSizeType == max_size \in Nat \ {0}
BY MtuAssumption DEF max_size

LEMMA FrameCount ==
  ASSUME NEW f \in Frames, f.size > max_size
  PROVE  /\ frame_count(f) \in 2 .. f.size + 1
         /\ f.size - (frame_count(f) - 1) * max_size \in 0 .. max_size
         /\ max_size - (frame_count(f) * max_size - f.size) = f.size - (frame_count(f) - 1) * max_size
<1> DEFINE n == f.size
           s == max_size
           q == n \div s
<1>1. n \in Nat /\ s \in Nat \ {0} /\ n > s
  BY MaxSizeType DEF Frames
<1>2. q \in Nat /\ q * s <= n /\ n < q * s + s
  BY <1>1, Quotient
<1>3. frame_count(f) = q + 1
  BY DEF frame_count
<1> HIDE DEF n, s, q
<1>4. q # 0
  BY <1>1, <1>2
<1>5. q <= q * s /\ q * s \in Nat /\ (q + 1) * s = q * s + s /\ ((q + 1) - 1) * s = q * s
  <2>1. (q + 1) * s = q * s + s /\ (q + 1) - 1 = q /\ q * s \in Nat
    BY <1>1, <1>2
  <2>2. q <= q * s
    BY <1>1, <1>2
  <2> QED
    BY <2>1, <2>2
<1>6. /\ q + 1 \in 2 .. n + 1 /\ n - ((q + 1) - 1) * s \in 0 .. s
      /\ s - ((q + 1) * s - n) = n - ((q + 1) - 1) * s
  <2> DEFINE p == q * s
  <2>1. p \in Nat /\ p <= n /\ n < p + s /\ q <= p /\ (q + 1) * s = p + s /\ ((q + 1) - 1) * s = p
    BY <1>2, <1>5
  <2> HIDE DEF p
  <2> QED
    BY <1>1, <1>2, <1>4, <2>1
<1> QED
  BY <1>3, <1>6 DEF n, s

-----------------------------------------------------------------------------
(* One message *)

\* What a new message does to the counts of the messages before it.
LEMMA FreshMessage ==
  ASSUME TallyInv, NEW m \in Submitted, m.id = Cardinality(submitted) + 1, submitted' = submitted \cup {m}
  PROVE  /\ TallyInv' /\ Cardinality(submitted') = Cardinality(submitted) + 1 /\ Cardinality(submitted) \in Nat
         /\ \A k \in submitted : k.id < m.id
         /\ \A reliabilities : \A k \in submitted : Before(k, reliabilities)' = Before(k, reliabilities)
         /\ \A reliabilities : Before(m, reliabilities)' = Cardinality(OnChannel(m.channel, reliabilities))
         /\ \A reliabilities, c : Cardinality(OnChannel(c, reliabilities)') =
              Cardinality(OnChannel(c, reliabilities)) + (IF c = m.channel /\ m.reliability \in reliabilities THEN 1 ELSE 0)
<1> DEFINE n == Cardinality(submitted)
<1>1. n \in Nat /\ IsFiniteSet(submitted)
  BY FS_CardinalityType DEF TallyInv
<1>2. \A k \in submitted : k.id \in Nat /\ k.id <= n
  BY DEF TallyInv, Submitted, Ids
<1>3. m \notin submitted /\ \A k \in submitted : k.id < m.id
  BY <1>1, <1>2
<1>4. IsFiniteSet(submitted') /\ Cardinality(submitted') = n + 1
  BY <1>1, <1>3, FS_AddElement
<1>5. TallyInv'
  <2>1. m.id \in Nat /\ m.id <= MaxMessages
    BY BoundAssumption DEF Submitted, Ids
  <2> QED
    BY <1>1, <1>2, <1>3, <1>4, <2>1 DEF TallyInv
<1>6. ASSUME NEW rs, NEW k \in submitted PROVE Before(k, rs)' = Before(k, rs)
  <2> DEFINE A == {x \in submitted : x.id < k.id /\ x.channel = k.channel /\ x.reliability \in rs}
             B == {x \in submitted' : x.id < k.id /\ x.channel = k.channel /\ x.reliability \in rs}
  <2>1. ~(m.id < k.id)
    BY <1>1, <1>2, <1>3
  <2>2. A = B
    BY <2>1
  <2> QED
    BY <2>2 DEF Before
<1>7. ASSUME NEW rs PROVE Before(m, rs)' = Cardinality(OnChannel(m.channel, rs))
  <2> DEFINE A == OnChannel(m.channel, rs)
             B == {x \in submitted' : x.id < m.id /\ x.channel = m.channel /\ x.reliability \in rs}
  <2>1. ~(m.id < m.id)
    BY <1>1
  <2>2. A = B
    BY <1>3, <2>1 DEF OnChannel
  <2> QED
    BY <2>2 DEF Before
<1>8. ASSUME NEW rs, NEW c
      PROVE  Cardinality(OnChannel(c, rs)') = Cardinality(OnChannel(c, rs))
                + (IF c = m.channel /\ m.reliability \in rs THEN 1 ELSE 0)
  <2>1. IsFiniteSet(OnChannel(c, rs)) /\ m \notin OnChannel(c, rs)
    BY <1>1, <1>3, FS_Subset DEF OnChannel
  <2>2. Cardinality(OnChannel(c, rs)) \in Nat
    BY <2>1, FS_CardinalityType
  <2>3. CASE c = m.channel /\ m.reliability \in rs
    <3>1. OnChannel(c, rs)' = OnChannel(c, rs) \cup {m}
      BY <2>3 DEF OnChannel
    <3> QED
      BY <2>1, <2>3, <3>1, FS_AddElement
  <2>4. CASE ~(c = m.channel /\ m.reliability \in rs)
    <3>1. OnChannel(c, rs)' = OnChannel(c, rs)
      BY <2>4 DEF OnChannel
    <3> QED
      BY <2>2, <2>4, <3>1
  <2> QED
    BY <2>3, <2>4
<1> QED
  BY <1>1, <1>3, <1>4, <1>5, <1>6, <1>7, <1>8

-----------------------------------------------------------------------------
(* The steps of messages *)

\* The same frames, wherever they are, and nothing new.
LEMMA SameMessages ==
  ASSUME MessageInv, Out(conn') = Out(conn), SameCounters(conn, conn'), UNCHANGED <<submitted, frame, index>>,
         InFragments' <=> InFragments
  PROVE  MessageInv'
<1>1. TallyInv' /\ (\A m : Carries(frame, m)' <=> Carries(frame, m)) /\ (\A f, m : Carries(f, m)' <=> Carries(f, m))
  BY DEF MessageInv, TallyInv, Carries, Before
<1>2. OrderInv'
  BY <1>1 DEF MessageInv, OrderInv, OnChannel, SameCounters
<1>3. CutInv'
  BY <1>1 DEF MessageInv, CutInv, SameCounters
<1>4. WholeInv'
  BY DEF MessageInv, WholeInv, Mine, Cutting
<1>5. CompoundInv'
  BY DEF MessageInv, CompoundInv, Cutting, SameCounters
<1> QED
  BY <1>1, <1>2, <1>3, <1>4, <1>5 DEF MessageInv

\* The counters of the channel of a new message have counted it.
Counted(m) ==
  \A c \in Channels :
    /\ conn'.sender_order_channels[c] = conn.sender_order_channels[c] + (IF c = m.channel /\ m.reliability \in Ordered THEN 1 ELSE 0)
    /\ conn'.sender_sequence_channels[c] = conn.sender_sequence_channels[c] + (IF c = m.channel /\ m.reliability \in Sequenced THEN 1 ELSE 0)

\* A frame with the indices the message gets carries it.
Indexed(f, m) ==
  /\ f.msg = m.id /\ f.reliability = m.reliability
  /\ is_ordered(m.reliability) =>
       /\ f.order_channel = m.channel
       /\ f.ordered_frame_index = conn.sender_order_channels[m.channel]
       /\ f.sequenced_frame_index = IF is_sequenced(m.reliability) THEN conn.sender_sequence_channels[m.channel] ELSE none

LEMMA NewMessage ==
  ASSUME MessageInv, NEW m \in Submitted, m.id = Cardinality(submitted) + 1, submitted' = submitted \cup {m}, Counted(m)
  PROVE  /\ TallyInv' /\ Cardinality(submitted') = Cardinality(submitted) + 1 /\ Cardinality(submitted) \in Nat
         /\ \A k \in submitted : k.id < m.id
         /\ \A f \in Out(conn) : f.msg # m.id
         /\ \A f : \A k \in submitted : Carries(f, k)' <=> Carries(f, k)
         /\ \A f : Indexed(f, m) => Carries(f, m)'
         /\ \A c \in Channels : /\ conn'.sender_order_channels[c] = Cardinality(OnChannel(c, Ordered)')
                                /\ conn'.sender_sequence_channels[c] = Cardinality(OnChannel(c, Sequenced)')
<1>1. TallyInv /\ OrderInv /\ m.channel \in Channels
  BY DEF MessageInv, Submitted
<1>2. /\ TallyInv' /\ Cardinality(submitted') = Cardinality(submitted) + 1 /\ Cardinality(submitted) \in Nat
      /\ \A k \in submitted : k.id < m.id
      /\ \A rs : \A k \in submitted : Before(k, rs)' = Before(k, rs)
      /\ \A rs : Before(m, rs)' = Cardinality(OnChannel(m.channel, rs))
      /\ \A rs, c : Cardinality(OnChannel(c, rs)') =
           Cardinality(OnChannel(c, rs)) + (IF c = m.channel /\ m.reliability \in rs THEN 1 ELSE 0)
  BY <1>1, FreshMessage
<1>3. \A k \in submitted : Before(k, Ordered)' = Before(k, Ordered) /\ Before(k, Sequenced)' = Before(k, Sequenced)
  BY <1>2
<1>4. \A f : \A k \in submitted : Carries(f, k)' <=> Carries(f, k)
  BY <1>3 DEF Carries
<1>5. /\ Before(m, Ordered)' = conn.sender_order_channels[m.channel]
      /\ Before(m, Sequenced)' = conn.sender_sequence_channels[m.channel]
  BY <1>1, <1>2 DEF OrderInv
<1>6. \A f : Indexed(f, m) => Carries(f, m)'
  BY <1>5 DEF Indexed, Carries
<1>7. \A f \in Out(conn) : f.msg # m.id
  <2> SUFFICES ASSUME NEW f \in Out(conn), f.msg = m.id PROVE FALSE
    OBVIOUS
  <2>1. PICK k \in submitted : f.msg = k.id
    BY <1>1 DEF OrderInv, Carries
  <2>2. k.id \in Nat /\ k.id < m.id
    BY <1>1, <1>2 DEF TallyInv, Submitted, Ids
  <2> QED
    BY <2>1, <2>2
<1>8. \A c \in Channels : /\ conn'.sender_order_channels[c] = Cardinality(OnChannel(c, Ordered)')
                          /\ conn'.sender_sequence_channels[c] = Cardinality(OnChannel(c, Sequenced)')
  BY <1>1, <1>2 DEF OrderInv, Counted
<1> QED
  BY <1>2, <1>4, <1>6, <1>7, <1>8

\* A message that fits one frame.
LEMMA WholeMessage ==
  ASSUME MessageInv, ConnInv(conn), ~InFragments, ~InFragments',
         NEW m \in Submitted, m.id = Cardinality(submitted) + 1, submitted' = submitted \cup {m}, Counted(m),
         NEW g, Out(conn') = Out(conn) \cup {g}, Indexed(g, m), ~g.is_fragmented, g.compound_id = none, g.size = m.size,
         conn'.compound_id = conn.compound_id
  PROVE  MessageInv'
<1>1. /\ TallyInv' /\ Cardinality(submitted') = Cardinality(submitted) + 1 /\ Cardinality(submitted) \in Nat
      /\ \A k \in submitted : k.id < m.id
      /\ \A f \in Out(conn) : f.msg # m.id
      /\ \A f : \A k \in submitted : Carries(f, k)' <=> Carries(f, k)
      /\ Carries(g, m)'
      /\ \A c \in Channels : /\ conn'.sender_order_channels[c] = Cardinality(OnChannel(c, Ordered)')
                             /\ conn'.sender_sequence_channels[c] = Cardinality(OnChannel(c, Sequenced)')
  BY NewMessage
<1>2. g.msg = m.id
  BY DEF Indexed
<1>3. OrderInv'
  <2>1. ASSUME NEW f \in Out(conn') PROVE \E k \in submitted' : Carries(f, k)'
    BY <1>1, <2>1 DEF MessageInv, OrderInv
  <2> QED
    BY <1>1, <2>1 DEF OrderInv
<1>4. CutInv'
  BY DEF CutInv
<1>5. WholeInv'
  <2> SUFFICES ASSUME NEW k \in submitted' PROVE InOnePiece(k, Mine(k)') \/ InPieces(k, Mine(k)')
    BY DEF WholeInv
  <2>1. CASE k = m
    <3>1. Mine(k)' = {g}
      BY <1>1, <1>2, <2>1 DEF Mine
    <3> QED
      BY <2>1, <3>1 DEF InOnePiece
  <2>2. CASE k # m
    <3>1. k \in submitted /\ k.id # m.id
      BY <1>1, <2>2 DEF MessageInv, TallyInv, Submitted, Ids
    <3>2. Mine(k)' = Mine(k)
      BY <1>2, <3>1 DEF Mine
    <3> QED
      BY <3>1, <3>2 DEF MessageInv, WholeInv, Cutting
  <2> QED
    BY <2>1, <2>2
<1>6. CompoundInv'
  <2>1. conn.compound_id \in Nat
    BY DEF ConnInv, Connections
  <2>2. /\ \A f \in Out(conn) : f.is_fragmented <=> f.compound_id # none
        /\ \A f, h \in Out(conn) : f.msg = h.msg => f.compound_id = h.compound_id
    BY DEF MessageInv, CompoundInv
  <2>3. MaxMessages < CompoundIds => conn'.compound_id <= Cardinality(submitted')
    BY <1>1, <2>1 DEF MessageInv, CompoundInv
  <2>4. \A f \in Out(conn') : f.is_fragmented => f \in Out(conn)
    OBVIOUS
  <2>5. \A f, h \in Out(conn') : f.msg = h.msg => f.compound_id = h.compound_id
    BY <1>1, <1>2, <2>2
  <2>6. \A f \in Out(conn') : f.is_fragmented <=> f.compound_id # none
    BY <2>2
  <2>7. ASSUME MaxMessages < CompoundIds
        PROVE  /\ \A f \in Out(conn') : f.is_fragmented => f.compound_id < conn'.compound_id
               /\ \A f, h \in Out(conn') : f.is_fragmented /\ f.compound_id = h.compound_id => f.msg = h.msg
    <3>1. /\ \A f \in Out(conn) : f.is_fragmented => f.compound_id < conn.compound_id
          /\ \A f, h \in Out(conn) : f.is_fragmented /\ f.compound_id = h.compound_id => f.msg = h.msg
      BY <2>7 DEF MessageInv, CompoundInv, Cutting
    <3> QED
      BY <3>1, <2>2, <2>4
  <2>8. conn'.compound_id + 0 = conn'.compound_id
    BY <2>1
  <2> QED
    BY <2>3, <2>5, <2>6, <2>7, <2>8 DEF CompoundInv
<1> QED
  BY <1>1, <1>3, <1>4, <1>5, <1>6 DEF MessageInv

\* A message that is going to be cut.
LEMMA LongMessage ==
  ASSUME MessageInv, ConnInv(conn), ~InFragments, InFragments', index' = 0,
         NEW m \in Submitted, m.id = Cardinality(submitted) + 1, submitted' = submitted \cup {m}, Counted(m),
         Out(conn') = Out(conn), conn'.compound_id = conn.compound_id,
         NEW g \in Frames, frame' = g, Indexed(g, m), ~g.is_fragmented, g.reliable_frame_index = none,
         g.size = m.size, m.size > max_size
  PROVE  MessageInv'
<1>1. /\ TallyInv' /\ Cardinality(submitted') = Cardinality(submitted) + 1 /\ Cardinality(submitted) \in Nat
      /\ \A k \in submitted : k.id < m.id
      /\ \A f \in Out(conn) : f.msg # m.id
      /\ \A f : \A k \in submitted : Carries(f, k)' <=> Carries(f, k)
      /\ Carries(frame, m)'
      /\ \A c \in Channels : /\ conn'.sender_order_channels[c] = Cardinality(OnChannel(c, Ordered)')
                             /\ conn'.sender_sequence_channels[c] = Cardinality(OnChannel(c, Sequenced)')
  <2>1. \A f : Indexed(f, m) => Carries(f, m)'
    BY NewMessage
  <2>2. Carries(g, m)'
    BY <2>1
  <2> QED
    BY <2>2, NewMessage DEF Carries
<1>2. g.msg = m.id
  BY DEF Indexed
<1>3. OrderInv'
  <2>1. ASSUME NEW f \in Out(conn') PROVE \E k \in submitted' : Carries(f, k)'
    BY <1>1, <2>1 DEF MessageInv, OrderInv
  <2> QED
    BY <1>1, <2>1 DEF OrderInv
<1>4. CutInv'
  <2>1. frame_count(g) \in Nat
    BY FrameCount
  <2>2. \A f \in Out(conn') : f.msg # g.msg
    BY <1>1, <1>2
  <2>3. 0 .. 0 - 1 = {}
    OBVIOUS
  <2>4. frame_count(frame)' = frame_count(g)
    BY DEF frame_count, max_size
  <2> QED
    BY <1>1, <2>1, <2>2, <2>3, <2>4 DEF CutInv
<1>5. WholeInv'
  <2> SUFFICES ASSUME NEW k \in submitted' PROVE Cutting(k)' \/ InOnePiece(k, Mine(k)') \/ InPieces(k, Mine(k)')
    BY DEF WholeInv
  <2>1. CASE k = m
    BY <1>2, <2>1 DEF Cutting
  <2>2. CASE k # m
    <3>1. k \in submitted /\ Mine(k)' = Mine(k)
      BY <2>2 DEF Mine
    <3> QED
      BY <3>1 DEF MessageInv, WholeInv, Cutting
  <2> QED
    BY <2>1, <2>2
<1>6. CompoundInv'
  <2>1. conn.compound_id \in Nat
    BY DEF ConnInv, Connections
  <2>2. MaxMessages < CompoundIds => conn'.compound_id + 1 <= Cardinality(submitted')
    BY <1>1, <2>1 DEF MessageInv, CompoundInv
  <2> QED
    BY <1>1, <2>2 DEF MessageInv, CompoundInv, Cutting
<1> QED
  BY <1>1, <1>3, <1>4, <1>5, <1>6 DEF MessageInv

\* A fragment: the message's indices, its own place and length.
LEMMA FragmentIs ==
  ASSUME CutInv, ConnInv(conn), InFragments, index \in Nat, index < frame_count(frame)
  PROVE  LET f == Fragment(frame, index, conn)
         IN /\ FrameOK(f) /\ f.reliable_frame_index = none
            /\ f.msg = frame.msg /\ f.reliability = frame.reliability /\ f.order_channel = frame.order_channel
            /\ f.ordered_frame_index = frame.ordered_frame_index
            /\ f.sequenced_frame_index = frame.sequenced_frame_index
            /\ f.is_fragmented /\ f.compound_id = conn.compound_id /\ f.compound_size = frame_count(frame)
            /\ f.index = index /\ f.size = Piece(frame, index)
<1> DEFINE n == frame_count(frame)
           size == IF index = n - 1 THEN max_size - (n * max_size - frame.size) ELSE max_size
           f == [frame EXCEPT !.is_fragmented = TRUE, !.index = index, !.compound_id = conn.compound_id,
                              !.compound_size = n, !.size = size]
<1>1. frame \in Frames /\ frame.size > max_size /\ frame.reliable_frame_index = none
  BY DEF CutInv
<1>2. n \in Nat /\ size = Piece(frame, index) /\ size \in 0 .. max_size /\ size \in Nat
  <2>1. n \in Nat
    BY <1>1, FrameCount
  <2>2. CASE index = n - 1
    BY <1>1, <2>1, <2>2, MaxSizeType, FrameCount DEF Piece
  <2>3. CASE index # n - 1
    BY <2>1, <2>3, MaxSizeType DEF Piece
  <2> QED
    BY <2>1, <2>2, <2>3
<1>3. Fragment(frame, index, conn) = f
  BY DEF Fragment
<1>4. conn.compound_id \in 0 .. CompoundIds - 1
  BY DEF ConnInv, Connections
<1> HIDE DEF n, size
<1>5. /\ f \in Frames /\ f.reliable_frame_index = none
      /\ f.msg = frame.msg /\ f.reliability = frame.reliability /\ f.order_channel = frame.order_channel
      /\ f.ordered_frame_index = frame.ordered_frame_index
      /\ f.sequenced_frame_index = frame.sequenced_frame_index
      /\ f.is_fragmented /\ f.compound_id = conn.compound_id /\ f.compound_size = n
      /\ f.index = index /\ f.size = size
  BY <1>1, <1>2, <1>4, ZenonT(60) DEF Frames
<1> HIDE DEF f
<1>6. FrameOK(f)
  <2>1. f.index \in 0 .. f.compound_size - 1
    BY <1>2, <1>5 DEF n
  <2>2. f.size <= max_size
    BY <1>2, <1>5, MaxSizeType
  <2> QED
    BY <1>5, <2>1, <2>2 DEF FrameOK
<1> QED
  BY <1>2, <1>3, <1>5, <1>6 DEF n

\* One more fragment is out.
LEMMA OneFragment ==
  ASSUME MessageInv, ConnInv(conn), InFragments, index \in Nat, index < frame_count(frame),
         UNCHANGED <<step, frame, submitted>>, index' = index + 1, SameCounters(conn, conn'),
         NEW g, AlikeButIndex(g, Fragment(frame, index, conn)), Out(conn') = Out(conn) \cup {g}
  PROVE  MessageInv'
<1>0. InFragments'
  BY DEF InFragments
<1>1. /\ g.msg = frame.msg /\ g.reliability = frame.reliability /\ g.order_channel = frame.order_channel
      /\ g.ordered_frame_index = frame.ordered_frame_index
      /\ g.sequenced_frame_index = frame.sequenced_frame_index
      /\ g.is_fragmented /\ g.compound_id = conn.compound_id /\ g.compound_size = frame_count(frame)
      /\ g.index = index /\ g.size = Piece(frame, index)
  BY FragmentIs DEF MessageInv, AlikeButIndex
<1>2. /\ frame \in Frames /\ frame.size > max_size /\ ~frame.is_fragmented /\ frame.reliable_frame_index = none
      /\ \E m \in submitted : Carries(frame, m) /\ m.size = frame.size
      /\ \A f \in Out(conn) : f.msg = frame.msg =>
           /\ f.is_fragmented /\ f.compound_size = frame_count(frame) /\ f.compound_id = conn.compound_id
           /\ f.index \in 0 .. index - 1 /\ f.size = Piece(frame, f.index)
      /\ \A p \in 0 .. index - 1 : \E f \in Out(conn) : f.msg = frame.msg /\ f.index = p
      /\ \A f, h \in Out(conn) : f.msg = frame.msg /\ h.msg = frame.msg /\ f.index = h.index => f = h
  BY DEF MessageInv, CutInv
<1>3. TallyInv' /\ \A f, m : Carries(f, m)' <=> Carries(f, m)
  BY DEF MessageInv, TallyInv, Carries, Before
<1>4. OrderInv'
  <2>1. ASSUME NEW f \in Out(conn') PROVE \E m \in submitted : Carries(f, m)
    <3>1. CASE f = g
      BY <1>1, <1>2, <3>1 DEF Carries
    <3>2. CASE f # g
      BY <3>2, <2>1 DEF MessageInv, OrderInv
    <3> QED
      BY <3>1, <3>2
  <2> QED
    BY <1>3, <2>1 DEF MessageInv, OrderInv, OnChannel, SameCounters
<1>5. CutInv'
  <2>1. frame_count(frame) \in Nat /\ index + 1 <= frame_count(frame)
    BY <1>2, FrameCount
  <2>2. /\ frame_count(frame)' = frame_count(frame) /\ \A p : Piece(frame, p)' = Piece(frame, p)
        /\ conn'.compound_id = conn.compound_id
    BY DEF frame_count, max_size, Piece, SameCounters
  <2>3. \E m \in submitted : Carries(frame, m)' /\ m.size = frame.size
    <3>1. PICK m \in submitted : Carries(frame, m) /\ m.size = frame.size
      BY <1>2
    <3>2. Carries(frame, m)'
      BY <3>1 DEF Carries, Before
    <3> QED
      BY <3>1, <3>2
  <2>4. ASSUME NEW f \in Out(conn'), f.msg = frame.msg
        PROVE  /\ f.is_fragmented /\ f.compound_size = frame_count(frame) /\ f.compound_id = conn.compound_id
               /\ f.index \in 0 .. (index + 1) - 1 /\ f.size = Piece(frame, f.index)
    <3>1. CASE f = g
      BY <1>1, <3>1
    <3>2. CASE f # g
      BY <1>2, <2>4, <3>2
    <3> QED
      BY <3>1, <3>2
  <2>5. ASSUME NEW p \in 0 .. (index + 1) - 1 PROVE \E f \in Out(conn') : f.msg = frame.msg /\ f.index = p
    <3>1. p = index \/ p \in 0 .. index - 1
      OBVIOUS
    <3> QED
      BY <1>1, <1>2, <3>1
  <2>6. ASSUME NEW f \in Out(conn'), NEW h \in Out(conn'), f.msg = frame.msg, h.msg = frame.msg, f.index = h.index
        PROVE  f = h
    <3>1. \A e \in Out(conn) : e.msg = frame.msg => e.index # index
      BY <1>2
    <3> QED
      BY <1>1, <1>2, <2>6, <3>1
  <2> QED
    BY <1>0, <1>2, <2>1, <2>2, <2>3, <2>4, <2>5, <2>6 DEF CutInv
<1>6. WholeInv'
  <2> SUFFICES ASSUME NEW k \in submitted, ~Cutting(k) PROVE InOnePiece(k, Mine(k)') \/ InPieces(k, Mine(k)')
    BY <1>0 DEF WholeInv, Cutting
  <2>1. Mine(k)' = Mine(k)
    BY <1>1 DEF Mine, Cutting
  <2> QED
    BY <2>1 DEF MessageInv, WholeInv
<1>7. CompoundInv'
  <2>1. conn.compound_id \in Nat /\ none \notin Nat /\ conn'.compound_id = conn.compound_id
    BY DEF ConnInv, Connections, none, SameCounters
  <2>2. /\ \A f \in Out(conn) : f.is_fragmented <=> f.compound_id # none
        /\ \A f, h \in Out(conn) : f.msg = h.msg => f.compound_id = h.compound_id
    BY DEF MessageInv, CompoundInv
  <2>3. \A f, h \in Out(conn') : f.msg = h.msg => f.compound_id = h.compound_id
    BY <1>1, <1>2, <2>2
  <2>4. \A f \in Out(conn') : f.is_fragmented <=> f.compound_id # none
    BY <1>1, <2>1, <2>2
  <2>5. ASSUME MaxMessages < CompoundIds
        PROVE  /\ conn.compound_id + 1 <= Cardinality(submitted)
               /\ \A f \in Out(conn') : f.is_fragmented =>
                    f.compound_id < conn.compound_id \/ (f.msg = frame.msg /\ f.compound_id = conn.compound_id)
               /\ \A f, h \in Out(conn') : f.is_fragmented /\ f.compound_id = h.compound_id => f.msg = h.msg
    <3>1. /\ conn.compound_id + 1 <= Cardinality(submitted)
          /\ \A f \in Out(conn) : f.is_fragmented =>
               f.compound_id < conn.compound_id \/ (f.msg = frame.msg /\ f.compound_id = conn.compound_id)
          /\ \A f, h \in Out(conn) : f.is_fragmented /\ f.compound_id = h.compound_id => f.msg = h.msg
      BY <2>5 DEF MessageInv, CompoundInv, Cutting
    <3>2. \A f \in Out(conn) : f.compound_id = conn.compound_id => f.msg = frame.msg
      BY <2>1, <2>2, <3>1
    <3> QED
      BY <1>1, <3>1, <3>2
  <2> QED
    BY <1>0, <2>1, <2>3, <2>4, <2>5 DEF CompoundInv, Cutting
<1> QED
  BY <1>3, <1>4, <1>5, <1>6, <1>7 DEF MessageInv

LEMMA Remainder == ASSUME NEW n \in Nat, NEW k \in Nat \ {0} PROVE n % k \in 0 .. k - 1 /\ (n < k => n % k = n)
BY SMT

\* All fragments are out: the message is whole, and the next has a compound id of its own.
LEMMA AllFragments ==
  ASSUME MessageInv, ConnInv(conn), FragmentsDone
  PROVE  MessageInv' /\ ConnInv(conn') /\ Out(conn') = Out(conn) /\ Grows(conn, conn')
<1> DEFINE next == (conn.compound_id + 1) % CompoundIds
<1>1. InFragments /\ ~InFragments' /\ index = frame_count(frame) /\ submitted' = submitted
  BY DEF FragmentsDone, InFragments
<1>2. /\ conn \in Connections /\ conn.compound_id \in 0 .. CompoundIds - 1 /\ next \in 0 .. CompoundIds - 1
      /\ conn.compound_id + 1 < CompoundIds => next = conn.compound_id + 1
  <2>1. conn \in Connections /\ conn.compound_id \in 0 .. CompoundIds - 1 /\ CompoundIds \in Nat \ {0}
    BY BoundAssumption DEF ConnInv, Connections
  <2>2. conn.compound_id + 1 \in Nat
    BY <2>1
  <2> QED
    BY <2>1, <2>2, Remainder
<1>3. conn' = [conn EXCEPT !.compound_id = next]
  BY DEF FragmentsDone
<1> HIDE DEF next
<1>4. /\ conn' \in Connections /\ conn'.compound_id = next /\ conn'.sent = conn.sent /\ conn'.queue = conn.queue
      /\ conn'.recovery_queue = conn.recovery_queue /\ conn'.sender_sequence_number = conn.sender_sequence_number
      /\ conn'.sender_reliable_frame_index = conn.sender_reliable_frame_index
      /\ conn'.sender_order_channels = conn.sender_order_channels
      /\ conn'.sender_sequence_channels = conn.sender_sequence_channels
  BY <1>2, <1>3 DEF Connections
<1>5. Out(conn') = Out(conn) /\ Grows(conn, conn')
  BY <1>4 DEF Out, Wire, Grows
<1>6. ConnInv(conn')
  BY <1>4, <1>5 DEF ConnInv, NumbersInv, ReliableInv, FitsInv
<1>7. TallyInv' /\ \A f, m : Carries(f, m)' <=> Carries(f, m)
  BY <1>1 DEF MessageInv, TallyInv, Carries, Before
<1>8. OrderInv'
  BY <1>1, <1>4, <1>5, <1>7 DEF MessageInv, OrderInv, OnChannel
<1>9. CutInv'
  BY <1>1 DEF CutInv
<1>10. WholeInv'
  <2> SUFFICES ASSUME NEW k \in submitted PROVE InOnePiece(k, Mine(k)) \/ InPieces(k, Mine(k))
    BY <1>1, <1>5 DEF WholeInv, Mine
  <2>1. CASE ~Cutting(k)
    BY <2>1 DEF MessageInv, WholeInv
  <2>2. CASE Cutting(k)
    <3> DEFINE n == frame_count(frame)
    <3>1. /\ frame \in Frames /\ frame.size > max_size
          /\ \E m \in submitted : Carries(frame, m) /\ m.size = frame.size
          /\ \A f \in Out(conn) : f.msg = frame.msg =>
               f.is_fragmented /\ f.compound_size = n /\ f.index \in 0 .. n - 1 /\ f.size = Piece(frame, f.index)
          /\ \A p \in 0 .. n - 1 : \E f \in Out(conn) : f.msg = frame.msg /\ f.index = p
          /\ \A f, h \in Out(conn) : f.msg = frame.msg /\ h.msg = frame.msg /\ f.index = h.index => f = h
      BY <1>1 DEF MessageInv, CutInv
    <3>2. k.id = frame.msg /\ k.size = frame.size
      BY <2>2, <3>1 DEF Cutting, MessageInv, TallyInv, Carries
    <3>3. n \in 2 .. k.size + 1 /\ max_size \in 1 .. k.size /\ k.size \in Nat
      BY <3>1, <3>2, FrameCount, MaxSizeType DEF Frames
    <3> HIDE DEF n
    <3>4. \A f \in Mine(k) : f.is_fragmented /\ f.compound_size = n
      BY <3>1, <3>2 DEF Mine
    <3>5. {f.index : f \in Mine(k)} = 0 .. n - 1
      BY <3>1, <3>2 DEF Mine
    <3>6. \A f, g \in Mine(k) : f.index = g.index => f = g
      BY <3>1, <3>2 DEF Mine
    <3>7. \A f \in Mine(k) : f.size = IF f.index < n - 1 THEN max_size ELSE k.size - (n - 1) * max_size
      <4> SUFFICES ASSUME NEW f \in Mine(k) PROVE f.size = IF f.index < n - 1 THEN max_size ELSE k.size - (n - 1) * max_size
        OBVIOUS
      <4>1. f.index \in 0 .. n - 1 /\ f.size = Piece(frame, f.index)
        BY <3>1, <3>2 DEF Mine
      <4>2. f.index < n - 1 <=> f.index # n - 1
        BY <4>1, <3>3
      <4> QED
        BY <3>2, <4>1, <4>2 DEF Piece, n
    <3> QED
      BY <3>3, <3>4, <3>5, <3>6, <3>7 DEF InPieces
  <2> QED
    BY <2>1, <2>2
<1>11. CompoundInv'
  <2>1. ASSUME MaxMessages < CompoundIds
        PROVE  /\ next <= Cardinality(submitted)
               /\ \A f \in Out(conn) : f.is_fragmented => f.compound_id < next
               /\ \A f, g \in Out(conn) : f.is_fragmented /\ f.compound_id = g.compound_id => f.msg = g.msg
    <3>1. /\ conn.compound_id + 1 <= Cardinality(submitted) /\ Cardinality(submitted) <= MaxMessages
          /\ \A f \in Out(conn) : f.is_fragmented => f.compound_id < conn.compound_id \/ f.compound_id = conn.compound_id
          /\ \A f, g \in Out(conn) : f.is_fragmented /\ f.compound_id = g.compound_id => f.msg = g.msg
      BY <1>1, <2>1 DEF MessageInv, CompoundInv, Cutting, TallyInv
    <3>2. IsFiniteSet(submitted) /\ Cardinality(submitted) \in Nat
      BY FS_CardinalityType DEF MessageInv, TallyInv
    <3>3. next = conn.compound_id + 1
      BY <1>2, <2>1, <3>1, <3>2, BoundAssumption
    <3>4. \A f \in Out(conn) : f.is_fragmented => f.compound_id \in Int
      BY DEF ConnInv, FrameOK, Frames, none
    <3> QED
      BY <1>2, <3>1, <3>3, <3>4
  <2>2. next + 0 = next
    BY <1>2
  <2> QED
    BY <1>1, <1>4, <1>5, <2>1, <2>2 DEF MessageInv, CompoundInv
<1> QED
  BY <1>5, <1>6, <1>7, <1>8, <1>9, <1>10, <1>11 DEF MessageInv

-----------------------------------------------------------------------------
(* The invariant *)

LEMMA InitSender == Init => SenderInv
<1> SUFFICES ASSUME Init PROVE SenderInv
  OBVIOUS
<1>1. /\ conn = NewConnection /\ step = "receive" /\ index = 0 /\ todo = <<>> /\ submitted = {} /\ seen = {} /\ popped = {}
  BY DEF Init
<1>2. <<>> \in Seq(Frames) /\ <<>> \in Seq(Nat)
  BY EmptyRange
<1>3. conn \in Connections
  BY <1>1, <1>2, BoundAssumption DEF NewConnection, Connections
<1>4. /\ conn.sent = {} /\ conn.queue = <<>> /\ conn.recovery_queue = {} /\ conn.compound_id = 0
      /\ \A c \in Channels : conn.sender_order_channels[c] = 0 /\ conn.sender_sequence_channels[c] = 0
  BY <1>1 DEF NewConnection
<1>5. Out(conn) = {} /\ Wire(conn) = {}
  BY <1>4, EmptyRange DEF Out, Wire
<1>6. Fits(conn.queue)
  BY <1>4, NoFramesSize, MtuAssumption DEF Fits
<1>7. ConnInv(conn)
  BY <1>3, <1>4, <1>5, <1>6 DEF ConnInv, NumbersInv, ReliableInv, FitsInv
<1>8. IsFiniteSet(submitted) /\ Cardinality(submitted) = 0
  BY <1>1, FS_EmptySet
<1>9. TallyInv
  BY <1>1, <1>8, BoundAssumption DEF TallyInv
<1>10. OrderInv
  <2>1. \A c, rs : Cardinality(OnChannel(c, rs)) = 0
    <3>1. \A c, rs : OnChannel(c, rs) = {}
      BY <1>1 DEF OnChannel
    <3> QED
      BY <3>1, FS_EmptySet
  <2> QED
    BY <1>4, <1>5, <2>1 DEF OrderInv
<1>11. CutInv /\ WholeInv /\ ~InFragments
  BY <1>1 DEF CutInv, WholeInv, InFragments
<1>12. CompoundInv
  BY <1>1, <1>4, <1>5, <1>8, <1>11 DEF CompoundInv
<1>13. StepInv /\ NothingLost
  BY <1>1, <1>2, <1>4, <1>5 DEF StepInv, NothingLost
<1> QED
  BY <1>7, <1>9, <1>10, <1>11, <1>12, <1>13 DEF SenderInv, MessageInv

\* add_to_raknet_queue.
LEMMA AddKeeps ==
  ASSUME SenderInv, ~InFragments, NEW m \in Submitted, m.id = Cardinality(submitted) + 1,
         NEW next \in {"drain", "answer"}, NEW cut \in {"fragment", "answer fragment"}, AddToQueue(m, next, cut)
  PROVE  ConnInv(conn') /\ Grows(conn, conn') /\ MessageInv' /\ step' \in {next, cut} /\ index' \in Nat
<1> DEFINE f == Numbered(Frame(m), conn)
           c == Advanced(f, conn)
<1>1. ConnInv(conn) /\ MessageInv /\ index \in Nat
  BY DEF SenderInv, StepInv
<1>2. /\ f \in Frames /\ f.msg = m.id /\ f.size = m.size /\ f.reliability = m.reliability
      /\ ~f.is_fragmented /\ f.compound_id = none /\ f.reliable_frame_index = none
      /\ is_ordered(m.reliability) =>
           /\ f.order_channel = m.channel
           /\ f.ordered_frame_index = conn.sender_order_channels[m.channel]
           /\ f.sequenced_frame_index = IF is_sequenced(m.reliability) THEN conn.sender_sequence_channels[m.channel] ELSE none
  BY <1>1, NumberedFrame
<1> HIDE DEF f
<1>3. m.channel \in Channels
  BY DEF Submitted
<1>4. /\ ConnInv(c) /\ Out(c) = Out(conn) /\ Grows(conn, c) /\ c.compound_id = conn.compound_id
      /\ \A ch \in Channels :
           /\ c.sender_order_channels[ch] = conn.sender_order_channels[ch]
                + (IF ch = f.order_channel /\ f.reliability \in Ordered THEN 1 ELSE 0)
           /\ c.sender_sequence_channels[ch] = conn.sender_sequence_channels[ch]
                + (IF ch = f.order_channel /\ f.reliability \in Sequenced THEN 1 ELSE 0)
  BY <1>1, <1>2, <1>3, AdvancedKeeps
<1>5. /\ submitted' = submitted \cup {m}
      /\ \/ /\ m.size > max_size /\ conn' = c /\ frame' = f /\ index' = 0 /\ step' = cut
         \/ /\ m.size <= max_size /\ step' = next /\ UNCHANGED <<frame, index>>
            /\ conn' = append_raknet_frame(Reliable(f, c), FALSE, AdvancedReliable(f, c))
  BY DEF AddToQueue, f
<1> HIDE DEF c
<1>6. ASSUME SameCounters(c, conn') PROVE Counted(m) /\ conn'.compound_id = conn.compound_id
  <2>1. m.reliability \in Ordered \/ m.reliability \in Sequenced => is_ordered(m.reliability)
    BY DEF Ordered, Sequenced, is_sequenced, is_ordered
  <2> QED
    BY <1>2, <1>4, <1>6, <2>1 DEF Counted, SameCounters
<1>7. Indexed(f, m)
  BY <1>2 DEF Indexed
<1>8. CASE m.size > max_size /\ conn' = c /\ frame' = f /\ index' = 0 /\ step' = cut
  <2>1. Counted(m) /\ conn'.compound_id = conn.compound_id
    BY <1>6, <1>8 DEF SameCounters
  <2>2. InFragments'
    BY <1>8 DEF InFragments
  <2>3. MessageInv'
    BY <1>1, <1>2, <1>4, <1>5, <1>7, <1>8, <2>1, <2>2, LongMessage
  <2> QED
    BY <1>4, <1>8, <2>3
<1>9. CASE /\ m.size <= max_size /\ step' = next /\ UNCHANGED <<frame, index>>
           /\ conn' = append_raknet_frame(Reliable(f, c), FALSE, AdvancedReliable(f, c))
  <2>1. FrameOK(f)
    BY <1>2, <1>9 DEF FrameOK
  <2>2. /\ ConnInv(conn') /\ Grows(c, conn') /\ SameCounters(c, conn')
        /\ \E g : AlikeButIndex(g, f) /\ Out(conn') = Out(c) \cup {g}
    BY <1>2, <1>4, <1>9, <2>1, QueueFrame
  <2>3. PICK g : AlikeButIndex(g, f) /\ Out(conn') = Out(conn) \cup {g}
    BY <1>4, <2>2
  <2>4. Indexed(g, m) /\ ~g.is_fragmented /\ g.compound_id = none /\ g.size = m.size
    BY <1>2, <1>7, <2>3 DEF AlikeButIndex, Indexed
  <2>5. Counted(m) /\ conn'.compound_id = conn.compound_id
    BY <1>6, <2>2
  <2>6. ~InFragments'
    BY <1>9 DEF InFragments
  <2>7. MessageInv'
    BY <1>1, <1>5, <2>3, <2>4, <2>5, <2>6, WholeMessage
  <2>8. Grows(conn, conn')
    BY <1>4, <2>2 DEF Grows
  <2> QED
    BY <1>1, <1>9, <2>2, <2>7, <2>8
<1> QED
  BY <1>5, <1>8, <1>9

LEMMA FunctionIsSeq ==
  ASSUME NEW S, NEW n \in Nat, NEW s \in [1 .. n -> S]
  PROVE  s \in Seq(S)
  OBVIOUS

\* The messages the worker and handle_frame give are new.
LEMMA GivenMessage ==
  ASSUME SenderInv, Room, NEW m, NEW reliabilities \in SUBSET (0 .. 7), m \in Messages(Sizes, reliabilities)
  PROVE  m \in Submitted /\ m.id = Cardinality(submitted) + 1
<1>1. Cardinality(submitted) \in Nat /\ Cardinality(submitted) < MaxMessages
  BY FS_CardinalityType DEF SenderInv, MessageInv, TallyInv, Room
<1>2. Cardinality(submitted) + 1 \in Ids
  BY <1>1, BoundAssumption DEF Ids
<1> QED
  BY <1>2, MessageAssumption DEF Messages, Submitted

LEMMA SenderStep == SenderInv /\ [Next]_vars => SenderInv'
<1> SUFFICES ASSUME SenderInv, [Next]_vars PROVE SenderInv'
  OBVIOUS
<1>0. /\ ConnInv(conn) /\ NothingLost /\ MessageInv
      /\ step \in {"receive", "nack", "answer", "answer fragment", "drain", "fragment"} /\ index \in Nat /\ todo \in Seq(Nat)
      /\ step \in {"receive", "nack"} => conn.queue = <<>>
      /\ seen \subseteq SeqsOf(conn.sent) /\ popped \subseteq conn.sent
  BY DEF SenderInv, StepInv
<1>s. ASSUME conn.sent \subseteq conn'.sent PROVE seen \subseteq SeqsOf(conn'.sent) /\ popped \subseteq conn'.sent
  BY <1>0, <1>s DEF SeqsOf
<1>u. ASSUME UNCHANGED conn
      PROVE  /\ Out(conn') = Out(conn) /\ SameCounters(conn, conn') /\ Grows(conn, conn') /\ ConnInv(conn')
             /\ conn'.sent = conn.sent /\ conn'.queue = conn.queue
  BY <1>0, <1>u DEF SameCounters, Grows
<1>1. CASE ReceiveNothing \/ NackDone
  <2>1. UNCHANGED <<conn, frame, index, todo, submitted, seen, popped>> /\ ~InFragments /\ step' = "drain" /\ ~InFragments'
    BY <1>1 DEF ReceiveNothing, NackDone, InFragments
  <2>2. MessageInv' /\ NothingLost' /\ ConnInv(conn')
    BY <1>0, <1>u, <2>1, SameMessages, SentIsKept
  <2> QED
    BY <1>0, <2>1, <2>2 DEF SenderInv, StepInv
<1>2. ASSUME NEW ns \in SUBSET seen, ReceiveAck(ns) PROVE SenderInv'
  <2>1. /\ ConnInv(conn') /\ conn'.sent = conn.sent /\ conn'.queue = conn.queue /\ Out(conn') = Out(conn)
        /\ SameCounters(conn, conn')
    BY <1>0, <1>2, DeductKeeps DEF ReceiveAck
  <2>2. UNCHANGED <<frame, index, todo, submitted, seen, popped>> /\ ~InFragments /\ step' = "drain" /\ ~InFragments'
    BY <1>2 DEF ReceiveAck, InFragments
  <2>3. MessageInv' /\ NothingLost'
    BY <1>0, <1>2, <2>1, <2>2, SameMessages, AckKeeps
  <2> QED
    BY <1>0, <2>1, <2>2, <2>3 DEF SenderInv, StepInv
<1>3. ASSUME NEW ns \in Lists(Missed), ReceiveNack(ns) PROVE SenderInv'
  <2>1. /\ UNCHANGED <<conn, frame, index, submitted, seen, popped>> /\ step = "receive" /\ step' = "nack" /\ todo' = ns
        /\ ~InFragments /\ ~InFragments'
    BY <1>3 DEF ReceiveNack, InFragments
  <2>2. ns \in Seq(Nat)
    <3>1. Missed \subseteq Nat
      <4>1. \A d \in conn.sent : d.seq \in Nat
        BY <1>0 DEF ConnInv, Connections, FrameSets
      <4> QED
        BY <4>1 DEF Missed, SeqsOf
    <3>2. PICK n \in 1 .. Acks : ns \in [1 .. n -> Missed]
      BY DEF Lists
    <3>3. n \in Nat /\ ns \in [1 .. n -> Nat]
      <4>1. n \in Nat
        BY BoundAssumption
      <4>2. \A p \in 1 .. n : ns[p] \in Nat
        BY <3>1, <3>2
      <4> QED
        BY <3>2, <4>1, <4>2
    <3> QED
      BY ONLY <3>3, FunctionIsSeq
  <2>3. MessageInv' /\ NothingLost' /\ ConnInv(conn')
    BY <1>0, <1>u, <2>1, SameMessages, SentIsKept
  <2> QED
    BY <1>0, <2>1, <2>2, <2>3 DEF SenderInv, StepInv
<1>4. CASE ResendNacked
  <2>1. /\ ConnInv(conn') /\ Out(conn') = Out(conn) /\ conn'.queue = conn.queue
        /\ conn.sent \subseteq conn'.sent /\ popped' \subseteq popped \cup conn.sent
        /\ SameCounters(conn, conn') /\ NothingLost'
    BY <1>0, <1>4, ResendKeeps
  <2>2. UNCHANGED <<step, frame, index, submitted, seen>> /\ todo # <<>> /\ todo' = Tail(todo)
    BY <1>4 DEF ResendNacked
  <2>3. MessageInv'
    <3>1. MessageInv /\ UNCHANGED <<submitted, frame, index>>
      BY <1>0, <2>2
    <3> QED
      BY ONLY <2>1, <2>2, <3>1, SameMessages DEF InFragments
  <2>4. Tail(todo) \in Seq(Nat)
    <3>1. todo \in Seq(Nat) /\ todo # <<>>
      BY <1>0, <2>2
    <3> QED
      BY ONLY <3>1
  <2> QED
    BY <1>0, <1>s, <2>1, <2>2, <2>3, <2>4 DEF SenderInv, StepInv
<1>5. ASSUME NEW m \in Messages(Sizes, {UNRELIABLE}), Room, Answer(m) PROVE SenderInv'
  <2>1. m \in Submitted /\ m.id = Cardinality(submitted) + 1
    BY <1>5, GivenMessage DEF UNRELIABLE
  <2>2. ~InFragments /\ AddToQueue(m, "answer", "answer fragment") /\ UNCHANGED <<todo, seen, popped>>
    BY <1>5 DEF Answer, AddToQueue, InFragments
  <2>3. ConnInv(conn') /\ Grows(conn, conn') /\ MessageInv' /\ step' \in {"answer", "answer fragment"} /\ index' \in Nat
    BY <2>1, <2>2, AddKeeps
  <2> QED
    BY <1>0, <1>s, <2>2, <2>3, SentIsKept DEF SenderInv, StepInv, Grows
<1>6. ASSUME NEW m \in Messages(Sizes, Reliabilities), Room, TakeMessage(m) PROVE SenderInv'
  <2>1. m \in Submitted /\ m.id = Cardinality(submitted) + 1
    BY <1>6, GivenMessage, MessageAssumption
  <2>2. ~InFragments /\ AddToQueue(m, "drain", "fragment") /\ UNCHANGED <<todo, seen, popped>>
    BY <1>6 DEF TakeMessage, AddToQueue, InFragments
  <2>3. ConnInv(conn') /\ Grows(conn, conn') /\ MessageInv' /\ step' \in {"drain", "fragment"} /\ index' \in Nat
    BY <2>1, <2>2, AddKeeps
  <2> QED
    BY <1>0, <1>s, <2>2, <2>3, SentIsKept DEF SenderInv, StepInv, Grows
<1>7. CASE SendFragment
  <2> DEFINE f == Fragment(frame, index, conn)
  <2>1. /\ InFragments /\ index < frame_count(frame) /\ index' = index + 1
        /\ UNCHANGED <<step, frame, todo, submitted, seen, popped>>
        /\ conn' = append_raknet_frame(Reliable(f, conn), TRUE, AdvancedReliable(f, conn))
    BY <1>7 DEF SendFragment
  <2>2. FrameOK(f) /\ f.reliable_frame_index = none
    BY <1>0, <2>1, FragmentIs DEF MessageInv
  <2> HIDE DEF f
  <2>3. /\ ConnInv(conn') /\ Grows(conn, conn') /\ SameCounters(conn, conn')
        /\ \E g : AlikeButIndex(g, f) /\ Out(conn') = Out(conn) \cup {g}
    BY <1>0, <2>1, <2>2, QueueFrame
  <2>4. MessageInv'
    BY <1>0, <2>1, <2>3, OneFragment DEF f, InFragments
  <2>5. NothingLost'
    BY <1>0, <2>1, <2>3, SentIsKept
  <2>6. conn.sent \subseteq conn'.sent /\ index' \in Nat
    <3>1. index' \in Nat
      <4>1. index \in Nat /\ index' = index + 1
        BY <1>0, <2>1
      <4> QED
        BY ONLY <4>1
    <3> QED
      BY <2>3, <3>1 DEF Grows, Sent
  <2>7. StepInv'
    BY <1>0, <1>s, <2>1, <2>6 DEF StepInv, InFragments
  <2> QED
    BY <2>3, <2>4, <2>5, <2>7 DEF SenderInv
<1>8. CASE FragmentsDone
  <2>1. MessageInv' /\ ConnInv(conn') /\ Grows(conn, conn')
    BY <1>0, <1>8, AllFragments
  <2>2. UNCHANGED <<todo, submitted, seen, popped>> /\ step' \in {"drain", "answer"} /\ index' = 0
    BY <1>8 DEF FragmentsDone
  <2> QED
    BY <1>0, <1>s, <2>1, <2>2, SentIsKept DEF SenderInv, StepInv, Grows
<1>9. CASE Update
  <2>1. ConnInv(conn') /\ conn'.queue = <<>> /\ Out(conn') = Out(conn) /\ Sent(conn, conn')
    BY <1>0, <1>9, SendQueueKeeps DEF Update
  <2>2. UNCHANGED <<frame, index, todo, submitted, seen, popped>> /\ ~InFragments /\ step' = "receive" /\ ~InFragments'
    BY <1>9 DEF Update, InFragments
  <2>3. MessageInv' /\ NothingLost'
    BY <1>0, <2>1, <2>2, SameMessages, SentIsKept DEF Sent
  <2> QED
    BY <1>0, <1>s, <2>1, <2>2, <2>3 DEF SenderInv, StepInv, Sent, Grows
<1>10. ASSUME NEW d \in conn.sent, PeerReceives(d) PROVE SenderInv'
  <2>1. UNCHANGED <<conn, step, frame, index, todo, submitted, popped>> /\ seen' = seen \cup {d.seq} /\ InFragments' = InFragments
    BY <1>10 DEF PeerReceives, InFragments
  <2>2. seen' \subseteq SeqsOf(conn.sent)
    BY <1>0, <2>1 DEF SeqsOf
  <2>3. MessageInv' /\ NothingLost' /\ ConnInv(conn')
    BY <1>0, <1>u, <2>1, SameMessages, SentIsKept
  <2> QED
    BY <1>0, <2>1, <2>2, <2>3 DEF SenderInv, StepInv
<1>11. CASE UNCHANGED vars
  <2>1. UNCHANGED <<conn, step, frame, index, todo, submitted, seen, popped>> /\ InFragments' = InFragments
    BY <1>11 DEF vars, InFragments
  <2>2. MessageInv' /\ NothingLost' /\ ConnInv(conn')
    BY <1>0, <1>u, <2>1, SameMessages, SentIsKept
  <2> QED
    BY <1>0, <2>1, <2>2 DEF SenderInv, StepInv
<1> QED
  BY <1>1, <1>2, <1>3, <1>4, <1>5, <1>6, <1>7, <1>8, <1>9, <1>10, <1>11 DEF Next

-----------------------------------------------------------------------------
(* What follows *)

LEMMA SenderType == SenderInv => TypeOK
<1> SUFFICES ASSUME SenderInv PROVE TypeOK
  OBVIOUS
<1>1. conn \in Connections /\ \A f \in Out(conn) : FrameOK(f)
  BY DEF SenderInv, ConnInv
<1>2. InFragments => frame \in Frames
  BY DEF SenderInv, MessageInv, CutInv
<1>3. submitted \subseteq Submitted
  BY DEF SenderInv, MessageInv, TallyInv
<1> QED
  BY <1>1, <1>2, <1>3 DEF TypeOK, SenderInv, StepInv

LEMMA SenderNumbers == SenderInv => NumbersIdentify
<1> SUFFICES ASSUME SenderInv PROVE NumbersIdentify
  OBVIOUS
<1>1. NumbersAreUnique
  BY DEF SenderInv, ConnInv, NumbersInv, NumbersAreUnique
<1>2. ReliableIndexIsUnique
  BY DEF SenderInv, ConnInv, ReliableInv, ReliableIndexIsUnique
<1> QED
  BY <1>1, <1>2, SenderType DEF NumbersIdentify

LEMMA SenderOrder == SenderInv => OrderFollowsSubmission
<1> SUFFICES ASSUME SenderInv, NEW f \in Out(conn), NEW m \in submitted, f.msg = m.id, is_ordered(m.reliability)
             PROVE  /\ f.order_channel = m.channel
                    /\ f.ordered_frame_index = Before(m, Ordered)
                    /\ f.sequenced_frame_index = IF is_sequenced(m.reliability) THEN Before(m, Sequenced) ELSE none
  BY DEF OrderFollowsSubmission
<1>1. PICK k \in submitted : Carries(f, k)
  BY DEF SenderInv, MessageInv, OrderInv
<1>2. k = m
  BY <1>1 DEF Carries, SenderInv, MessageInv, TallyInv
<1> QED
  BY <1>1, <1>2 DEF Carries

LEMMA SenderFits == SenderInv => DatagramsFitTheMtu
<1> SUFFICES ASSUME SenderInv, NEW fs \in conn.sent PROVE 20 + 8 + 4 + FramesSize(fs.frames) <= Mtu
  BY DEF DatagramsFitTheMtu
<1>1. 32 + FramesSize(fs.frames) <= Mtu
  BY DEF SenderInv, ConnInv, FitsInv, Fits
<1>2. FramesSize(fs.frames) \in Nat
  BY FramesSizeType DEF SenderInv, ConnInv, Connections, FrameSets
<1> QED
  BY <1>1, <1>2

\* At the end of a tick the queue is empty and no message is being cut, so that all that is out
\* is on the wire, and every message is whole.
LEMMA SenderWhole == ASSUME MaxMessages < CompoundIds, SenderInv PROVE WholeMessagesSent
<1> SUFFICES ASSUME step = "receive", NEW m \in submitted
             PROVE  LET mine == {f \in Wire(conn) : f.msg = m.id}
                    IN \/ InOnePiece(m, mine)
                       \/ /\ InPieces(m, mine)
                          /\ \A f, g \in mine : f.compound_id = g.compound_id
                          /\ \A f \in mine, g \in Wire(conn) : f.compound_id = g.compound_id => g.msg = m.id
  BY DEF WholeMessagesSent
<1> DEFINE mine == {f \in Wire(conn) : f.msg = m.id}
<1>1. Out(conn) = Wire(conn)
  BY EmptyRange DEF SenderInv, StepInv, Out
<1>2. mine = Mine(m)
  BY <1>1 DEF Mine
<1>3. InOnePiece(m, mine) \/ InPieces(m, mine)
  BY <1>2 DEF SenderInv, MessageInv, WholeInv, Cutting, InFragments
<1>4. \A f, g \in mine : f.compound_id = g.compound_id
  BY <1>1 DEF SenderInv, MessageInv, CompoundInv
<1>5. ASSUME InPieces(m, mine), NEW f \in mine, NEW g \in Wire(conn), f.compound_id = g.compound_id
      PROVE  g.msg = m.id
  <2>1. f.is_fragmented /\ f.msg = m.id /\ f \in Out(conn) /\ g \in Out(conn)
    BY <1>1, <1>5 DEF InPieces
  <2> QED
    BY <1>5, <2>1 DEF SenderInv, MessageInv, CompoundInv
<1> QED
  BY <1>3, <1>4, <1>5

LEMMA SenderInvariant == Spec => []SenderInv
  BY InitSender, SenderStep, PTL DEF Spec

-----------------------------------------------------------------------------

\* A number of a frame set, and the index of a reliable frame, mean one thing for ever, whatever ACKs
\* and NACKs come in whatever order: send_raknet_queue, handle_nack and add_to_raknet_queue advance the
\* counters with every use; and the fields are in their types.
THEOREM NumbersIdentifyAlways == Spec => []NumbersIdentify
  BY SenderInvariant, SenderNumbers, PTL

\* A frame that left the server has reached the peer or can still be sent again, except for what
\* handle_nack does with number 0: every frame set is remembered when it is sent
\* (append_raknet_recovery_queue), and leaves the recovery queue for an ACK, or to be sent once more.
THEOREM NothingIsLost == Spec => []NothingLost
<1>1. SenderInv => NothingLost
  BY DEF SenderInv
<1> QED
  BY <1>1, SenderInvariant, PTL

\* The order index of a frame is the number of ordered messages submitted before its message on its
\* channel, whatever was fragmented, resent or left in the queue meanwhile (add_to_raknet_queue).
THEOREM OrderIsSubmission == Spec => []OrderFollowsSubmission
  BY SenderInvariant, SenderOrder, PTL

\* No datagram, with its IP and UDP headers, is longer than the MTU the connection agreed on, resent
\* ones included: append_raknet_frame flushes before the frame that would not fit.
THEOREM NoDatagramTooLong == Spec => []DatagramsFitTheMtu
  BY SenderInvariant, SenderFits, PTL

\* When a tick ends every message is on the wire, in one frame or in fragments that put it together,
\* under a compound id of its own, as long as compound_id (a uint16_t) has not come round.
THEOREM MessagesAreWhole == ASSUME MaxMessages < CompoundIds PROVE Spec => []WholeMessagesSent
<1>1. SenderInv => WholeMessagesSent
  BY SenderWhole
<1> QED
  BY <1>1, SenderInvariant, PTL

-----------------------------------------------------------------------------
(* The codec of rakpacket.c: the sort keeps the numbers, the ranges stay apart, and what is decoded is
   what was acknowledged. *)


\* The numbers in the first k ranges of rs.
Covered(rs, k) == {n \in Nat : \E a \in 1..k : rs[a].first <= n /\ n <= rs[a].last}
Below(n) == {numbers[a] : a \in 1..(n - 1)}

\* The outer loop has put the i-1 smallest first, the inner one has compared
\* numbers[i] with all up to j-1.
Sorting ==
  /\ Distinct(numbers)
  /\ Elements(numbers) = given
  /\ pc = "sort" =>
       /\ i <= Count + 1 /\ i < j
       /\ i <= Count => j <= Count + 1
       /\ \A a, b \in 1..Count : a < i /\ a < b => numbers[a] < numbers[b]
       /\ i <= Count => \A b \in (i + 1)..(j - 1) : numbers[i] < numbers[b]
  /\ pc # "sort" => \A a, b \in 1..Count : a < b => numbers[a] < numbers[b]

\* The ranges written and the open one cover exactly the numbers scanned.
Scanning ==
  pc = "scan" =>
    /\ i \in 2..(Count + 1)
    /\ end_index = numbers[i - 1] /\ start_index <= end_index
    /\ Covered(records, Len(records)) \cup start_index..end_index = Below(i)
    /\ \A a \in 1..Len(records) : records[a].last + 1 < start_index

\* The numbers listed are those of the records read.
Decoding ==
  pc \in {"decode", "done"} =>
    /\ Covered(records, Len(records)) = given
    /\ i <= Len(records) + 1
    /\ Elements(decoded) = Covered(records, i - 1)
    /\ pc = "done" => i = Len(records) + 1

Empty == pc \in {"sort", "scan"} => decoded = <<>>
NoRecords == pc = "sort" => records = <<>>

\* Record a of rs ends, and its flag and its numbers are in the stream st where it says.
End(rs, st, a) == IF a = Len(rs) THEN Len(st) + 1 ELSE rs[a + 1].at
Holds(st, first, last, at, end) ==
  /\ at \in Nat \ {0} /\ end \in Nat /\ end <= Len(st) + 1
  /\ \/ first = last /\ st[at] = 1 /\ st[at + 1] = first /\ end = at + 2
     \/ first # last /\ st[at] = 0 /\ st[at + 1] = first /\ st[at + 2] = last /\ end = at + 3
Laid(rs, st) ==
  /\ rs = <<>> => st = <<>>
  /\ rs # <<>> => rs[1].at = 1
  /\ \A a \in 1..Len(rs) : Holds(st, rs[a].first, rs[a].last, rs[a].at, End(rs, st, a))

\* The reader is where the next record starts, or at the end.
Reading ==
  /\ Laid(records, stream)
  /\ pc \in {"decode", "done"} => offset = IF i = Len(records) + 1 THEN Len(stream) + 1 ELSE records[i].at
  /\ pc \notin {"decode", "done"} => offset = 1

AckInv == AckTypeOK /\ Sorting /\ Scanning /\ Decoding /\ RangesApart /\ Empty /\ NoRecords /\ Reading
------------------------------------------------------------------------------
LEMMA CountFacts == ASSUME AckTypeOK PROVE Count \in Nat \ {0} /\ DOMAIN numbers = 1..Count /\ \A a \in 1..Count : numbers[a] \in Nat
<1>1. numbers \in Seq(Numbers) /\ Len(numbers) > 0
  BY DEF AckTypeOK, Count
<1>2. Len(numbers) \in Nat /\ DOMAIN numbers = 1..Len(numbers)
  BY <1>1, LenProperties
<1>3. \A a \in 1..Len(numbers) : numbers[a] \in Numbers
  BY <1>1, ElementOfSeq
<1>4. \A a \in 1..Len(numbers) : numbers[a] \in Nat
  BY <1>3, NumbersAreNat
<1>5. Len(numbers) \in Nat \ {0}
  BY <1>1, <1>2
<1> QED
  BY <1>2, <1>4, <1>5 DEF Count

LEMMA AckInitInv == AckInit => AckInv
<1> SUFFICES ASSUME AckInit PROVE AckInv
  OBVIOUS
<1>1. PICK n \in 1..MaxCount : numbers \in [1..n -> Numbers]
  BY DEF AckInit
<1>2. numbers \in Seq(Numbers) /\ Len(numbers) = n
  BY <1>1, MaxCountIsNat
<1>3. given \subseteq Numbers
  BY <1>1 DEF AckInit, Elements
<1>4. AckTypeOK
  BY <1>2, <1>3 DEF AckInit, AckTypeOK, Count
<1>5. Sorting
  BY <1>1, <1>2, <1>4, CountFacts DEF AckInit, Sorting, Count
<1>6. Scanning /\ Decoding /\ RangesApart /\ Empty /\ NoRecords
  BY DEF AckInit, Scanning, Decoding, RangesApart, Empty, NoRecords
<1>7. Reading
  BY DEF AckInit, Reading, Laid
<1> QED
  BY <1>4, <1>5, <1>6, <1>7 DEF AckInv

Exchanged(s, a, b) == [s EXCEPT ![a] = s[b], ![b] = s[a]]

\* Exchanging two numbers keeps them all.
LEMMA ExchangeKeeps ==
  ASSUME NEW s, NEW a, NEW b, Distinct(s), a \in DOMAIN s, b \in DOMAIN s
  PROVE  /\ Elements(Exchanged(s, a, b)) = Elements(s)
         /\ Distinct(Exchanged(s, a, b))
         /\ DOMAIN Exchanged(s, a, b) = DOMAIN s
         /\ Exchanged(s, a, b)[a] = s[b] /\ Exchanged(s, a, b)[b] = s[a]
         /\ \A c \in DOMAIN s : c # a /\ c # b => Exchanged(s, a, b)[c] = s[c]
<1> DEFINE t == Exchanged(s, a, b)
<1>1. DOMAIN t = DOMAIN s
  BY DEF Exchanged
<1>2. t[a] = s[b] /\ t[b] = s[a] /\ \A c \in DOMAIN s : c # a /\ c # b => t[c] = s[c]
  BY DEF Exchanged
<1> HIDE DEF t
<1>3. Elements(t) \subseteq Elements(s)
  BY <1>1, <1>2 DEF Elements
<1>4. Elements(s) \subseteq Elements(t)
  <2> SUFFICES ASSUME NEW c \in DOMAIN s PROVE \E d \in DOMAIN s : t[d] = s[c]
    BY <1>1 DEF Elements
  <2> QED
    BY <1>2
<1>5. Distinct(t)
  BY <1>1, <1>2 DEF Distinct
<1> QED
  BY <1>1, <1>2, <1>3, <1>4, <1>5 DEF t

LEMMA SortInv == ASSUME AckInv, Sort PROVE AckInv'
<1>0. AckTypeOK /\ Sorting
  BY DEF AckInv
<1>1. Count \in Nat \ {0} /\ DOMAIN numbers = 1..Count /\ \A a \in 1..Count : numbers[a] \in Nat
  BY <1>0, CountFacts
<1>2. i \in 1..Count /\ j \in 1..Count /\ i < j /\ pc = "sort" /\ pc' = "sort" /\ i' = i /\ j' = j + 1
  BY <1>0, <1>1 DEF Sort, AckTypeOK, Sorting
<1>3. Distinct(numbers) /\ Elements(numbers) = given /\ given' = given
      /\ (\A a, b \in 1..Count : a < i /\ a < b => numbers[a] < numbers[b])
      /\ (\A b \in (i + 1)..(j - 1) : numbers[i] < numbers[b])
  BY <1>0, <1>1, <1>2 DEF Sorting, Sort
<1>4. /\ Elements(numbers') = given /\ Distinct(numbers') /\ DOMAIN numbers' = 1..Count
      /\ numbers' \in Seq(Numbers) /\ Len(numbers') = Count
      /\ \A a, b \in 1..Count : a < i /\ a < b => numbers'[a] < numbers'[b]
      /\ \A b \in (i + 1)..j : numbers'[i] < numbers'[b]
  <2>1. CASE numbers[i] > numbers[j]
    <3> DEFINE t == Exchanged(numbers, i, j)
    <3>1. numbers' = t
      BY <2>1 DEF Sort, Exchanged
    <3>2. i # j /\ Count \in Nat
      BY <1>1, <1>2
    <3>3. Elements(t) = Elements(numbers) /\ Distinct(t) /\ DOMAIN t = 1..Count
          /\ t[i] = numbers[j] /\ t[j] = numbers[i] /\ \A c \in 1..Count : c # i /\ c # j => t[c] = numbers[c]
      <4>1. Distinct(numbers) /\ i \in DOMAIN numbers /\ j \in DOMAIN numbers
        BY <1>1, <1>2, <1>3
      <4>2. /\ Elements(Exchanged(numbers, i, j)) = Elements(numbers)
            /\ Distinct(Exchanged(numbers, i, j))
            /\ DOMAIN Exchanged(numbers, i, j) = DOMAIN numbers
            /\ Exchanged(numbers, i, j)[i] = numbers[j] /\ Exchanged(numbers, i, j)[j] = numbers[i]
            /\ \A c \in DOMAIN numbers : c # i /\ c # j => Exchanged(numbers, i, j)[c] = numbers[c]
        BY <4>1, ExchangeKeeps
      <4> HIDE DEF t
      <4> QED
        BY <1>1, <4>2 DEF t
    <3>4. t \in Seq(Numbers) /\ Len(t) = Count
      BY <1>0, <1>1, <1>2 DEF AckTypeOK, Count, Exchanged
    <3> HIDE DEF t
    <3>5. ASSUME NEW a \in 1..Count, NEW b \in 1..Count, a < i, a < b PROVE t[a] < t[b]
      <4>1. t[a] = numbers[a] /\ numbers[a] < numbers[b] /\ numbers[a] < numbers[i] /\ numbers[a] < numbers[j]
        BY <1>2, <1>3, <3>3, <3>5
      <4>2. t[b] \in {numbers[b], numbers[i], numbers[j]}
        BY <1>2, <3>3
      <4> QED
        BY <4>1, <4>2
    <3>6. ASSUME NEW b \in (i + 1)..j PROVE t[i] < t[b]
      <4>1. CASE b = j
        BY <1>1, <1>2, <2>1, <3>3, <4>1
      <4>2. CASE b # j
        <5>1. b \in 1..Count /\ b # i /\ numbers[i] < numbers[b]
          BY <1>1, <1>2, <1>3, <3>6, <4>2
        <5> QED
          BY <1>1, <1>2, <2>1, <3>3, <4>2, <5>1
      <4> QED
        BY <4>1, <4>2
    <3> QED
      BY <1>3, <3>1, <3>3, <3>4, <3>5, <3>6
  <2>2. CASE ~(numbers[i] > numbers[j])
    <3>1. numbers' = numbers
      BY <2>2 DEF Sort
    <3>2. numbers[i] # numbers[j]
      BY <1>1, <1>2, <1>3 DEF Distinct
    <3>3. numbers[i] < numbers[j]
      BY <1>1, <1>2, <2>2, <3>2
    <3>4. numbers \in Seq(Numbers) /\ Len(numbers) = Count
      BY <1>0 DEF AckTypeOK, Count
    <3>5. \A b \in (i + 1)..j : b = j \/ b \in (i + 1)..(j - 1)
      BY ONLY <1>1, <1>2
    <3>6. \A b \in (i + 1)..j : numbers[i] < numbers[b]
      BY ONLY <1>3, <3>3, <3>5
    <3> QED
      BY ONLY <1>1, <1>3, <3>1, <3>4, <3>6
  <2> QED
    BY <2>1, <2>2
<1>5. AckTypeOK'
  BY <1>0, <1>1, <1>2, <1>4 DEF AckTypeOK, Count, Sort
<1>6. Sorting'
  BY <1>1, <1>2, <1>3, <1>4 DEF Sorting, Count
<1> QED
  BY <1>2, <1>5, <1>6 DEF AckInv, Sort, Scanning, Decoding, RangesApart, Empty, NoRecords, Reading

LEMMA SortNextInv == ASSUME AckInv, SortNext PROVE AckInv'
<1> USE DEF AckInv
<1>1. Count \in Nat \ {0} /\ DOMAIN numbers = 1..Count /\ \A a \in 1..Count : numbers[a] \in Nat
  BY CountFacts
<1>2. i \in 1..Count /\ j = Count + 1 /\ pc = "sort" /\ pc' = "sort" /\ i' = i + 1 /\ j' = i + 2 /\ numbers' = numbers
  BY <1>1 DEF SortNext, AckTypeOK, Sorting
<1>3. AckTypeOK'
  BY <1>2 DEF AckTypeOK, Count, SortNext
<1>4. Sorting'
  BY <1>1, <1>2 DEF Sorting, SortNext, Count
<1> QED
  BY <1>2, <1>3, <1>4 DEF SortNext, Scanning, Decoding, RangesApart, Empty, NoRecords, Reading

LEMMA SortDoneInv == ASSUME AckInv, SortDone PROVE AckInv'
<1> USE DEF AckInv
<1>1. Count \in Nat \ {0} /\ DOMAIN numbers = 1..Count /\ \A a \in 1..Count : numbers[a] \in Nat
  BY CountFacts
<1>2. /\ i = Count + 1 /\ pc' = "scan" /\ i' = 2 /\ numbers' = numbers /\ records' = <<>>
      /\ start_index' = numbers[1] /\ end_index' = numbers[1] /\ numbers[1] \in Nat
  BY <1>1 DEF SortDone, AckTypeOK, Sorting, NoRecords
<1>3. AckTypeOK'
  BY <1>2 DEF AckTypeOK, Count, SortDone
<1>4. Sorting'
  BY <1>1, <1>2 DEF Sorting, SortDone, Count
<1>5. Scanning'
  <2>1. Covered(<<>>, Len(<<>>)) = {}
    BY DEF Covered
  <2>2. start_index'..end_index' = {numbers[1]} /\ Below(i)' = {numbers[1]}
    BY <1>2 DEF Below
  <2>3. (Covered(records, Len(records)) \cup start_index..end_index)' = Below(i)'
    BY <1>2, <2>1, <2>2
  <2> QED
    BY <1>1, <1>2, <2>3 DEF Scanning, Count
<1> QED
  BY <1>2, <1>3, <1>4, <1>5 DEF SortDone, Decoding, RangesApart, Empty, NoRecords, Reading

\* One more record covers the numbers of its range besides.
LEMMA CoveredAppend ==
  ASSUME NEW rs \in Seq(Ranges), NEW r \in Ranges
  PROVE  Covered(Append(rs, r), Len(Append(rs, r))) = Covered(rs, Len(rs)) \cup r.first..r.last
<1> DEFINE t == Append(rs, r)
<1>1. Len(t) = Len(rs) + 1 /\ Len(rs) \in Nat /\ t[Len(rs) + 1] = r /\ \A a \in 1..Len(rs) : t[a] = rs[a]
  OBVIOUS
<1> HIDE DEF t
<1>2. ASSUME NEW n \in Nat
      PROVE (\E a \in 1..Len(t) : t[a].first <= n /\ n <= t[a].last)
              <=> (\E a \in 1..Len(rs) : rs[a].first <= n /\ n <= rs[a].last) \/ (r.first <= n /\ n <= r.last)
  <2> DEFINE In(q) == q.first <= n /\ n <= q.last
  <2>1. 1..Len(t) = 1..Len(rs) \cup {Len(rs) + 1}
    BY <1>1
  <2>2. (\E a \in 1..Len(t) : In(t[a])) <=> (\E a \in 1..Len(rs) : In(t[a])) \/ In(t[Len(rs) + 1])
    BY <2>1, Zenon
  <2>3. (\E a \in 1..Len(rs) : In(t[a])) <=> (\E a \in 1..Len(rs) : In(rs[a]))
    BY <1>1, Zenon
  <2>4. In(t[Len(rs) + 1]) <=> In(r)
    BY <1>1, Zenon
  <2> QED
    BY <2>2, <2>3, <2>4
<1>3. r.first..r.last = {n \in Nat : r.first <= n /\ n <= r.last}
  BY DEF Ranges
<1> QED
  BY <1>2, <1>3 DEF Covered, t

\* A range that starts after a gap goes to the end.
Apart(rs) ==
  \A a \in DOMAIN rs :
    /\ rs[a].first <= rs[a].last
    /\ a + 1 \in DOMAIN rs => rs[a].last + 1 < rs[a + 1].first

LEMMA ApartAppend ==
  ASSUME NEW rs \in Seq(Ranges), NEW r \in Ranges,
         Apart(rs), r.first <= r.last, \A a \in 1..Len(rs) : rs[a].last + 1 < r.first
  PROVE  Apart(Append(rs, r))
<1> DEFINE t == Append(rs, r)
<1>1. Len(t) = Len(rs) + 1 /\ Len(rs) \in Nat /\ t[Len(rs) + 1] = r /\ \A a \in 1..Len(rs) : t[a] = rs[a]
  OBVIOUS
<1>2. DOMAIN t = 1..Len(t) /\ DOMAIN rs = 1..Len(rs)
  OBVIOUS
<1> HIDE DEF t
<1>3. ASSUME NEW a \in 1..Len(t) PROVE t[a].first <= t[a].last
  <2>1. CASE a = Len(rs) + 1
    BY <1>1, <2>1
  <2>2. CASE a # Len(rs) + 1
    <3>1. a \in 1..Len(rs) /\ t[a] = rs[a]
      BY <1>1, <2>2
    <3> QED
      BY <1>2, <3>1 DEF Apart
  <2> QED
    BY <2>1, <2>2
<1>4. ASSUME NEW a \in 1..Len(t), a + 1 \in 1..Len(t) PROVE t[a].last + 1 < t[a + 1].first
  <2>1. a \in 1..Len(rs) /\ t[a] = rs[a]
    BY <1>1, <1>4
  <2>2. CASE a = Len(rs)
    BY <1>1, <2>1, <2>2
  <2>3. CASE a # Len(rs)
    <3>1. a + 1 \in 1..Len(rs) /\ t[a + 1] = rs[a + 1]
      BY <1>1, <1>4, <2>3
    <3> QED
      BY <1>2, <2>1, <3>1 DEF Apart
  <2> QED
    BY <2>2, <2>3
<1> QED
  BY <1>2, <1>3, <1>4 DEF Apart, t

\* A concatenation holds what its two parts hold.
LEMMA ConcatKeeps ==
  ASSUME NEW s \in Seq(Nat), NEW t \in Seq(Nat)
  PROVE  Elements(s \o t) = Elements(s) \cup Elements(t)
<1>1. Elements(s \o t) \subseteq Elements(s) \cup Elements(t)
  BY DEF Elements
<1>2. ASSUME NEW a \in DOMAIN s PROVE a \in DOMAIN (s \o t) /\ (s \o t)[a] = s[a]
  OBVIOUS
<1>3. ASSUME NEW a \in DOMAIN t PROVE Len(s) + a \in DOMAIN (s \o t) /\ (s \o t)[Len(s) + a] = t[a]
  OBVIOUS
<1>4. Elements(s) \subseteq Elements(s \o t)
  BY <1>2 DEF Elements
<1>5. Elements(t) \subseteq Elements(s \o t)
  BY <1>3 DEF Elements
<1> QED
  BY <1>1, <1>4, <1>5

\* What a stream holds it holds when it has grown.
LEMMA GrownHolds ==
  ASSUME NEW st, NEW t, NEW first, NEW last, NEW at, NEW end, Holds(st, first, last, at, end),
         Len(st) \in Nat, Len(t) \in Nat, Len(st) <= Len(t), \A a \in 1..Len(st) : t[a] = st[a]
  PROVE  Holds(t, first, last, at, end)
<1> DEFINE n == Len(st)
           m == Len(t)
<1>1. n \in Nat /\ m \in Nat /\ n <= m /\ (\A a \in 1..n : t[a] = st[a]) /\ at \in Nat \ {0} /\ end \in Nat /\ end <= n + 1
  BY DEF Holds
<1>2. CASE first = last /\ st[at] = 1 /\ st[at + 1] = first /\ end = at + 2
  <2> HIDE DEF n, m
  <2>1. at \in 1..n /\ at + 1 \in 1..n /\ end <= m + 1
    BY ONLY <1>1, <1>2
  <2>2. t[at] = 1 /\ t[at + 1] = first
    BY ONLY <1>1, <1>2, <2>1
  <2> QED
    BY ONLY <1>1, <1>2, <2>1, <2>2 DEF Holds, m
<1>3. CASE first # last /\ st[at] = 0 /\ st[at + 1] = first /\ st[at + 2] = last /\ end = at + 3
  <2> HIDE DEF n, m
  <2>1. at \in 1..n /\ at + 1 \in 1..n /\ at + 2 \in 1..n /\ end <= m + 1
    BY ONLY <1>1, <1>3
  <2>2. t[at] = 0 /\ t[at + 1] = first /\ t[at + 2] = last
    BY ONLY <1>1, <1>3, <2>1
  <2> QED
    BY ONLY <1>1, <1>3, <2>1, <2>2 DEF Holds, m
<1> QED
  BY <1>2, <1>3 DEF Holds

\* Whatever is put is held.
HoldsBesides(t, st, first, last) ==
  /\ Holds(t, first, last, Len(st) + 1, Len(t) + 1)
  /\ Len(st) \in Nat /\ Len(t) \in Nat /\ Len(st) <= Len(t) /\ \A a \in 1..Len(st) : t[a] = st[a]

LEMMA PutHolds ==
  ASSUME NEW st \in Seq(Nat), NEW first \in Nat, NEW last \in Nat
  PROVE  HoldsBesides(st \o Items(first, last), st, first, last)
<1> DEFINE t == st \o Items(first, last)
           n == Len(st)
<1>1. CASE first = last
  <2>1. t = st \o <<1, first>>
    BY <1>1 DEF Items
  <2>2. /\ n \in Nat /\ Len(t) = n + 2 /\ (\A a \in 1..n : t[a] = st[a])
        /\ t[n + 1] = 1 /\ t[n + 2] = first
    BY <2>1
  <2> HIDE DEF t, n
  <2>3. (n + 1) + 1 = n + 2 /\ (n + 1) + 2 = (n + 2) + 1 /\ n + 1 \in Nat \ {0} /\ (n + 2) + 1 \in Nat
        /\ n + 2 \in Nat /\ n <= n + 2 /\ (n + 2) + 1 <= (n + 2) + 1
    BY ONLY <2>2
  <2>4. Holds(t, first, last, n + 1, (n + 2) + 1)
    BY ONLY <1>1, <2>2, <2>3, Zenon DEF Holds
  <2> QED
    BY ONLY <2>2, <2>3, <2>4, Zenon DEF t, n, HoldsBesides
<1>2. CASE first # last
  <2>1. t = st \o <<0, first, last>>
    BY <1>2 DEF Items
  <2>2. /\ n \in Nat /\ Len(t) = n + 3 /\ (\A a \in 1..n : t[a] = st[a])
        /\ t[n + 1] = 0 /\ t[n + 2] = first /\ t[n + 3] = last
    BY <2>1
  <2> HIDE DEF t, n
  <2>3. (n + 1) + 1 = n + 2 /\ (n + 1) + 2 = n + 3 /\ (n + 1) + 3 = (n + 3) + 1 /\ n + 1 \in Nat \ {0}
        /\ (n + 3) + 1 \in Nat /\ n + 3 \in Nat /\ n <= n + 3 /\ (n + 3) + 1 <= (n + 3) + 1
    BY ONLY <2>2
  <2>4. Holds(t, first, last, n + 1, (n + 3) + 1)
    BY ONLY <1>2, <2>2, <2>3, Zenon DEF Holds
  <2> QED
    BY ONLY <2>2, <2>3, <2>4, Zenon DEF t, n, HoldsBesides
<1> QED
  BY <1>1, <1>2

\* One more range is put after the others.
LEMMA LaidAppend ==
  ASSUME NEW rs \in Seq(Ranges), NEW st \in Seq(Nat), Laid(rs, st), NEW first \in Nat, NEW last \in Nat
  PROVE  Laid(Append(rs, [first |-> first, last |-> last, at |-> Len(st) + 1]), st \o Items(first, last))
<1> DEFINE r == [first |-> first, last |-> last, at |-> Len(st) + 1]
           rt == Append(rs, r)
           t == st \o Items(first, last)
           n == Len(rs)
<1>1. /\ Len(rt) = n + 1 /\ n \in Nat /\ rt[n + 1] = r /\ (\A a \in 1..n : rt[a] = rs[a]) /\ rt # <<>>
      /\ rs = <<>> <=> n = 0
  <2>1. r \in Ranges
    BY DEF Ranges
  <2> HIDE DEF r
  <2> QED
    BY <2>1
<1>2. r.first = first /\ r.last = last /\ r.at = Len(st) + 1
  OBVIOUS
<1>3. /\ Holds(t, first, last, Len(st) + 1, Len(t) + 1)
      /\ Len(st) \in Nat /\ Len(t) \in Nat /\ Len(st) <= Len(t) /\ \A a \in 1..Len(st) : t[a] = st[a]
  <2>1. HoldsBesides(t, st, first, last)
    BY PutHolds, Zenon
  <2> HIDE DEF t
  <2> QED
    BY <2>1, Zenon DEF HoldsBesides
<1>4. /\ rs = <<>> => st = <<>>
      /\ rs # <<>> => rs[1].at = 1
      /\ \A a \in 1..n : Holds(st, rs[a].first, rs[a].last, rs[a].at, End(rs, st, a))
  BY DEF Laid
<1>5. Len(<<>>) + 1 = 1
  OBVIOUS
<1> HIDE DEF r, rt, t, n
<1>6. rt[1].at = 1
  <2>1. CASE rs = <<>>
    <3>1. n + 1 = 1
      BY ONLY <1>1, <2>1
    <3> QED
      BY ONLY <1>1, <1>2, <1>4, <1>5, <2>1, <3>1, Zenon
  <2>2. CASE rs # <<>>
    <3>1. 1 \in 1..n
      BY ONLY <1>1, <2>2
    <3> QED
      BY ONLY <1>1, <1>4, <2>2, <3>1, Zenon
  <2> QED
    BY <2>1, <2>2
<1>7. ASSUME NEW a \in 1..(n + 1) PROVE Holds(t, rt[a].first, rt[a].last, rt[a].at, End(rt, t, a))
  <2>1. CASE a = n + 1
    BY ONLY <1>1, <1>2, <1>3, <2>1, Zenon DEF End
  <2>2. CASE a # n + 1
    <3>1. a \in 1..n /\ (a # n => a + 1 \in 1..n) /\ a \in Int
      BY ONLY <1>1, <1>7, <2>2
    <3>2. End(rt, t, a) = End(rs, st, a)
      <4>1. End(rs, st, a) = IF a = n THEN Len(st) + 1 ELSE rs[a + 1].at
        BY Zenon DEF End, n
      <4>2. End(rt, t, a) = IF a = n + 1 THEN Len(t) + 1 ELSE rt[a + 1].at
        BY <1>1, Zenon DEF End
      <4>3. CASE a = n
        BY ONLY <1>1, <1>2, <2>2, <4>1, <4>2, <4>3, Zenon
      <4>4. CASE a # n
        BY ONLY <1>1, <2>2, <3>1, <4>1, <4>2, <4>4, Zenon
      <4> QED
        BY <4>3, <4>4
    <3>3. Holds(st, rs[a].first, rs[a].last, rs[a].at, End(rs, st, a))
      BY ONLY <1>4, <3>1, Zenon
    <3>4. Holds(t, rs[a].first, rs[a].last, rs[a].at, End(rs, st, a))
      BY ONLY <1>3, <3>3, GrownHolds, Zenon
    <3> QED
      BY ONLY <1>1, <3>1, <3>2, <3>4, Zenon
  <2> QED
    BY <2>1, <2>2
<1>8. Laid(rt, t)
  BY <1>1, <1>6, <1>7, Zenon DEF Laid
<1> QED
  BY <1>8 DEF r, rt, t

\* put_packet_acknowledge puts the open range.
LEMMA PutRangeKeeps ==
  ASSUME records \in Seq(Ranges), stream \in Seq(Nat), Laid(records, stream),
         start_index \in Nat, end_index \in Nat, PutRange
  PROVE  /\ Record(start_index, end_index) \in Ranges
         /\ records' = Append(records, Record(start_index, end_index))
         /\ stream' \in Seq(Nat) /\ Laid(records', stream')
<1>1. stream' = stream \o Items(start_index, end_index) /\ records' = Append(records, Record(start_index, end_index))
  BY DEF PutRange
<1>2. Items(start_index, end_index) \in Seq(Nat)
  BY DEF Items
<1>3. Laid(records', stream')
  BY <1>1, LaidAppend DEF Record
<1>4. Record(start_index, end_index) \in Ranges
  BY DEF Record, Ranges
<1>5. stream' \in Seq(Nat)
  BY <1>1, <1>2
<1> QED
  BY <1>1, <1>3, <1>4, <1>5

LEMMA ExtendInv == ASSUME AckInv, Extend PROVE AckInv'
<1> USE DEF AckInv
<1>1. Count \in Nat \ {0} /\ DOMAIN numbers = 1..Count /\ \A a \in 1..Count : numbers[a] \in Nat
  BY CountFacts
<1>2. /\ i \in 2..Count /\ pc = "scan" /\ pc' = "scan" /\ i' = i + 1 /\ numbers' = numbers
      /\ records' = records /\ start_index' = start_index /\ end_index' = numbers[i]
      /\ numbers[i] = end_index + 1 /\ start_index <= end_index /\ end_index \in Nat /\ start_index \in Nat
  BY <1>1 DEF Extend, AckTypeOK, Scanning, diff
<1>3. AckTypeOK'
  BY <1>1, <1>2 DEF AckTypeOK, Count, Extend
<1>4. Sorting'
  BY <1>2 DEF Sorting, Extend, Count
<1>5. Scanning'
  <2>1. Below(i)' = Below(i) \cup {numbers[i]}
    BY <1>2 DEF Below
  <2>2. start_index..(end_index + 1) = start_index..end_index \cup {end_index + 1}
    BY <1>2
  <2>3. Covered(records, Len(records)) \cup start_index..end_index = Below(i)
    BY <1>2 DEF Scanning
  <2>4. (Covered(records, Len(records)) \cup start_index..end_index)' = Below(i)'
    BY <1>2, <2>1, <2>2, <2>3
  <2> QED
    BY <1>1, <1>2, <2>4 DEF Scanning, Count
<1> QED
  BY <1>2, <1>3, <1>4, <1>5 DEF Extend, Decoding, RangesApart, Empty, NoRecords, Reading

LEMMA CloseInv == ASSUME AckInv, Close PROVE AckInv'
<1> USE DEF AckInv
<1>1. Count \in Nat \ {0} /\ DOMAIN numbers = 1..Count /\ \A a \in 1..Count : numbers[a] \in Nat
  BY CountFacts
<1>2. /\ i \in 2..Count /\ pc = "scan" /\ pc' = "scan" /\ i' = i + 1 /\ numbers' = numbers
      /\ start_index' = numbers[i] /\ end_index' = numbers[i]
      /\ end_index + 1 < numbers[i] /\ start_index <= end_index /\ end_index \in Nat /\ start_index \in Nat
      /\ records \in Seq(Ranges)
      /\ \A a \in 1..Len(records) : records[a].last + 1 < start_index
  BY <1>1 DEF Close, AckTypeOK, Scanning, diff
<1>3. /\ records' = Append(records, Record(start_index, end_index)) /\ Record(start_index, end_index) \in Ranges
      /\ stream' \in Seq(Nat) /\ Laid(records', stream') /\ UNCHANGED <<j, offset, decoded, given>>
  BY <1>2, PutRangeKeeps DEF Close, AckTypeOK, Reading
<1>4. AckTypeOK'
  <2>1. AckTypeOK
    OBVIOUS
  <2>2. records' \in Seq(Ranges)
    BY ONLY <1>2, <1>3
  <2>3. start_index' \in Nat /\ end_index' \in Nat /\ i' \in Nat \ {0}
    BY ONLY <1>1, <1>2
  <2>4. /\ given' \subseteq Numbers /\ numbers' \in Seq(Numbers) /\ Count' > 0
        /\ j' \in Nat \ {0} /\ offset' \in Nat /\ decoded' \in Seq(Nat)
    BY ONLY <1>2, <1>3, <2>1 DEF AckTypeOK, Count
  <2> QED
    BY ONLY <1>2, <1>3, <2>2, <2>3, <2>4 DEF AckTypeOK
<1>5. Sorting'
  BY <1>2 DEF Sorting, Close, Count
<1>6. /\ Len(records') = Len(records) + 1 /\ Len(records) \in Nat
      /\ \A a \in 1..Len(records) : records'[a] = records[a]
      /\ records'[Len(records) + 1].first = start_index /\ records'[Len(records) + 1].last = end_index
  BY <1>2, <1>3 DEF Record
<1>7. \A a \in 1..Len(records) : records[a].first \in Nat /\ records[a].last \in Nat
  <2>1. \A a \in 1..Len(records) : records[a] \in Ranges
    BY <1>2, ElementOfSeq
  <2> QED
    BY <2>1 DEF Ranges
<1>8. Scanning'
  <2>1. Below(i)' = Below(i) \cup {numbers[i]}
    BY <1>2 DEF Below
  <2>2. Covered(records', Len(records')) = Covered(records, Len(records)) \cup start_index..end_index
    BY <1>2, <1>3, CoveredAppend DEF Record
  <2>3. Covered(records, Len(records)) \cup start_index..end_index = Below(i)
    BY <1>2 DEF Scanning
  <2>4. numbers[i]..numbers[i] = {numbers[i]}
    BY <1>1, <1>2
  <2>5. (Covered(records, Len(records)) \cup start_index..end_index)' = Below(i)'
    BY <1>2, <2>1, <2>2, <2>3, <2>4
  <2>6. ASSUME NEW a \in 1..Len(records') PROVE records'[a].last + 1 < numbers[i]
    <3>1. CASE a = Len(records) + 1
      BY <1>1, <1>2, <1>6, <3>1
    <3>2. CASE a # Len(records) + 1
      <4>1. a \in 1..Len(records) /\ records'[a] = records[a]
        BY <1>6, <3>2
      <4>2. records[a].last + 1 < start_index /\ records[a].last \in Nat
        BY <1>2, <1>7, <4>1
      <4>3. numbers[i] \in Nat /\ start_index \in Nat /\ end_index \in Nat /\ start_index <= end_index /\ end_index + 1 < numbers[i]
        BY <1>1, <1>2
      <4>4. records[a].last + 1 < numbers[i]
        BY <4>2, <4>3
      <4> QED
        BY <4>1, <4>4
    <3> QED
      BY <3>1, <3>2
  <2>7. i' \in 2..(Count' + 1) /\ end_index' = numbers'[i' - 1] /\ start_index' <= end_index' /\ start_index' = numbers[i]
    BY <1>1, <1>2 DEF Count
  <2> QED
    BY <2>5, <2>6, <2>7 DEF Scanning
<1>9. RangesApart'
  BY <1>2, <1>3, ApartAppend DEF Apart, RangesApart, Record
<1> QED
  BY <1>2, <1>3, <1>4, <1>5, <1>8, <1>9 DEF Decoding, Empty, NoRecords, Reading

LEMMA ScanDoneInv == ASSUME AckInv, ScanDone PROVE AckInv'
<1> USE DEF AckInv
<1>1. Count \in Nat \ {0} /\ DOMAIN numbers = 1..Count /\ \A a \in 1..Count : numbers[a] \in Nat
  BY CountFacts
<1>2. /\ i = Count + 1 /\ pc = "scan" /\ pc' = "decode" /\ i' = 1 /\ numbers' = numbers /\ given' = given
      /\ start_index <= end_index /\ end_index \in Nat /\ start_index \in Nat
      /\ records \in Seq(Ranges) /\ decoded' = <<>>
      /\ Covered(records, Len(records)) \cup start_index..end_index = Below(i)
      /\ \A a \in 1..Len(records) : records[a].last + 1 < start_index
  BY <1>1 DEF ScanDone, AckTypeOK, Scanning, Empty
<1>3. /\ records' = Append(records, Record(start_index, end_index)) /\ Record(start_index, end_index) \in Ranges
      /\ stream' \in Seq(Nat) /\ Laid(records', stream') /\ UNCHANGED <<j, offset, start_index, end_index>>
  BY <1>2, PutRangeKeeps DEF ScanDone, AckTypeOK, Reading
<1>4. AckTypeOK'
  <2>1. AckTypeOK
    OBVIOUS
  <2>2. records' \in Seq(Ranges) /\ decoded' \in Seq(Nat)
    BY ONLY <1>2, <1>3
  <2>3. /\ given' \subseteq Numbers /\ numbers' \in Seq(Numbers) /\ Count' > 0
        /\ j' \in Nat \ {0} /\ offset' \in Nat /\ start_index' \in Nat /\ end_index' \in Nat
    BY ONLY <1>2, <1>3, <2>1 DEF AckTypeOK, Count
  <2> QED
    BY ONLY <1>2, <1>3, <2>2, <2>3 DEF AckTypeOK
<1>5. Sorting'
  BY <1>2 DEF Sorting, ScanDone, Count
<1>6. Covered(records', Len(records')) = given
  <2>1. Covered(records', Len(records')) = Covered(records, Len(records)) \cup start_index..end_index
    BY <1>2, <1>3, CoveredAppend DEF Record
  <2>2. Below(Count + 1) = Elements(numbers)
    BY <1>1 DEF Below, Elements
  <2> QED
    BY <1>2, <2>1, <2>2 DEF Sorting
<1>7. RangesApart'
  BY <1>2, <1>3, ApartAppend DEF Apart, RangesApart, Record
<1>8. Decoding'
  <2>1. Elements(<<>>) = {} /\ Covered(records', 0) = {}
    BY DEF Elements, Covered
  <2>2. Len(records') \in Nat
    BY <1>2, <1>3
  <2>3. i' - 1 = 0 /\ i' <= Len(records') + 1 /\ pc' # "done"
    BY <1>2, <2>2
  <2>4. Elements(decoded') = Covered(records', i' - 1)
    BY <1>2, <2>1, <2>3
  <2> QED
    BY <1>2, <1>6, <2>3, <2>4 DEF Decoding
<1>9. Reading'
  <2>1. Len(records') \in Nat \ {0} /\ records' # <<>>
    BY <1>2, <1>3
  <2>2. offset' = 1 /\ records'[1].at = 1
    BY <1>2, <1>3, <2>1 DEF Reading, Laid
  <2> QED
    BY <1>2, <1>3, <2>1, <2>2 DEF Reading
<1> QED
  BY <1>2, <1>4, <1>5, <1>7, <1>8, <1>9 DEF Scanning, Empty, NoRecords

LEMMA DecodeInv == ASSUME AckInv, Decode PROVE AckInv'
<1> USE DEF AckInv
<1>1. /\ pc = "decode" /\ pc' = "decode" /\ i \in 1..Len(records) /\ i' = i + 1
      /\ records' = records /\ numbers' = numbers /\ given' = given
      /\ records \in Seq(Ranges) /\ Len(records) \in Nat /\ decoded \in Seq(Nat)
      /\ Covered(records, Len(records)) = given
      /\ Elements(decoded) = Covered(records, i - 1)
  BY DEF Decode, AckTypeOK, Decoding
<1> DEFINE first == records[i].first
           last == records[i].last
           Listed == FromTo(first, last)
<1>2. records[i] \in Ranges /\ first <= last
  <2>1. records[i] \in Ranges
    BY <1>1, ElementOfSeq
  <2>2. i \in DOMAIN records
    BY <1>1
  <2> QED
    BY <2>1, <2>2 DEF RangesApart
<1>3. first \in Nat /\ last \in Nat /\ first <= last
  BY <1>2 DEF Ranges
<1>4. decoded' = decoded \o Listed /\ offset' = End(records, stream, i)
  <2>1. Holds(stream, first, last, records[i].at, End(records, stream, i)) /\ offset = records[i].at
    BY <1>1 DEF Reading, Laid
  <2>2. CASE first = last
    <3>1. stream[offset] = 1 /\ stream[offset + 1] = first /\ End(records, stream, i) = offset + 2
      BY <2>1, <2>2 DEF Holds
    <3>2. decoded' = Append(decoded, first) /\ offset' = offset + 2
      BY <3>1 DEF Decode
    <3>3. Listed = <<first>>
      BY <1>3, <2>2 DEF FromTo
    <3>4. Append(decoded, first) = decoded \o <<first>>
      BY <1>1, <1>3
    <3> QED
      BY <3>1, <3>2, <3>3, <3>4
  <2>3. CASE first # last
    <3>1. /\ stream[offset] = 0 /\ stream[offset + 1] = first /\ stream[offset + 2] = last
          /\ End(records, stream, i) = offset + 3
      BY <2>1, <2>3 DEF Holds
    <3> QED
      BY <3>1 DEF Decode
  <2> QED
    BY <2>2, <2>3
<1> HIDE DEF first, last
<1>5. /\ Listed \in Seq(Nat) /\ Len(Listed) = last - first + 1
      /\ Listed = [n \in 1..(last - first + 1) |-> first + n - 1] /\ DOMAIN Listed = 1..(last - first + 1)
  BY <1>3 DEF FromTo
<1>6. Elements(Listed) = first..last
  <2>1. ASSUME NEW x \in first..last PROVE \E n \in 1..(last - first + 1) : first + n - 1 = x
    <3>1. x - first + 1 \in 1..(last - first + 1) /\ first + (x - first + 1) - 1 = x
      BY <1>3
    <3> QED
      BY <3>1
  <2>2. ASSUME NEW n \in 1..(last - first + 1) PROVE first + n - 1 \in first..last
    BY <1>3
  <2>3. Elements(Listed) = {first + n - 1 : n \in 1..(last - first + 1)}
    BY <1>5, Zenon DEF Elements
  <2> QED
    BY ONLY <1>3, <2>1, <2>2, <2>3
<1>7. Elements(decoded') = Elements(decoded) \cup Elements(Listed)
  BY <1>1, <1>4, <1>5, ConcatKeeps
<1>8. Covered(records, i) = Covered(records, i - 1) \cup first..last
  <2>1. 1..i = 1..(i - 1) \cup {i}
    BY <1>1
  <2>2. first..last = {n \in Nat : first <= n /\ n <= last}
    BY <1>3
  <2>3. ASSUME NEW n \in Nat
        PROVE (\E a \in 1..i : records[a].first <= n /\ n <= records[a].last)
                <=> (\E a \in 1..(i - 1) : records[a].first <= n /\ n <= records[a].last) \/ (first <= n /\ n <= last)
    BY <2>1, Zenon DEF first, last
  <2> QED
    BY <2>2, <2>3 DEF Covered
<1>9. AckTypeOK'
  <2>1. decoded' \in Seq(Nat)
    BY <1>1, <1>4, <1>5
  <2>2. offset' \in Nat
    BY <1>1, <1>4 DEF Reading, Laid, Holds
  <2>3. AckTypeOK
    OBVIOUS
  <2>4. UNCHANGED <<given, numbers, pc, j, start_index, end_index, records, stream>>
    BY DEF Decode
  <2>5. i' \in Nat \ {0}
    BY ONLY <1>1
  <2> QED
    BY ONLY <2>1, <2>2, <2>3, <2>4, <2>5 DEF AckTypeOK, Count
<1>10. Decoding'
  <2>1. i' - 1 = i /\ i' <= Len(records) + 1
    BY <1>1
  <2>2. Elements(decoded') = Covered(records', i' - 1)
    BY <1>1, <1>6, <1>7, <1>8, <2>1
  <2> QED
    BY <1>1, <2>1, <2>2 DEF Decoding
<1>11. Reading'
  BY <1>1, <1>4 DEF Decode, Reading, End
<1> QED
  BY <1>1, <1>9, <1>10, <1>11 DEF Decode, Sorting, Scanning, RangesApart, Empty, NoRecords, Count

LEMMA DecodeDoneInv == ASSUME AckInv, DecodeDone PROVE AckInv'
<1> USE DEF AckInv
<1>1. pc = "decode" /\ pc' = "done" /\ i = Len(records) + 1
  <2>1. records \in Seq(Ranges) /\ i \in Nat
    BY DEF AckTypeOK
  <2>2. Len(records) \in Nat
    BY <2>1
  <2> QED
    BY <2>1, <2>2 DEF DecodeDone, Decoding
<1> QED
  BY <1>1 DEF DecodeDone, AckTypeOK, Sorting, Scanning, Decoding, RangesApart, Empty, NoRecords, Reading, Count
------------------------------------------------------------------------------
LEMMA AckNextInv == AckInv /\ [AckNext]_ack_vars => AckInv'
<1> SUFFICES ASSUME AckInv, [AckNext]_ack_vars PROVE AckInv'
  OBVIOUS
<1>1. CASE UNCHANGED ack_vars
  BY <1>1 DEF AckInv, ack_vars, AckTypeOK, Sorting, Scanning, Decoding, RangesApart, Empty, NoRecords, Reading, Count, Below
<1>2. CASE AckNext
  BY <1>2, SortInv, SortNextInv, SortDoneInv, ExtendInv, CloseInv, ScanDoneInv, DecodeInv, DecodeDoneInv DEF AckNext
<1> QED
  BY <1>1, <1>2

LEMMA AckInvariant == AckSpec => []AckInv
<1> QED
  BY AckInitInv, AckNextInv, PTL DEF AckSpec

\* Types of the codec's variables, for any sequence numbers and any count of them.
THEOREM AckTypeCorrect == AckSpec => []AckTypeOK
<1>1. AckInv => AckTypeOK
  BY DEF AckInv
<1> QED
  BY <1>1, AckInvariant, PTL

\* The exchange sort of put_packet_acknowledge keeps the numbers it was given, and
\* they ascend when the scan for ranges starts.
THEOREM SortIsCorrect == AckSpec => []SortedPermutation
<1>1. AckInv => SortedPermutation
  <2> SUFFICES ASSUME AckInv PROVE SortedPermutation
    OBVIOUS
  <2>1. DOMAIN numbers = 1..Count
    BY CountFacts DEF AckInv
  <2> QED
    BY <2>1 DEF AckInv, Sorting, SortedPermutation
<1> QED
  BY <1>1, AckInvariant, PTL

\* The ranges put_packet_acknowledge writes are maximal runs.
THEOREM RangesAreMaximal == AckSpec => []RangesApart
<1>1. AckInv => RangesApart
  BY DEF AckInv
<1> QED
  BY <1>1, AckInvariant, PTL

\* get_packet_acknowledge lists exactly what put_packet_acknowledge was given, and reads its
\* records, single numbers and ranges, one after the other to the end of the packet.
THEOREM AcknowledgeRoundTrip == AckSpec => []RoundTrip
<1>1. AckInv => RoundTrip
  <2> SUFFICES ASSUME AckInv, pc = "done" PROVE Elements(decoded) = given /\ offset = Len(stream) + 1
    BY DEF RoundTrip
  <2>1. i - 1 = Len(records) /\ i = Len(records) + 1
    BY DEF AckInv, Decoding, AckTypeOK
  <2> QED
    BY <2>1 DEF AckInv, Decoding, Reading
<1> QED
  BY <1>1, AckInvariant, PTL
==============================================================================
