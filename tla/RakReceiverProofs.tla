-------------------------- MODULE RakReceiverProofs --------------------------
(***************************************************************************)
(* Proofs about the receiving half of a connection, for any messages, any  *)
(* number of fragments and any number of frame sets: what is ACKed has     *)
(* been handled, what is dispatched is whole, and which numbers are NACKed.*)
(***************************************************************************)
EXTENDS RakReceiver, FiniteSetTheorems, TLAPS

Held(m, S) == {g \in S : g.compound_id = m}
FragmentsOf(m) == {Frame(m, i) : i \in 0..(Fragments[m] - 1)}

\* The client numbers its frame sets 0, 1, 2, ...: a number means one frame set.
Numbered ==
  /\ IsFiniteSet(wire)
  /\ \A fs \in wire : fs.seq < Cardinality(wire)
  /\ \A n \in received : n < Cardinality(wire)
NumberedOnce == \A a, b \in wire : a.seq = b.seq => a = b

\* The tick thread works on one received frame set at a time, and the queues of
\* numbers are empty when it waits for the next.
OneAtATime ==
  /\ pc = "frames" => current \in wire
  /\ pc # "frames" => todo = {}
  /\ pc = "receive" => ack_queue = {} /\ nack_queue = {}
  /\ received = acked \cup ack_queue

\* What makes AckedIsHandled inductive: a received frame is handled, or is still
\* to do in the frame set at hand.
ReceivedIsHandled ==
  \A fs \in wire : fs.seq \in received =>
    \A f \in fs.frames : Handled(f) \/ (pc = "frames" /\ fs = current /\ f \in todo)

\* What makes GapNackedButHead inductive: the expected number follows a received
\* one, so that only the head of the next gap escapes the NACK queue.
ExpectedFollowsReceived == receiver_sequence_number = 0 \/ receiver_sequence_number - 1 \in received

GapsQueued ==
  \A n \in 0..MaxSeq :
    (\E k \in received : n < k) => n \in received \cup nacked \cup nack_queue \/ n = 0 \/ n - 1 \in received

IInv ==
  /\ TypeOK /\ Numbered /\ NumberedOnce /\ OneAtATime
  /\ AckedIsHandled /\ ReceivedIsHandled /\ DispatchedIsWhole /\ HolderIsIncomplete
  /\ ExpectedFollowsReceived /\ GapsQueued
------------------------------------------------------------------------------
\* Every frame of the client is a fragment of exactly one message.
LEMMA FrameIsFragment ==
  ASSUME NEW f \in Frames
  PROVE  /\ f.compound_id \in Messages
         /\ f.index \in 0..(Fragments[f.compound_id] - 1)
         /\ f = Frame(f.compound_id, f.index)
         /\ f.compound_size = Fragments[f.compound_id]
         /\ f.is_fragmented <=> Fragments[f.compound_id] > 1
<1>1. PICK m \in Messages : f \in {Frame(m, i) : i \in 0..(Fragments[m] - 1)}
  BY DEF Frames
<1>2. PICK i \in 0..(Fragments[m] - 1) : f = Frame(m, i)
  BY <1>1
<1>3. f.compound_id = m /\ f.index = i /\ f.compound_size = Fragments[m] /\ f.is_fragmented = (Fragments[m] > 1)
  BY <1>2 DEF Frame
<1> QED
  BY <1>2, <1>3

\* A message cut in n pieces has n different fragments.
LEMMA FragmentsCount ==
  ASSUME NEW m \in Messages
  PROVE  IsFiniteSet(FragmentsOf(m)) /\ Cardinality(FragmentsOf(m)) = Fragments[m]
<1> DEFINE I == 0..(Fragments[m] - 1)
           piece == [i \in I |-> Frame(m, i)]
<1>1. Fragments[m] \in Nat \ {0}
  BY FragmentsOfMessages
<1>2. IsFiniteSet(I) /\ Cardinality(I) = Fragments[m]
  <2>1. 0 \in Int /\ Fragments[m] - 1 \in Int /\ ~(0 > Fragments[m] - 1)
    BY <1>1
  <2>2. IsFiniteSet(I) /\ Cardinality(I) = Fragments[m] - 1 - 0 + 1
    BY <2>1, FS_Interval
  <2> QED
    BY <1>1, <2>2
<1>3. piece \in Bijection(I, FragmentsOf(m))
  <2>1. piece \in [I -> FragmentsOf(m)]
    BY DEF FragmentsOf
  <2>2. \A i, j \in I : piece[i] = piece[j] => i = j
    <3>1. \A i \in I : piece[i].index = i
      BY DEF Frame
    <3> QED
      BY <3>1
  <2>3. \A g \in FragmentsOf(m) : \E i \in I : piece[i] = g
    BY DEF FragmentsOf
  <2> HIDE DEF piece, I
  <2> QED
    BY <2>1, <2>2, <2>3 DEF Bijection, Injection, Surjection, IsInjective
<1>4. ExistsBijection(I, FragmentsOf(m))
  BY <1>3 DEF ExistsBijection
<1> QED
  BY <1>2, <1>4, FS_Bijection

\* get_raknet_compound_size finds all the fragments exactly when all are held.
LEMMA HeldCount ==
  ASSUME NEW S \in SUBSET Frames, NEW m \in Messages
  PROVE  /\ get_raknet_compound_size(m, S) \in 0..Fragments[m]
         /\ get_raknet_compound_size(m, S) = Fragments[m] <=> Held(m, S) = FragmentsOf(m)
<1>1. Held(m, S) \subseteq FragmentsOf(m)
  BY FrameIsFragment DEF FragmentsOf, Held
<1>2. IsFiniteSet(FragmentsOf(m)) /\ Cardinality(FragmentsOf(m)) = Fragments[m]
  BY FragmentsCount
<1>3. IsFiniteSet(Held(m, S)) /\ Cardinality(Held(m, S)) <= Fragments[m]
      /\ (Cardinality(Held(m, S)) = Fragments[m] => Held(m, S) = FragmentsOf(m))
  BY <1>1, <1>2, FS_Subset
<1>4. Cardinality(Held(m, S)) \in Nat
  BY <1>3, FS_CardinalityType
<1>5. Fragments[m] \in Nat
  BY FragmentsOfMessages
<1>6. get_raknet_compound_size(m, S) = Cardinality(Held(m, S))
  BY DEF get_raknet_compound_size, Held
<1> QED
  BY <1>2, <1>3, <1>4, <1>5, <1>6

\* The loop of handle_fragmented_frame over a complete message puts every piece at
\* its place and takes out exactly the fragments of the message.
LEMMA JoinedIsWhole ==
  ASSUME NEW f \in Frames, NEW holder \in SUBSET Frames,
         get_raknet_compound_size(f.compound_id, holder) = f.compound_size
  PROVE  /\ Joined(f, holder) = Whole(f.compound_id)
         /\ Popped(f, holder) = Held(f.compound_id, holder)
<1> DEFINE m == f.compound_id
<1>1. m \in Messages /\ f.compound_size = Fragments[m]
  BY FrameIsFragment
<1>2. Held(m, holder) = FragmentsOf(m)
  BY <1>1, HeldCount
<1>3. ASSUME NEW i \in 0..(Fragments[m] - 1)
      PROVE  pop_raknet_compound_entry(m, i, holder) = {Frame(m, i)}
  <2>1. pop_raknet_compound_entry(m, i, holder) = {g \in FragmentsOf(m) : g.index = i}
    BY <1>2 DEF pop_raknet_compound_entry, Held
  <2>2. \A j \in 0..(Fragments[m] - 1) : Frame(m, j).index = j
    BY DEF Frame
  <2> QED
    BY <2>1, <2>2 DEF FragmentsOf
<1>4. Joined(f, holder) = Whole(m)
  BY <1>1, <1>3 DEF Joined, Whole
<1>5. Popped(f, holder) = FragmentsOf(m)
  BY <1>1, <1>3 DEF Popped, FragmentsOf
<1> QED
  BY <1>2, <1>4, <1>5
------------------------------------------------------------------------------
LEMMA InitInv == Init => IInv
<1> SUFFICES ASSUME Init PROVE IInv
  OBVIOUS
<1>1. TypeOK /\ NumberedOnce /\ OneAtATime /\ AckedIsHandled /\ ReceivedIsHandled
      /\ DispatchedIsWhole /\ HolderIsIncomplete /\ ExpectedFollowsReceived /\ GapsQueued
  BY BoundsAreNat DEF Init, TypeOK, NumberedOnce, OneAtATime, AckedIsHandled, ReceivedIsHandled,
     DispatchedIsWhole, HolderIsIncomplete, ExpectedFollowsReceived, GapsQueued, NoFrameSet
<1>2. Numbered
  BY FS_EmptySet DEF Init, Numbered
<1> QED
  BY <1>1, <1>2 DEF IInv

LEMMA ClientSendsInv ==
  ASSUME IInv, NEW frames \in SUBSET Frames, ClientSends(frames)
  PROVE  IInv'
<1> DEFINE new == [seq |-> Cardinality(wire), frames |-> frames]
<1> USE DEF IInv
<1>1. IsFiniteSet(wire) /\ Cardinality(wire) \in Nat /\ Cardinality(wire) < MaxSeq
  BY FS_CardinalityType DEF Numbered, ClientSends
<1>2. wire' = wire \cup {new} /\ new \notin wire /\ new \in FrameSets /\ UNCHANGED <<conn, pc, todo, current, dispatched, received, acked, nacked>>
  BY <1>1, BoundsAreNat DEF Numbered, ClientSends, FrameSets
<1>3. IsFiniteSet(wire') /\ Cardinality(wire') = Cardinality(wire) + 1
  BY <1>1, <1>2, FS_AddElement
<1>4. Numbered'
  <2>1. \A n \in received : n \in Nat
    BY BoundsAreNat DEF TypeOK
  <2>2. \A fs \in wire' : fs \in wire \/ fs.seq = Cardinality(wire)
    BY <1>2
  <2>3. \A fs \in wire : fs.seq \in Nat
    BY DEF TypeOK, FrameSets
  <2>4. \A fs \in wire : fs.seq < Cardinality(wire')
    BY <1>1, <1>3, <2>3 DEF Numbered
  <2>5. \A fs \in wire' : fs.seq < Cardinality(wire')
    BY <1>1, <1>3, <2>2, <2>4
  <2>6. \A n \in received' : n < Cardinality(wire')
    BY <1>1, <1>2, <1>3, <2>1 DEF Numbered
  <2> QED
    BY <1>3, <2>5, <2>6 DEF Numbered
<1>5. NumberedOnce'
  BY <1>1, <1>2 DEF Numbered, NumberedOnce
<1>6. TypeOK'
  BY <1>2 DEF TypeOK, conn
<1>7. OneAtATime' /\ DispatchedIsWhole' /\ HolderIsIncomplete' /\ ExpectedFollowsReceived' /\ GapsQueued'
  BY <1>2 DEF conn, OneAtATime, DispatchedIsWhole, HolderIsIncomplete, ExpectedFollowsReceived, GapsQueued
<1>8. \A f \in Frames : Handled(f)' <=> Handled(f)
  BY <1>2 DEF Handled, conn
<1>9. AckedIsHandled' /\ ReceivedIsHandled'
  <2>1. new.seq \notin received /\ acked \subseteq received
    BY <1>1 DEF Numbered, OneAtATime
  <2>2. ASSUME NEW fs \in wire' PROVE fs = new \/ (fs \in wire /\ fs.frames \subseteq Frames)
    BY <1>2 DEF TypeOK, FrameSets
  <2>3. \A fs \in wire' : fs.seq \in acked => fs \in wire
    BY <2>1, <2>2
  <2>4. AckedIsHandled'
    BY <1>2, <1>8, <2>2, <2>3 DEF AckedIsHandled
  <2>5. \A fs \in wire' : fs.seq \in received => fs \in wire
    BY <2>1, <2>2
  <2>6. ReceivedIsHandled'
    BY <1>2, <1>8, <2>2, <2>5 DEF ReceivedIsHandled
  <2> QED
    BY <2>4, <2>6
<1> QED
  BY <1>4, <1>5, <1>6, <1>7, <1>9

\* Frames once handled stay handled while nothing is taken out of the holder.
LEMMA HandledStays ==
  ASSUME dispatched \subseteq dispatched', frame_holder \subseteq frame_holder'
  PROVE  \A f : Handled(f) => Handled(f)'
BY DEF Handled

LEMMA ReceiveFrameSetInv ==
  ASSUME IInv, NEW fs \in wire, ReceiveFrameSet(fs)
  PROVE  IInv'
<1> USE DEF IInv
<1>1. fs.seq \in 0..(MaxSeq - 1) /\ fs.frames \subseteq Frames /\ MaxSeq \in Nat
  BY BoundsAreNat DEF TypeOK, FrameSets
<1>2. received \subseteq Nat /\ receiver_sequence_number \in Nat
  BY <1>1 DEF TypeOK
<1>3. TypeOK'
  <2>1. Gap(fs.seq) \subseteq 0..MaxSeq
    BY <1>1, <1>2 DEF Gap
  <2>2. receiver_sequence_number' \in 0..MaxSeq
    BY <1>1 DEF ReceiveFrameSet
  <2>3. nack_queue' \subseteq 0..MaxSeq
    BY <2>1 DEF ReceiveFrameSet, TypeOK
  <2>4. received' \subseteq 0..(MaxSeq - 1) /\ ack_queue' \subseteq received' /\ acked' \subseteq received'
    BY <1>1 DEF ReceiveFrameSet, TypeOK
  <2> QED
    BY <2>2, <2>3, <2>4 DEF ReceiveFrameSet, TypeOK
<1>4. Numbered' /\ NumberedOnce' /\ OneAtATime'
  BY DEF ReceiveFrameSet, Numbered, NumberedOnce, OneAtATime
<1>5. \A f : Handled(f)' <=> Handled(f)
  BY DEF ReceiveFrameSet, Handled
<1>6. AckedIsHandled' /\ DispatchedIsWhole' /\ HolderIsIncomplete'
  BY <1>5 DEF ReceiveFrameSet, AckedIsHandled, DispatchedIsWhole, HolderIsIncomplete
<1>7. ReceivedIsHandled'
  <2> SUFFICES ASSUME NEW s \in wire, s.seq \in received \cup {fs.seq}, NEW f \in s.frames
               PROVE  Handled(f) \/ (s = fs /\ f \in fs.frames)
    BY <1>5 DEF ReceiveFrameSet, ReceivedIsHandled
  <2>1. s.seq = fs.seq => s = fs
    BY DEF NumberedOnce
  <2> QED
    BY <2>1 DEF ReceiveFrameSet, ReceivedIsHandled
<1>8. ExpectedFollowsReceived'
  BY <1>1 DEF ReceiveFrameSet, ExpectedFollowsReceived
<1>9. GapsQueued'
  <2> SUFFICES ASSUME NEW n \in 0..MaxSeq, NEW k \in received \cup {fs.seq}, n < k,
                      n \notin received \cup {fs.seq}, n # 0, n - 1 \notin received \cup {fs.seq}
               PROVE  n \in nacked \/ n \in nack_queue \/ n \in Gap(fs.seq)
    BY <1>1, <1>2 DEF ReceiveFrameSet, GapsQueued
  <2>1. CASE \E j \in received : n < j
    BY <2>1 DEF GapsQueued
  <2>2. CASE \A j \in received : ~(n < j)
    <3>1. k = fs.seq
      BY <2>2
    <3>2. receiver_sequence_number < n
      BY <1>1, <1>2, <2>2 DEF ExpectedFollowsReceived
    <3> QED
      BY <1>1, <1>2, <3>1, <3>2 DEF Gap
  <2> QED
    BY <2>1, <2>2
<1> QED
  BY <1>3, <1>4, <1>6, <1>7, <1>8, <1>9

\* append_raknet_frame_holder adds the fragment unless it is there.
LEMMA AppendAdds ==
  ASSUME IInv, NEW f \in Frames
  PROVE  append_raknet_frame_holder(f) = frame_holder \cup {f}
<1>1. ASSUME NEW g \in frame_holder, g.compound_id = f.compound_id, g.index = f.index
      PROVE  g = f
  <2>1. g \in Frames
    BY DEF IInv, TypeOK
  <2> QED
    BY <1>1, <2>1, FrameIsFragment
<1> QED
  BY <1>1 DEF append_raknet_frame_holder

\* What one frame of the set at hand is, and what follows for the rest of the
\* invariant once the frame is off the list and is handled.
LEMMA FrameInHand ==
  ASSUME IInv, NEW f, pc = "frames", f \in todo
  PROVE  f \in Frames /\ current \in wire
BY DEF IInv, TypeOK, OneAtATime, FrameSets

LEMMA FrameDoneInv ==
  ASSUME IInv, NEW f \in Frames, pc = "frames", f \in todo, todo' = todo \ {f},
         UNCHANGED <<receiver_sequence_number, ack_queue, nack_queue, pc, current, received, acked, nacked, wire>>,
         \A g : Handled(g) => Handled(g)', Handled(f)', frame_holder' \subseteq Frames
  PROVE  /\ TypeOK' /\ Numbered' /\ NumberedOnce' /\ OneAtATime'
         /\ AckedIsHandled' /\ ReceivedIsHandled' /\ ExpectedFollowsReceived' /\ GapsQueued'
<1> USE DEF IInv
<1>1. TypeOK'
  BY DEF TypeOK
<1>2. Numbered' /\ NumberedOnce' /\ OneAtATime' /\ ExpectedFollowsReceived' /\ GapsQueued'
  BY DEF Numbered, NumberedOnce, OneAtATime, ExpectedFollowsReceived, GapsQueued
<1>3. AckedIsHandled'
  BY DEF AckedIsHandled
<1>4. ReceivedIsHandled'
  BY DEF ReceivedIsHandled
<1> QED
  BY <1>1, <1>2, <1>3, <1>4

\* The count of a message whose held fragments do not change does not change.
LEMMA CountUnchanged ==
  ASSUME NEW S, NEW T, NEW m, Held(m, S) = Held(m, T)
  PROVE  get_raknet_compound_size(m, S) = get_raknet_compound_size(m, T)
BY DEF Held, get_raknet_compound_size

\* handle_frame with a whole message or the last fragment of one.
LEMMA DispatchInv ==
  ASSUME IInv, NEW f \in todo, Dispatch(f)
  PROVE  IInv'
<1> DEFINE m == f.compound_id
<1>1. f \in Frames /\ pc = "frames" /\ frame_holder \subseteq Frames
  BY FrameInHand DEF Dispatch, IInv, TypeOK
<1>2. m \in Messages /\ Fragments[m] \in Nat \ {0} /\ f.compound_size = Fragments[m]
      /\ f = Frame(m, f.index) /\ f.index \in 0..(Fragments[m] - 1)
      /\ (f.is_fragmented <=> Fragments[m] > 1)
  BY <1>1, FrameIsFragment, FragmentsOfMessages
<1>3. dispatched' = dispatched \cup {Whole(m)}
      /\ (frame_holder' = frame_holder \/ frame_holder' = {g \in frame_holder \cup {f} : g.compound_id # m})
  <2>1. CASE ~f.is_fragmented
    <3>1. Fragments[m] = 1 /\ 0..(Fragments[m] - 1) = {0} /\ f.index = 0
      BY <1>2, <2>1
    <3>2. Whole(m) = [i \in {0} |-> {f}]
      BY <1>2, <3>1 DEF Whole
    <3> QED
      BY <2>1, <3>2 DEF Dispatch
  <2>2. CASE f.is_fragmented
    <3> DEFINE holder == frame_holder \cup {f}
    <3>1. get_raknet_compound_size(m, holder) = f.compound_size
          /\ dispatched' = dispatched \cup {Joined(f, holder)} /\ frame_holder' = holder \ Popped(f, holder)
      BY <1>1, <2>2, AppendAdds DEF Dispatch
    <3>2. Joined(f, holder) = Whole(m) /\ Popped(f, holder) = Held(m, holder)
      BY <1>1, <3>1, JoinedIsWhole
    <3> QED
      BY <3>1, <3>2 DEF Held
  <2> QED
    BY <2>1, <2>2
<1>4. \A g : Handled(g) => Handled(g)'
  BY <1>3 DEF Handled
<1>5. Handled(f)' /\ frame_holder' \subseteq Frames
  BY <1>1, <1>3 DEF Handled
<1>6. DispatchedIsWhole'
  BY <1>2, <1>3 DEF DispatchedIsWhole, IInv
<1>7. HolderIsIncomplete'
  <2>1. CASE frame_holder' = frame_holder
    BY <2>1 DEF HolderIsIncomplete, IInv
  <2>2. CASE frame_holder' = {g \in frame_holder \cup {f} : g.compound_id # m}
    <3>1. ASSUME NEW g \in frame_holder'
          PROVE  g \in frame_holder /\ Held(g.compound_id, frame_holder') = Held(g.compound_id, frame_holder)
      BY <2>2 DEF Held
    <3> QED
      BY <3>1, CountUnchanged DEF HolderIsIncomplete, IInv
  <2> QED
    BY <1>3, <2>1, <2>2
<1>8. todo' = todo \ {f} /\ UNCHANGED <<receiver_sequence_number, ack_queue, nack_queue, pc, current, received, acked, nacked, wire>>
  BY DEF Dispatch
<1> QED
  BY <1>1, <1>4, <1>5, <1>6, <1>7, <1>8, FrameDoneInv DEF IInv

\* handle_fragmented_frame while fragments are missing.
LEMMA HoldInv ==
  ASSUME IInv, NEW f \in todo, Hold(f)
  PROVE  IInv'
<1> DEFINE m == f.compound_id
<1>1. f \in Frames /\ pc = "frames" /\ frame_holder \subseteq Frames
  BY FrameInHand DEF Hold, IInv, TypeOK
<1>2. m \in Messages /\ Fragments[m] \in Nat /\ f.compound_size = Fragments[m]
  BY <1>1, FrameIsFragment, FragmentsOfMessages
<1>3. frame_holder' = frame_holder \cup {f} /\ dispatched' = dispatched
      /\ get_raknet_compound_size(m, frame_holder') # Fragments[m]
  BY <1>1, <1>2, AppendAdds DEF Hold
<1>4. \A g : Handled(g) => Handled(g)'
  BY <1>3 DEF Handled
<1>5. Handled(f)' /\ frame_holder' \subseteq Frames
  BY <1>1, <1>3 DEF Handled
<1>6. DispatchedIsWhole'
  BY <1>3 DEF DispatchedIsWhole, IInv
<1>7. HolderIsIncomplete'
  <2>1. get_raknet_compound_size(m, frame_holder') < Fragments[m]
    BY <1>2, <1>3, <1>5, HeldCount
  <2> SUFFICES ASSUME NEW g \in frame_holder'
               PROVE  get_raknet_compound_size(g.compound_id, frame_holder') < g.compound_size
    BY DEF HolderIsIncomplete
  <2>2. CASE g.compound_id = m
    BY <1>2, <1>5, <2>1, <2>2, FrameIsFragment
  <2>3. CASE g.compound_id # m
    <3>1. g \in frame_holder /\ Held(g.compound_id, frame_holder') = Held(g.compound_id, frame_holder)
      BY <1>3, <2>3 DEF Held
    <3> QED
      BY <3>1, CountUnchanged DEF HolderIsIncomplete, IInv
  <2> QED
    BY <2>2, <2>3
<1>8. todo' = todo \ {f} /\ UNCHANGED <<receiver_sequence_number, ack_queue, nack_queue, pc, current, received, acked, nacked, wire>>
  BY DEF Hold
<1> QED
  BY <1>1, <1>4, <1>5, <1>6, <1>7, <1>8, FrameDoneInv DEF IInv

LEMMA FramesDoneInv == ASSUME IInv, FramesDone PROVE IInv'
<1> USE DEF IInv, FramesDone, conn
<1>1. \A f : Handled(f)' <=> Handled(f)
  BY DEF Handled
<1>2. TypeOK' /\ Numbered' /\ NumberedOnce' /\ OneAtATime'
  BY DEF TypeOK, Numbered, NumberedOnce, OneAtATime, NoFrameSet
<1>3. AckedIsHandled' /\ ReceivedIsHandled'
  BY <1>1 DEF AckedIsHandled, ReceivedIsHandled
<1>4. DispatchedIsWhole' /\ HolderIsIncomplete' /\ ExpectedFollowsReceived' /\ GapsQueued'
  BY DEF DispatchedIsWhole, HolderIsIncomplete, ExpectedFollowsReceived, GapsQueued
<1> QED
  BY <1>2, <1>3, <1>4

LEMMA UpdateInv == ASSUME IInv, Update PROVE IInv'
<1> USE DEF IInv, Update
<1>1. \A f : Handled(f)' <=> Handled(f)
  BY DEF Handled
<1>2. TypeOK'
  BY DEF TypeOK
<1>3. Numbered' /\ NumberedOnce' /\ OneAtATime'
  BY DEF Numbered, NumberedOnce, OneAtATime
<1>4. ReceivedIsHandled'
  BY <1>1 DEF ReceivedIsHandled
<1>5. AckedIsHandled'
  BY <1>1 DEF AckedIsHandled, ReceivedIsHandled, OneAtATime
<1>6. DispatchedIsWhole' /\ HolderIsIncomplete' /\ ExpectedFollowsReceived' /\ GapsQueued'
  BY DEF DispatchedIsWhole, HolderIsIncomplete, ExpectedFollowsReceived, GapsQueued
<1> QED
  BY <1>2, <1>3, <1>4, <1>5, <1>6

LEMMA NextInv == IInv /\ [Next]_vars => IInv'
<1> SUFFICES ASSUME IInv, [Next]_vars PROVE IInv'
  OBVIOUS
<1>1. ASSUME NEW frames \in SUBSET Frames \ {{}}, ClientSends(frames) PROVE IInv'
  BY <1>1, ClientSendsInv
<1>2. ASSUME NEW fs \in wire, ReceiveFrameSet(fs) PROVE IInv'
  BY <1>2, ReceiveFrameSetInv
<1>3. ASSUME NEW f \in todo, Dispatch(f) \/ Hold(f) PROVE IInv'
  BY <1>3, DispatchInv, HoldInv
<1>4. CASE FramesDone \/ Update
  BY <1>4, FramesDoneInv, UpdateInv
<1>5. CASE UNCHANGED vars
  <2> USE <1>5 DEF IInv, vars, conn
  <2>1. \A f : Handled(f)' <=> Handled(f)
    BY DEF Handled
  <2>2. TypeOK' /\ Numbered' /\ NumberedOnce' /\ OneAtATime'
    BY DEF TypeOK, Numbered, NumberedOnce, OneAtATime
  <2>3. AckedIsHandled' /\ ReceivedIsHandled' /\ DispatchedIsWhole' /\ HolderIsIncomplete'
        /\ ExpectedFollowsReceived' /\ GapsQueued'
    BY <2>1 DEF AckedIsHandled, ReceivedIsHandled, DispatchedIsWhole, HolderIsIncomplete, ExpectedFollowsReceived, GapsQueued
  <2> QED
    BY <2>2, <2>3
<1> QED
  BY <1>1, <1>2, <1>3, <1>4, <1>5 DEF Next, Tick

LEMMA Invariance == Spec => []IInv
BY InitInv, NextInv, PTL DEF Spec
------------------------------------------------------------------------------
\* Types, for any messages and any number of frame sets.
THEOREM TypeCorrect == Spec => []TypeOK
<1>1. IInv => TypeOK
  BY DEF IInv
<1> QED
  BY Invariance, <1>1, PTL

\* An ACK never covers a frame that handle_frame_set has not handled: the client
\* may forget what is ACKed.
THEOREM AckIsTruthful == Spec => []AckedIsHandled
<1>1. IInv => AckedIsHandled
  BY DEF IInv
<1> QED
  BY Invariance, <1>1, PTL

\* A payload that handle_fragmented_frame joins is a message as it was sent.
THEOREM ReassemblyIsFaithful == Spec => []DispatchedIsWhole
<1>1. IInv => DispatchedIsWhole
  BY DEF IInv
<1> QED
  BY Invariance, <1>1, PTL

\* The frame holder never sits on a complete message.
THEOREM HolderWaits == Spec => []HolderIsIncomplete
<1>1. IInv => HolderIsIncomplete
  BY DEF IInv
<1> QED
  BY Invariance, <1>1, PTL

\* When all fragments of a message were ACKed the message has been dispatched:
\* otherwise they would all be held, and the holder would be complete.
THEOREM AckedIsDispatched == Spec => []AckedMessageIsDispatched
<1>1. IInv => AckedMessageIsDispatched
  <2> SUFFICES ASSUME IInv, NEW m \in Messages, Whole(m) \notin dispatched,
                      \A i \in 0..(Fragments[m] - 1) : \E fs \in wire : fs.seq \in acked /\ Frame(m, i) \in fs.frames
               PROVE  FALSE
    BY DEF AckedMessageIsDispatched
  <2>1. \A i \in 0..(Fragments[m] - 1) : Frame(m, i).compound_id = m
    BY DEF Frame
  <2>2. \A i \in 0..(Fragments[m] - 1) : Frame(m, i) \in frame_holder
    BY <2>1 DEF IInv, AckedIsHandled, Handled
  <2>3. Held(m, frame_holder) = FragmentsOf(m)
    <3>1. FragmentsOf(m) \subseteq Held(m, frame_holder)
      BY <2>1, <2>2 DEF FragmentsOf, Held
    <3>2. Held(m, frame_holder) \subseteq FragmentsOf(m)
      BY FrameIsFragment DEF Held, FragmentsOf, IInv, TypeOK
    <3> QED
      BY <3>1, <3>2
  <2>4. get_raknet_compound_size(m, frame_holder) = Fragments[m] /\ Fragments[m] \in Nat \ {0}
    BY <2>3, HeldCount, FragmentsOfMessages DEF IInv, TypeOK
  <2>5. Frame(m, 0) \in frame_holder /\ Frame(m, 0).compound_id = m /\ Frame(m, 0).compound_size = Fragments[m]
    BY <2>2, <2>4 DEF Frame
  <2> QED
    BY <2>4, <2>5 DEF IInv, HolderIsIncomplete
<1> QED
  BY Invariance, <1>1, PTL

\* Every missing number is NACKed, except the first of each gap.
THEOREM GapsAreNacked == Spec => []GapNackedButHead
<1>1. IInv => GapNackedButHead
  BY DEF IInv, GapNackedButHead, GapsQueued, OneAtATime
<1> QED
  BY Invariance, <1>1, PTL
==============================================================================
