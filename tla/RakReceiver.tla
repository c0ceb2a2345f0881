----------------------------- MODULE RakReceiver -----------------------------
(***************************************************************************)
(* The receiving half of a connection_t (podrum/network/raknet/rakserver.c,*)
(* rakhandler.c): which frame sets are ACKed and NACKed, how fragments are *)
(* held and joined, what reaches the dispatch at the end of handle_frame.  *)
(* One tick handles one datagram and then sends the ACKs and NACKs.  The   *)
(* client and the network are external: a client packs any fragments into  *)
(* any frame set, as often as it likes (it retransmits on NACK and on its  *)
(* own timer, under a new number), and a frame set sent is delivered any   *)
(* number of times, in any order, or never.                                *)
(***************************************************************************)
EXTENDS Naturals, FiniteSets

CONSTANTS Messages,   \* the messages the client sends
          Fragments,  \* how many fragments it cuts each into; 1: it does not cut
          PerSet,     \* bound: frames in a frame set
          MaxSeq      \* bound: frame sets the client sends, at most the 2^24 numbers of a triad

ASSUME FragmentsOfMessages == Fragments \in [Messages -> Nat \ {0}]
ASSUME BoundsAreNat == PerSet \in Nat /\ MaxSeq \in Nat

VARIABLES receiver_sequence_number, ack_queue, nack_queue,
          frame_holder,  \* the fragments waiting for the rest of their message
          pc,            \* where the tick thread is: "receive", "frames", "update"
          todo,          \* "frames": the frames of the set not handled yet
          current,       \* "frames": the frame set being handled
          dispatched,    \* the payloads handle_frame has dispatched
          received,      \* the numbers handle_frame_set has seen
          acked, nacked, \* the numbers sent in ACKs and NACKs
          wire           \* external: the frame sets the client has sent

conn == <<receiver_sequence_number, ack_queue, nack_queue, frame_holder>>
vars == <<conn, pc, todo, current, dispatched, received, acked, nacked, wire>>

\* misc_frame_t of an honest client: compound ids differ from message to message
\* until the 16-bit id wraps, so the message stands for its id.
Frame(m, i) ==
  [compound_id |-> m, index |-> i, compound_size |-> Fragments[m], is_fragmented |-> Fragments[m] > 1]
Frames == UNION {{Frame(m, i) : i \in 0..(Fragments[m] - 1)} : m \in Messages}

\* A payload: at each position, the pieces of user data put there.
Whole(m) == [i \in 0..(Fragments[m] - 1) |-> {Frame(m, i)}]
NoFrameSet == [seq |-> 0, frames |-> {}]

Init ==
  /\ receiver_sequence_number = 0
  /\ ack_queue = {}
  /\ nack_queue = {}
  /\ frame_holder = {}
  /\ pc = "receive"
  /\ todo = {}
  /\ current = NoFrameSet
  /\ dispatched = {}
  /\ received = {}
  /\ acked = {}
  /\ nacked = {}
  /\ wire = {}

\* External: the client numbers its frame sets in sequence.
ClientSends(frames) ==
  /\ Cardinality(wire) < MaxSeq
  /\ wire' = wire \cup {[seq |-> Cardinality(wire), frames |-> frames]}
  /\ UNCHANGED <<conn, pc, todo, current, dispatched, received, acked, nacked>>

\* Mutant: the range loses its last number as well.
MutGap(seq) == (receiver_sequence_number + 1)..(seq - 2)

\* The hole: its first number, receiver_sequence_number itself, is not NACKed.
Gap(seq) == (receiver_sequence_number + 1)..(seq - 1)

\* handle_frame_set up to its loop over the frames.
ReceiveFrameSet(fs) ==
  /\ pc = "receive"
  /\ ack_queue' = ack_queue \cup {fs.seq}
  /\ nack_queue' = (nack_queue \ {fs.seq}) \cup Gap(fs.seq)
  /\ receiver_sequence_number' = fs.seq + 1
  /\ received' = received \cup {fs.seq}
  /\ current' = fs
  /\ todo' = fs.frames
  /\ pc' = "frames"
  /\ UNCHANGED <<frame_holder, dispatched, acked, nacked, wire>>

\* Mutant: one fragment of a message hides the others.
MutHolder(f) ==
  IF \E g \in frame_holder : g.compound_id = f.compound_id THEN frame_holder
  ELSE frame_holder \cup {f}

\* The first copy of a fragment stays.
append_raknet_frame_holder(f) ==
  IF \E g \in frame_holder : g.compound_id = f.compound_id /\ g.index = f.index THEN frame_holder
  ELSE frame_holder \cup {f}

\* Mutant: the fragments of all messages are counted.
MutCountAll(id, holder) == Cardinality(holder)

\* Mutant: the fragment just added is not counted.
MutCountOthers(id, holder) ==
  LET n == Cardinality({g \in holder : g.compound_id = id}) IN IF n = 0 THEN 0 ELSE n - 1

get_raknet_compound_size(id, holder) == Cardinality({g \in holder : g.compound_id = id})

pop_raknet_compound_entry(id, i, holder) == {g \in holder : g.compound_id = id /\ g.index = i}

Joined(f, holder) ==
  [i \in 0..(f.compound_size - 1) |-> pop_raknet_compound_entry(f.compound_id, i, holder)]

Popped(f, holder) ==
  UNION {pop_raknet_compound_entry(f.compound_id, i, holder) : i \in 0..(f.compound_size - 1)}

\* handle_frame for a frame of its own and for the last missing fragment.
Dispatch(f) ==
  /\ pc = "frames" /\ f \in todo
  /\ \/ /\ ~f.is_fragmented
        /\ dispatched' = dispatched \cup {[i \in {0} |-> {f}]}
        /\ UNCHANGED frame_holder
     \/ LET holder == append_raknet_frame_holder(f)
        IN /\ f.is_fragmented
           /\ get_raknet_compound_size(f.compound_id, holder) = f.compound_size
           /\ dispatched' = dispatched \cup {Joined(f, holder)}
           /\ frame_holder' = holder \ Popped(f, holder)
  /\ todo' = todo \ {f}
  /\ UNCHANGED <<receiver_sequence_number, ack_queue, nack_queue, pc, current, received, acked, nacked, wire>>

\* handle_fragmented_frame when fragments are still missing.
Hold(f) ==
  /\ pc = "frames" /\ f \in todo
  /\ f.is_fragmented
  /\ LET holder == append_raknet_frame_holder(f)
     IN /\ get_raknet_compound_size(f.compound_id, holder) # f.compound_size
        /\ frame_holder' = holder
  /\ todo' = todo \ {f}
  /\ UNCHANGED <<receiver_sequence_number, ack_queue, nack_queue, pc, current, dispatched, received, acked, nacked, wire>>

FramesDone ==
  /\ pc = "frames" /\ todo = {}
  /\ pc' = "update"
  /\ current' = NoFrameSet
  /\ UNCHANGED <<conn, todo, dispatched, received, acked, nacked, wire>>

\* send_raknet_ack_queue and send_raknet_nack_queue, in that order.
Update ==
  /\ pc = "update"
  /\ acked' = acked \cup ack_queue /\ ack_queue' = {}
  /\ nacked' = nacked \cup nack_queue /\ nack_queue' = {}
  /\ pc' = "receive"
  /\ UNCHANGED <<receiver_sequence_number, frame_holder, todo, current, dispatched, received, wire>>

Tick == (\E f \in todo : Dispatch(f) \/ Hold(f)) \/ FramesDone \/ Update

Next ==
  \/ \E frames \in SUBSET Frames \ {{}} : Cardinality(frames) <= PerSet /\ ClientSends(frames)
  \/ \E fs \in wire : ReceiveFrameSet(fs)
  \/ Tick

Spec == Init /\ [][Next]_vars

\* The tick thread keeps running, and the retransmissions of the client get every
\* frame set through at last.
FairSpec == Spec /\ WF_vars(Tick) /\ \A n \in 0..(MaxSeq - 1) : SF_vars(\E fs \in wire : fs.seq = n /\ ReceiveFrameSet(fs))
------------------------------------------------------------------------------
FrameSets == [seq : 0..(MaxSeq - 1), frames : SUBSET Frames]

TypeOK ==
  /\ receiver_sequence_number \in 0..MaxSeq
  /\ ack_queue \subseteq received
  /\ nack_queue \subseteq 0..MaxSeq
  /\ frame_holder \subseteq Frames
  /\ pc \in {"receive", "frames", "update"}
  /\ todo \subseteq current.frames
  /\ received \subseteq 0..(MaxSeq - 1)
  /\ acked \subseteq received
  /\ nacked \subseteq 0..MaxSeq
  /\ wire \subseteq FrameSets

\* A frame has been dealt with: its message was dispatched, or it is held.
Handled(f) == Whole(f.compound_id) \in dispatched \/ f \in frame_holder

\* What the client may forget is safe: every frame of a frame set that was ACKed
\* has been dispatched with its message or is held until the message is complete,
\* although the number enters the ACK queue before any frame is looked at.
AckedIsHandled == \A fs \in wire : fs.seq \in acked => \A f \in fs.frames : Handled(f)

\* Once every fragment of a message was ACKed, in whatever order and company they
\* came, the message has been dispatched: nothing waits for a fragment that the
\* client will never send again.
AckedMessageIsDispatched ==
  \A m \in Messages :
    (\A i \in 0..(Fragments[m] - 1) : \E fs \in wire : fs.seq \in acked /\ Frame(m, i) \in fs.frames)
      => Whole(m) \in dispatched

\* Only messages the client sent are dispatched: whole, in order, never a mixture.
DispatchedIsWhole == dispatched \subseteq {Whole(m) : m \in Messages}

\* What is left in the holder when its message was dispatched is a duplicate: it
\* cannot complete a second copy without every fragment being received again.
HolderIsIncomplete ==
  \A f \in frame_holder : get_raknet_compound_size(f.compound_id, frame_holder) < f.compound_size

\* What the hole handling of handle_frame_set achieves: of the numbers below the
\* highest received, each was received or NACKed, except that the first number of
\* a gap never is.
GapNackedButHead ==
  pc = "receive" =>
    \A n \in 0..MaxSeq :
      (\E k \in received : n < k) => n \in received \cup nacked \/ n = 0 \/ n - 1 \in received

\* A message whose fragments get through is dispatched in the end.
SentIsDispatched ==
  \A m \in Messages :
    (\A i \in 0..(Fragments[m] - 1) : \E fs \in wire : Frame(m, i) \in fs.frames)
      ~> Whole(m) \in dispatched
==============================================================================
