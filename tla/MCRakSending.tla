----------------------------- MODULE MCRakSending -----------------------------
(***************************************************************************)
(* The sending half of a connection, and the codec of the ACKs and NACKs   *)
(* it lives by: `part` says which of the two runs, the other stands still. *)
(*                                                                         *)
(* An MTU of 63 leaves 3 bytes of payload to a fragment and 27 bytes of    *)
(* frames to a datagram: two short frames share one, a third does not fit, *)
(* and a message of 6 bytes is cut in three, the last one empty.           *)
(***************************************************************************)
EXTENDS RakSender, AckRanges

VARIABLES part

SendingInit == part \in {"sender", "codec"} /\ Init /\ AckInit

\* One set of numbers to acknowledge goes with the sender, which does not look at it.
Codec  == part = "codec" /\ AckNext /\ UNCHANGED <<part, vars>>
Sending == part = "sender" /\ given = {0} /\ Next /\ UNCHANGED <<part, ack_vars>>

SendingNext == Codec \/ Sending
===============================================================================
