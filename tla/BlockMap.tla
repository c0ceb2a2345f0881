------------------------------ MODULE BlockMap ------------------------------
(***************************************************************************)
(* What a chunk promises (podrum/world/chunk/chunk.h): every place holds   *)
(* the runtime id that was last set there, and setting one place leaves    *)
(* the others alone.                                                       *)
(***************************************************************************)
CONSTANTS Places, Ids,
          Initial \* runtime id of each place in a new chunk

VARIABLES holds,
          request \* the last call that set: a place and an id

Init == /\ holds = [p \in Places |-> Initial[p]]
        /\ request = <<>>

Set(p, id) ==
  /\ request' = <<p, id>>
  /\ holds' = [holds EXCEPT ![p] = id]

Next == \E p \in Places, id \in Ids : Set(p, id)

Spec == Init /\ [][Next]_<<holds, request>>
==============================================================================
