------------------------------- MODULE Session -------------------------------
(***************************************************************************)
(* What the server promises its clients: a client is known once it asked   *)
(* for the network settings, plays once it was sent the world, and from    *)
(* then on hears what anybody says, in the one order in which it was said, *)
(* until it leaves.                                                        *)
(***************************************************************************)
EXTENDS Naturals, Sequences

CONSTANT Addresses

VARIABLES phase,   \* what each address is to the server
          heard,   \* what each address was told since it became known
          said     \* how much was said so far

vars == <<phase, heard, said>>

Init ==
  /\ phase = [a \in Addresses |-> "unknown"]
  /\ heard = [a \in Addresses |-> <<>>]
  /\ said = 0

Arrive(a) ==
  /\ phase[a] = "unknown"
  /\ phase' = [phase EXCEPT ![a] = "known"]
  /\ UNCHANGED <<heard, said>>

Spawn(a) ==
  /\ phase[a] = "known"
  /\ phase' = [phase EXCEPT ![a] = "playing"]
  /\ UNCHANGED <<heard, said>>

Say ==
  /\ said' = said + 1
  /\ heard' = [a \in Addresses |-> IF phase[a] = "playing" THEN Append(heard[a], said + 1)
                                                           ELSE heard[a]]
  /\ UNCHANGED phase

Leave(a) ==
  /\ phase[a] # "unknown"
  /\ phase' = [phase EXCEPT ![a] = "unknown"]
  /\ heard' = [heard EXCEPT ![a] = <<>>]
  /\ UNCHANGED said

Next == Say \/ \E a \in Addresses : Arrive(a) \/ Spawn(a) \/ Leave(a)

Spec == Init /\ [][Next]_vars
==============================================================================
