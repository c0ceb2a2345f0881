---------------------------- MODULE MCRakReceiver ----------------------------
(* One message in one piece, two cut in two.                                 *)
EXTENDS RakReceiver, TLC

CONSTANTS short, long, other

MCMessages == {short, long, other}
MCFragments == short :> 1 @@ long :> 2 @@ other :> 2
TwoMessages == {short, long}
TwoFragments == short :> 1 @@ long :> 2
==============================================================================
