---------------------------- MODULE MCKeyExchange ----------------------------
(***************************************************************************)
(* Alice's contact for Bob and Bob's for Alice.  Bob's program made him a  *)
(* secret of his own, and he typed the one of Alice as the second.  Carol  *)
(* uses Alice's secret as well.  Who has other contacts is left to the     *)
(* configuration.                                                          *)
(***************************************************************************)
EXTENDS KeyExchange, TLC

CONSTANTS alice, bob, ab, ba, carol, secretA, secretB

MCPosition == ab :> 1 @@ ba :> 2
MCOwner == ab :> alice @@ ba :> bob
MCSecret1 == ab :> secretA @@ ba :> secretB
MCSecret2 == ab :> NoSecret @@ ba :> secretA
MCStrangers == {[key |-> carol, mac |-> secretA]}
=============================================================================
