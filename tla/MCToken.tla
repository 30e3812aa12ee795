------------------------------- MODULE MCToken -------------------------------
(***************************************************************************)
(* Small instances of Token for TLC.                                       *)
(***************************************************************************)
EXTENDS Token

CONSTANTS alice, bob

MCAmounts == {-2, 1, 2}
MCApprovals == {<<alice, bob, 2>>, <<alice, bob, -2>>, <<bob, alice, 1>>}
=============================================================================
