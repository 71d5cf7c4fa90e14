---------------------------- MODULE MCCliReview -----------------------------
(***************************************************************************)
(* Bounded instance of CliReview: two wallets, a PSBT of each, one EVM     *)
(* transaction, which either wallet may review, and two codes, so that two *)
(* reviews in a row may draw the same one.                                 *)
(***************************************************************************)
EXTENDS CliReview, TLC

CONSTANTS w1, w2, b1, b2, e1

MCWallets == {w1, w2}
MCPsbtOwner == b1 :> w1 @@ b2 :> w2
=============================================================================
