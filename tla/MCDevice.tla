------------------------------ MODULE MCDevice -------------------------------
(***************************************************************************)
(* Bounded instance of Device: the smallest one in which a session, a      *)
(* review and a back-off run out at different instants.                    *)
(***************************************************************************)
EXTENDS Device, TLC

CONSTANTS p1, p2, s1, w1, b1, e1

MCPins == {p1, p2}
MCPsbtOwner == b1 :> w1
=============================================================================
