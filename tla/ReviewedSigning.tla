-------------------------- MODULE ReviewedSigning ---------------------------
(***************************************************************************)
(* What the signing half of the wallet promises its user, without saying   *)
(* how: the device shows one offer at a time, a signature is made of the   *)
(* offer last shown and of nothing else, before the offer is Window old,   *)
(* and uses the offer up.                                                  *)
(***************************************************************************)
EXTENDS Naturals

CONSTANTS
    Offers,   \* what a review shows: transaction, signing wallet, confirmation code
    Window,   \* how long an offer may be taken up
    None

VARIABLES
    offer,      \* the offer that may be taken up, or None
    age,        \* how long ago it was shown
    signature   \* the offer whose signature this step put out, or None

vars == <<offer, age, signature>>

Init == offer = None /\ age = 0 /\ signature = None

Present(o) == offer' = o /\ age' = 0 /\ signature' = None

Withdraw == offer' = None /\ age' = 0 /\ signature' = None

Pass ==
    /\ age' = IF offer = None THEN 0 ELSE age + 1
    /\ signature' = None
    /\ UNCHANGED offer

Quiet == signature' = None /\ UNCHANGED <<offer, age>>

Sign ==
    /\ offer # None
    /\ age < Window
    /\ signature' = offer
    /\ offer' = None /\ age' = 0

Next == (\E o \in Offers : Present(o)) \/ Withdraw \/ Pass \/ Quiet \/ Sign

Spec == Init /\ [][Next]_vars
=============================================================================
