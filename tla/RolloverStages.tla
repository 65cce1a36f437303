--------------------------- MODULE RolloverStages ---------------------------
(***************************************************************************)
(* What a context rollover promises: the hand-off of a conversation is     *)
(* asked for at most twice, the rollover then goes on to its swap, perhaps *)
(* after a wait, and until it is complete it stays with the session and    *)
(* the conversation it began with.  It may be held up, but it is never     *)
(* dropped half way.                                                       *)
(***************************************************************************)
EXTENDS Naturals

CONSTANTS Legs, NoLeg

VARIABLES
    stage,    \* how far the rollover is
    leg,      \* whose it is: a session and a conversation
    attempt   \* which request for the hand-off is out

vars == <<stage, leg, attempt>>

Init ==
    /\ stage = "idle"
    /\ leg = NoLeg
    /\ attempt = 0

Ask ==
    /\ stage = "idle"
    /\ stage' = "asking"
    /\ leg' \in Legs
    /\ attempt' = 1

AskAgain ==
    /\ stage = "asking"
    /\ attempt = 1
    /\ attempt' = 2
    /\ UNCHANGED <<stage, leg>>

\* The request is over: swap now, or as soon as the wrapper can.
Settle ==
    /\ stage = "asking"
    /\ stage' \in {"ready", "swapping"}
    /\ attempt' = 0
    /\ UNCHANGED leg

Swap ==
    /\ stage = "ready"
    /\ stage' = "swapping"
    /\ UNCHANGED <<leg, attempt>>

Complete ==
    /\ stage = "swapping"
    /\ stage' = "idle"
    /\ leg' = NoLeg
    /\ UNCHANGED attempt

Next == Ask \/ AskAgain \/ Settle \/ Swap \/ Complete

Spec == Init /\ [][Next]_vars

=============================================================================
