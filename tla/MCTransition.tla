---------------------------- MODULE MCTransition ----------------------------
(***************************************************************************)
(* Transition for TLC.  The safety run takes two sessions, which a switch, *)
(* a /back and a rejected switch need, and a third conversation for what   *)
(* is created on the way.  Nothing tells the sessions apart but what       *)
(* happens to them, so their names may be exchanged.                       *)
(***************************************************************************)
EXTENDS Transition, TLC

CONSTANTS A, B

AnySession == Permutations(Sessions)

=============================================================================
