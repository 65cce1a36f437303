----------------------------- MODULE MCRouting -----------------------------
(***************************************************************************)
(* Routing for TLC.                                                        *)
(***************************************************************************)
EXTENDS Routing, TLC

CONSTANTS a, b, A, B

\* Neither sessions nor conversations are told apart.
Renamings == Permutations({a, b}) \cup Permutations({A, B})

=============================================================================
