----------------------------- MODULE MCRollover -----------------------------
(***************************************************************************)
(* Rollover for TLC.  Sessions differ only by their names, so they may be  *)
(* permuted in the safety runs.                                            *)
(***************************************************************************)
EXTENDS Rollover, TLC

AnySessions == Permutations(Sessions)

=============================================================================
