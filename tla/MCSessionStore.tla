--------------------------- MODULE MCSessionStore ---------------------------
(***************************************************************************)
(* SessionStore for TLC.  Calls differ only by their names, so they may be *)
(* permuted where no liveness is checked.                                  *)
(***************************************************************************)
EXTENDS SessionStore, TLC

AnyCall == Permutations(Calls)

=============================================================================
