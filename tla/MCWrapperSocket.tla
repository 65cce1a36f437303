--------------------------- MODULE MCWrapperSocket ---------------------------
(***************************************************************************)
(* WrapperSocket for TLC: every process connects to the one wrapper.       *)
(***************************************************************************)
EXTENDS WrapperSocket

CONSTANT w1

OneWrapper == [c \in Conns |-> w1]

=============================================================================
