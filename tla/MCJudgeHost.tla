----------------------------- MODULE MCJudgeHost -----------------------------
(***************************************************************************)
(* JudgeHost for TLC: the wrapper each process connects to.                *)
(***************************************************************************)
EXTENDS JudgeHost

CONSTANT w1

OneWrapper == [c \in Conns |-> w1]

=============================================================================
