--------------------------- MODULE MCSummaryQueue ---------------------------
(***************************************************************************)
(* SummaryQueue for TLC: the sessions of the conversations 1, 2, ...       *)
(***************************************************************************)
EXTENDS SummaryQueue

OneSession == <<"A">>

TwoSessions == <<"A", "B">>

=============================================================================
