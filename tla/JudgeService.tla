---------------------------- MODULE JudgeService ----------------------------
(***************************************************************************)
(* What a routing judge promises its callers: a request is either turned   *)
(* away or accepted; accepting takes a judge that was warmed after the     *)
(* last request it accepted was over, one at a time; and a request that is *)
(* over stays over.                                                        *)
(***************************************************************************)
CONSTANTS Judges, Requests, JudgeOf

VARIABLES
    warm,    \* the judge may accept a request
    phase    \* what has become of each request

vars == <<warm, phase>>

Mine(j) == {r \in Requests : JudgeOf[r] = j}

Busy(j) == \E r \in Mine(j) : phase[r] = "accepted"

Init ==
    /\ warm = [j \in Judges |-> FALSE]
    /\ phase = [r \in Requests |-> "new"]

Warm(j) ==
    /\ ~Busy(j)
    /\ warm' = [warm EXCEPT ![j] = TRUE]
    /\ UNCHANGED phase

Accept(j, r) ==
    /\ warm[j] /\ ~Busy(j)
    /\ r \in Mine(j) /\ phase[r] = "new"
    /\ phase' = [phase EXCEPT ![r] = "accepted"]
    /\ warm' = [warm EXCEPT ![j] = FALSE]

\* Requests of j are over: answered, turned away or dropped; the judge may
\* have gone cold.
Finish(j) ==
    /\ \E S \in SUBSET Mine(j) :
           phase' = [r \in Requests |-> IF r \in S THEN "over" ELSE phase[r]]
    /\ \/ UNCHANGED warm
       \/ warm' = [warm EXCEPT ![j] = FALSE]

Next ==
    \E j \in Judges :
        \/ Warm(j)
        \/ Finish(j)
        \/ \E r \in Requests : Accept(j, r)

Spec == Init /\ [][Next]_vars

=============================================================================
