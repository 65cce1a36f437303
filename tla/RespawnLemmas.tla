---------------------------- MODULE RespawnLemmas ----------------------------
(***************************************************************************)
(* What the operators of Respawn return and keep, for every value of the   *)
(* constants.  Stated once and cited by TransitionProofs and               *)
(* RolloverProofs.                                                         *)
(***************************************************************************)
EXTENDS Respawn, TLAPS

\* Linking a conversation keeps a lineage a sequence of conversations.
LEMMA LinkType ==
    ASSUME NEW ids \in Seq(Convs), NEW c \in Convs
    PROVE  Link(ids, c) \in Seq(Convs)
BY DEF Link

\* Linking one session's lineage keeps every lineage well formed.
LEMMA LinkLineageType ==
    ASSUME RespawnTypeOK, NEW s \in Sessions, NEW c \in Convs
    PROVE  [lineage EXCEPT ![s] = Link(@, c)] \in [Sessions -> Seq(Convs)]
<1>1. lineage \in [Sessions -> Seq(Convs)]
  BY DEF RespawnTypeOK
<1>2. Link(lineage[s], c) \in Seq(Convs)
  BY <1>1, LinkType
<1> QED
  BY <1>1, <1>2

\* What the wrapper takes for the current conversation is one, or nothing.
LEMMA CurrentConvType ==
    ASSUME RespawnTypeOK
    PROVE  /\ KnownConv \in OrNull(Convs)
           /\ CurrentConv \in OrNull(Convs)
BY DEF RespawnTypeOK, KnownConv, CurrentConv, OrNull

\* So is what a session resumes.
LEMMA ResumeConvType ==
    ASSUME RespawnTypeOK, NEW s \in Sessions
    PROVE  ResumeConv(s) \in OrNull(Convs)
BY DEF RespawnTypeOK, ResumeConv, OrNull, Last

\* A registered transition is well formed, and the mirror is on its target.
LEMMA RegisterType ==
    ASSUME RespawnTypeOK,
           NEW target \in Sessions, NEW resume \in OrNull(Convs),
           NEW from \in OrNull(Sessions), NEW kind \in Kinds,
           Register(target, resume, from, kind)
    PROVE  /\ pending' \in OrNull(PendingRespawn)
           /\ mirror' \in OrNull(Sessions)
           /\ pendingFile' \in OrNull(Handoff)
           /\ archived' \in SUBSET Sessions
<1>1. CASE pending # NULL
  BY <1>1 DEF RespawnTypeOK, Register
<1>2. CASE pending = NULL
  <2>1. /\ archived' = archived \ {target}
        /\ mirror' = target
        /\ pendingFile' = [target |-> target, kind |-> kind]
        /\ pending' = [target |-> target, resume |-> resume, from |-> from,
                       kind |-> kind, terminated |-> FALSE]
    BY <1>2 DEF Register
  <2>2. pending' \in OrNull(PendingRespawn)
    BY <2>1 DEF OrNull, PendingRespawn
  <2>3. mirror' \in OrNull(Sessions) /\ pendingFile' \in OrNull(Handoff)
    BY <2>1 DEF OrNull, Handoff
  <2>4. archived' \in SUBSET Sessions
    BY <2>1 DEF RespawnTypeOK
  <2> QED
    BY <2>2, <2>3, <2>4
<1> QED
  BY <1>1, <1>2

\* The undo record after a spawn names two sessions, or there is none.
LEMMA UndoAfterSpawnType ==
    ASSUME RespawnTypeOK, pending # NULL
    PROVE  UndoAfterSpawn \in OrNull(Transit)
BY DEF RespawnTypeOK, UndoAfterSpawn, OrNull, Transit, PendingRespawn, Kinds

\* The next child is well formed, and the books of the swap are closed.
LEMMA SpawnNextType ==
    ASSUME RespawnTypeOK, SpawnNext
    PROVE  /\ child' \in OrNull(Child)
           /\ nextConv' \in 1..(MaxConv + 1)
           /\ assigned' \in OrNull(Convs)
           /\ fromHook' \in OrNull(Convs)
           /\ undo' \in OrNull(Transit)
           /\ pending' \in OrNull(PendingRespawn)
<1> USE ConvAssumption DEF OrNull
<1>1. pending \in PendingRespawn
  BY DEF SpawnNext, RespawnTypeOK
<1>2. (IF pending.resume # NULL THEN pending.resume ELSE nextConv) \in Convs
  BY <1>1 DEF SpawnNext, PendingRespawn
<1>3. child' \in OrNull(Child) /\ assigned' \in OrNull(Convs)
  BY <1>1, <1>2 DEF SpawnNext, PendingRespawn, Child, Kinds
<1>4. nextConv' \in 1..(MaxConv + 1)
  BY <1>1 DEF SpawnNext, RespawnTypeOK, Convs
<1>5. undo' \in OrNull(Transit)
  BY UndoAfterSpawnType DEF SpawnNext
<1> QED
  BY <1>3, <1>4, <1>5 DEF SpawnNext

\* Submitting, typing and moving by hand keep the child well formed.
LEMMA ChildStepType ==
    ASSUME RespawnTypeOK,
           TakeHandoff \/ StartUserTurn
    PROVE  /\ child' \in OrNull(Child)
           /\ transcripts' \in SUBSET Convs
           /\ newest' \in OrNull(Convs)
<1> USE DEF OrNull
<1>1. child \in Child
  BY DEF RespawnTypeOK, TakeHandoff, StartUserTurn
<1>2. transcripts' \in SUBSET Convs /\ newest' \in OrNull(Convs)
  BY <1>1 DEF RespawnTypeOK, TakeHandoff, StartUserTurn, WritePrompt, Child
<1>3. child' \in OrNull(Child)
  BY <1>1 DEF RespawnTypeOK, TakeHandoff, StartUserTurn, Child
<1> QED
  BY <1>2, <1>3

LEMMA MoveType ==
    ASSUME RespawnTypeOK,
           MoveByClear \/ \E c \in Convs : MoveByResume(c)
    PROVE  /\ child' \in OrNull(Child)
           /\ assigned' \in OrNull(Convs)
           /\ fromHook' \in OrNull(Convs)
<1>1. child \in Child
  BY DEF RespawnTypeOK, MoveByClear, MoveByResume, OrNull
<1> QED
  BY <1>1 DEF RespawnTypeOK, MoveByClear, MoveByResume, OrNull, Child

=============================================================================
