--------------------------- MODULE RolloverProofs ---------------------------
(***************************************************************************)
(* Theorems of Rollover, for any sessions and any bounds.                  *)
(***************************************************************************)
EXTENDS Rollover, RespawnLemmas

-----------------------------------------------------------------------------
(* Two invariants that need no types *)

\* What the steps that carry the machine do to its three fields.
LEMMA SwapStage ==
    ASSUME NEW leg, swap = NULL, StartSwap(leg)
    PROVE  ready' # NULL => swap' = NULL
BY DEF StartSwap

\* A concluded attempt leaves one stage set.
LEMMA AttemptStage ==
    ASSUME OneStage, req # NULL, NEW valid, ConcludeAttempt(valid)
    PROVE  OneStage'
<1>1. ready = NULL /\ swap = NULL
  BY DEF OneStage
<1>2. CASE valid \/ req.attempts = 2
  <2>1. PICK leg : StartSwap(leg)
    BY <1>2 DEF ConcludeAttempt
  <2>2. req' = NULL
    BY <1>2 DEF ConcludeAttempt
  <2> QED
    BY <1>1, <2>1, <2>2, SwapStage DEF OneStage
<1>3. CASE ~(valid \/ req.attempts = 2)
  BY <1>1, <1>3 DEF ConcludeAttempt, OneStage
<1> QED
  BY <1>2, <1>3

\* A rollover is in at most one of its stages: a turn end, a poll, a spawn
\* and the battery never leave two of the three fields set.
THEOREM StagesAreExclusive == Spec => []OneStage
<1>1. Init => OneStage
  BY DEF Init, OneStage
<1>2. OneStage /\ [Next]_vars => OneStage'
  <2> SUFFICES ASSUME OneStage, [Next]_vars PROVE OneStage'
    OBVIOUS
  <2>1. CASE Advance
    <3>1. CASE req # NULL /\ req.phase = "writing"
      <4>1. FinishHandoffTurn
        BY <2>1, <3>1 DEF Advance, RolloverIsDue
      <4> QED
        BY <3>1, <4>1, AttemptStage DEF FinishHandoffTurn, OneStage
    <3>2. CASE req = NULL /\ ready # NULL
      <4>1. StartSwap(ready) /\ UNCHANGED req /\ swap = NULL
        BY <2>1, <3>2 DEF Advance, RolloverIsDue, OneStage
      <4> QED
        BY <3>2, <4>1, SwapStage DEF OneStage
    <3>3. CASE ~(req # NULL /\ req.phase = "writing") /\ ~(req = NULL /\ ready # NULL)
      <4>1. UNCHANGED <<ready, swap>>
            /\ (RolloverIsDue \/ UNCHANGED req)
        BY <2>1, <3>3 DEF Advance
      <4> QED
        BY <4>1 DEF RolloverIsDue, OneStage
    <3> QED
      BY <3>1, <3>2, <3>3
  <2>2. CASE TurnEndSignal
    <3>1. CASE req # NULL /\ req.phase = "writing" /\ req.conv = stop.conv
      <4>1. ConcludeAttempt(stop.reply = "good")
        BY <2>2, <3>1 DEF TurnEndSignal
      <4> QED
        BY <3>1, <4>1, AttemptStage
    <3>2. CASE ~(req # NULL /\ req.phase = "writing" /\ req.conv = stop.conv)
      <4>1. UNCHANGED <<req, ready>> /\ (UNCHANGED swap \/ swap' = NULL)
        BY <2>2, <3>2 DEF TurnEndSignal, Finalize
      <4> QED
        BY <4>1 DEF OneStage
    <3> QED
      BY <3>1, <3>2
  <2>3. CASE PollTranscript
    <3>1. req # NULL /\ FinishHandoffTurn /\ Settled
      BY <2>3 DEF PollTranscript
    <3> QED
      BY <3>1, AttemptStage DEF FinishHandoffTurn
  <2>4. CASE ~Advance /\ ~TurnEndSignal /\ ~PollTranscript
    <3>1. /\ ready' = ready
          /\ swap' = swap \/ swap' = NULL
          /\ req = NULL => req' = NULL
      BY <2>4 DEF Next, Battery, Ticks, Claude, User, CheckStale, CheckContext,
         PollFinalize, Finalize, Terminate, Respawn, SubmitTrigger, TailAfter,
         Fill, WriteReply, EndTurn, ChildExits, BootMcp, ScreenBusy, ScreenIdle,
         ContextUpdate, RolloverSignal, SubmitPrompt, InterruptTurn,
         ManualClear, ManualResume, SessionSwitch, RejectSwitch, machine, vars
    <3> QED
      BY <3>1 DEF OneStage
  <2> QED
    BY <2>1, <2>2, <2>3, <2>4
<1> QED
  BY <1>1, <1>2, PTL DEF Spec

\* The deferral outlives the notice: of the ways out, none is taken while
\* the question still lies unread.
THEOREM UnreadNoticeHolds == Spec => []UnreadNoticeDefers
<1>1. Init => UnreadNoticeDefers
  BY DEF Init, UnreadNoticeDefers
<1>2. UnreadNoticeDefers /\ [Next]_vars => UnreadNoticeDefers'
  <2> SUFFICES ASSUME UnreadNoticeDefers, [Next]_vars PROVE UnreadNoticeDefers'
    OBVIOUS
  <2>1. CASE CheckStale
    BY <2>1 DEF CheckStale, notice, UnreadNoticeDefers
  <2>2. CASE TurnEndSignal
    BY <2>2 DEF TurnEndSignal, DeferralAfterNotice, UnreadNoticeDefers
  <2>3. CASE SubmitPrompt
    BY <2>3 DEF SubmitPrompt, UnreadNoticeDefers
  <2>4. CASE ~CheckStale /\ ~TurnEndSignal /\ ~SubmitPrompt
    <3>1. UNCHANGED <<deferred, noticeFile>>
      BY <2>4 DEF Next, Battery, Ticks, Claude, User, CheckContext, Advance,
         PollTranscript, PollFinalize, Terminate, Respawn, SubmitTrigger,
         Fill, WriteReply, EndTurn, ChildExits, BootMcp, ScreenBusy, ScreenIdle,
         ContextUpdate, RolloverSignal, InterruptTurn, ManualClear,
         ManualResume, SessionSwitch, RejectSwitch, notice, vars
    <3> QED
      BY <3>1 DEF UnreadNoticeDefers
  <2> QED
    BY <2>1, <2>2, <2>3, <2>4
<1> QED
  BY <1>1, <1>2, PTL DEF Spec

-----------------------------------------------------------------------------
(* Types *)

\* What the machine's steps may change, well typed.
MachineTypeOK ==
    /\ req \in OrNull(Request)
    /\ ready \in OrNull(Leg)
    /\ swap \in OrNull(Leg)
    /\ pending \in OrNull(PendingRespawn)
    /\ mirror \in OrNull(Sessions)
    /\ pendingFile \in OrNull(Handoff)
    /\ archived \in SUBSET Sessions

\* The machine's steps keep the types of what they set.
LEMMA StartHandoffTurnType ==
    ASSUME TypeOK, NEW s \in Sessions, NEW c \in Convs, NEW n \in {1, 2},
           StartHandoffTurn(s, c, n), UNCHANGED <<ready, swap>>
    PROVE  MachineTypeOK'
<1>1. req' \in Request
  BY DEF StartHandoffTurn, Request
<1>2. /\ pending' \in OrNull(PendingRespawn) /\ mirror' \in OrNull(Sessions)
      /\ pendingFile' \in OrNull(Handoff) /\ archived' \in SUBSET Sessions
  <2>1. /\ RespawnTypeOK /\ Register(s, c, s, "request")
        /\ c \in OrNull(Convs) /\ s \in OrNull(Sessions) /\ "request" \in Kinds
    BY DEF TypeOK, StartHandoffTurn, OrNull, Kinds
  <2> QED
    BY <2>1, RegisterType
<1> QED
  BY <1>1, <1>2 DEF MachineTypeOK, TypeOK, OrNull

LEMMA StartSwapType ==
    ASSUME TypeOK, NEW leg \in Leg, StartSwap(leg), req' \in OrNull(Request)
    PROVE  MachineTypeOK'
<1>1. CASE pending # NULL
  BY <1>1 DEF StartSwap, MachineTypeOK, TypeOK, RespawnTypeOK, OrNull
<1>2. CASE pending = NULL
  <2>1. leg.session \in Sessions
    BY DEF Leg
  <2>2. /\ RespawnTypeOK /\ Register(leg.session, NULL, leg.session, "swap")
        /\ ready' = NULL /\ swap' = leg
        /\ NULL \in OrNull(Convs) /\ leg.session \in OrNull(Sessions)
        /\ "swap" \in Kinds
    BY <1>2, <2>1 DEF TypeOK, StartSwap, OrNull, Kinds
  <2>3. /\ pending' \in OrNull(PendingRespawn) /\ mirror' \in OrNull(Sessions)
        /\ pendingFile' \in OrNull(Handoff) /\ archived' \in SUBSET Sessions
    BY <2>1, <2>2, RegisterType
  <2> QED
    BY <2>2, <2>3 DEF MachineTypeOK, OrNull
<1> QED
  BY <1>1, <1>2

LEMMA ConcludeAttemptType ==
    ASSUME TypeOK, req # NULL, NEW valid, ConcludeAttempt(valid)
    PROVE  MachineTypeOK'
<1>1. req \in Request
  BY DEF TypeOK, OrNull
<1>2. /\ req.session \in Sessions /\ req.conv \in Convs
      /\ [session |-> req.session, conv |-> req.conv] \in Leg
  BY <1>1 DEF Request, Leg
<1>3. CASE valid \/ req.attempts = 2
  <2>1. /\ req' = NULL /\ req' \in OrNull(Request)
        /\ StartSwap([session |-> req.session, conv |-> req.conv])
    BY <1>3 DEF ConcludeAttempt, OrNull
  <2> QED
    BY <1>2, <2>1, StartSwapType
<1>4. CASE ~(valid \/ req.attempts = 2)
  <2>1. /\ StartHandoffTurn(req.session, req.conv, 2)
        /\ UNCHANGED <<ready, swap>>
    BY <1>4 DEF ConcludeAttempt
  <2> QED
    BY <1>2, <2>1, StartHandoffTurnType
<1> QED
  BY <1>3, <1>4

LEMMA FinishHandoffTurnType ==
    ASSUME TypeOK, req # NULL, FinishHandoffTurn
    PROVE  MachineTypeOK'
<1>1. CASE Settled
  BY <1>1, ConcludeAttemptType DEF FinishHandoffTurn
<1>2. CASE ~Settled
  BY <1>2 DEF FinishHandoffTurn, MachineTypeOK, TypeOK, RespawnTypeOK
<1> QED
  BY <1>1, <1>2

LEMMA FinalizeType ==
    ASSUME TypeOK, swap # NULL, NEW c \in Convs, Finalize(c)
    PROVE  /\ lineage' \in [Sessions -> Seq(Convs)]
           /\ precedents' \in [Sessions -> SUBSET Sessions]
           /\ swap' = NULL /\ mark' = NULL
<1>1. swap.session \in Sessions /\ swap.conv \in Convs
  BY DEF TypeOK, OrNull, Leg
<1>2. lineage \in [Sessions -> Seq(Convs)]
      /\ precedents \in [Sessions -> SUBSET Sessions]
  BY DEF TypeOK, RespawnTypeOK
<1>3. Link(Link(lineage[swap.session], swap.conv), c) \in Seq(Convs)
  <2>1. Link(lineage[swap.session], swap.conv) \in Seq(Convs)
    BY <1>1, <1>2, LinkType
  <2> QED
    BY <2>1, LinkType
<1>4. lineage' \in [Sessions -> Seq(Convs)]
  BY <1>1, <1>2, <1>3 DEF Finalize
<1>5. precedents' \in [Sessions -> SUBSET Sessions]
  BY <1>1, <1>2 DEF Finalize
<1> QED
  BY <1>4, <1>5 DEF Finalize

\* The wrapper starts well typed.
LEMMA InitType == Init => TypeOK
<1> SUFFICES ASSUME Init PROVE TypeOK
  OBVIOUS
<1> USE ConvAssumption, RolloverAssumption DEF OrNull
<1>1. OldConvs \in 1..MaxConv /\ 1..OldConvs \subseteq Convs
  BY DEF Convs
<1>2. lineage \in [Sessions -> Seq(Convs)]
  <2>1. \A ids \in OldLineages : ids \in Seq(Convs)
    <3> SUFFICES ASSUME NEW ids \in OldLineages PROVE ids \in Seq(Convs)
      OBVIOUS
    <3>1. PICK n \in 0..OldConvs : ids \in [1..n -> 1..OldConvs]
      BY DEF OldLineages
    <3>2. n \in Nat /\ ids \in [1..n -> Convs]
      BY <1>1, <3>1
    <3> QED
      BY <3>2
  <2> QED
    BY <2>1 DEF Init
<1>3. newest \in Convs /\ nextConv \in 1..(MaxConv + 1)
  BY <1>1 DEF Init
<1>4. /\ transcripts \in SUBSET Convs /\ full \in SUBSET Convs
      /\ answered \in SUBSET Convs /\ bornFull \in SUBSET Convs
  BY <1>1 DEF Init
<1>5. mirror \in OrNull(Sessions) /\ child \in OrNull(Child)
  <2>1. child \in Child
    BY <1>3 DEF Init, Child
  <2>2. mirror \in Sessions
    BY DEF Init, Owners
  <2> QED
    BY <2>1, <2>2
<1>6. /\ registered \in SUBSET Sessions /\ archived \in SUBSET Sessions
      /\ precedents \in [Sessions -> SUBSET Sessions]
  BY DEF Init
<1>7. /\ pending \in OrNull(PendingRespawn) /\ assigned \in OrNull(Convs)
      /\ fromHook \in OrNull(Convs) /\ undo \in OrNull(Transit)
      /\ pendingFile \in OrNull(Handoff) /\ newest \in OrNull(Convs)
  BY <1>3 DEF Init
<1>8. /\ mark \in OrNull(Convs) /\ req \in OrNull(Request)
      /\ ready \in OrNull(Leg) /\ swap \in OrNull(Leg)
      /\ deferred \in OrNull(Convs) /\ warned \in SUBSET Convs
      /\ noticeFile \in OrNull(Convs) /\ stop \in OrNull(StopSignal)
      /\ moves \in 0..MaxMoves
  BY DEF Init
<1>9. /\ pc \in {"loop", "stale", "context", "advance"}
      /\ seenBusy \in BOOLEAN /\ mcp \in BOOLEAN
  BY DEF Init
<1> QED
  BY <1>2, <1>3, <1>4, <1>5, <1>6, <1>7, <1>8, <1>9 DEF TypeOK, RespawnTypeOK

\* The battery.
LEMMA BatteryStepType ==
    ASSUME TypeOK, Battery
    PROVE  TypeOK'
<1> USE DEF OrNull, respawnVars, childVars, wrapperVars, diskVars, storeVars,
            machine, notice, usage
<1>0. CurrentConv \in OrNull(Convs)
  BY CurrentConvType DEF TypeOK
<1>1. CASE CheckStale
  <2>1. /\ warned' \in SUBSET Convs /\ deferred' \in OrNull(Convs)
        /\ noticeFile' \in OrNull(Convs)
    <3>1. CASE EnteredStale
      <4>1. CurrentConv \in Convs
        BY <1>0, <3>1 DEF EnteredStale
      <4> QED
        BY <1>1, <3>1, <4>1 DEF CheckStale, TypeOK
    <3>2. CASE ~EnteredStale
      BY <1>1, <3>2 DEF CheckStale, TypeOK
    <3> QED
      BY <3>1, <3>2
  <2>2. /\ pc' = "context"
        /\ UNCHANGED <<respawnVars, machine, seenBusy, stop, usage, mcp, moves>>
    BY <1>1 DEF CheckStale
  <2> QED
    BY <2>1, <2>2 DEF TypeOK, RespawnTypeOK
<1>2. CASE CheckContext
  <2>1. mark' \in OrNull(Convs)
    BY <1>0, <1>2 DEF CheckContext, TypeOK
  <2>2. /\ pc' = "advance"
        /\ UNCHANGED <<respawnVars, req, ready, swap, notice, seenBusy, stop,
                       usage, mcp, moves>>
    BY <1>2 DEF CheckContext
  <2> QED
    BY <2>1, <2>2 DEF TypeOK, RespawnTypeOK
<1>3. CASE Advance
  <2>1. MachineTypeOK'
    <3>1. CASE req # NULL /\ req.phase = "writing"
      <4>1. FinishHandoffTurn
        BY <1>3, <3>1 DEF Advance, RolloverIsDue
      <4> QED
        BY <3>1, <4>1, FinishHandoffTurnType
    <3>2. CASE req = NULL /\ ready # NULL
      <4>1. StartSwap(ready) /\ UNCHANGED req
        BY <1>3, <3>2 DEF Advance, RolloverIsDue
      <4>2. ready \in Leg /\ req' \in OrNull(Request)
        BY <3>2, <4>1 DEF TypeOK
      <4> QED
        BY <4>1, <4>2, StartSwapType
    <3>3. CASE RolloverIsDue
      <4>1. StartHandoffTurn(mirror, mark, 1) /\ UNCHANGED <<ready, swap>>
        BY <1>3, <3>3 DEF Advance, RolloverIsDue
      <4>2. mirror \in Sessions /\ mark \in Convs
        BY <3>3 DEF TypeOK, RespawnTypeOK, RolloverIsDue
      <4> QED
        BY <4>1, <4>2, StartHandoffTurnType
    <3>4. CASE /\ ~(req # NULL /\ req.phase = "writing")
               /\ ~(req = NULL /\ ready # NULL) /\ ~RolloverIsDue
      <4>1. UNCHANGED <<req, ready, swap, pending, mirror, pendingFile, archived>>
        BY <1>3, <3>4 DEF Advance
      <4> QED
        BY <4>1 DEF MachineTypeOK, TypeOK, RespawnTypeOK
    <3> QED
      BY <3>1, <3>2, <3>3, <3>4
  <2>2. /\ pc' = "loop"
        /\ UNCHANGED <<childVars, assigned, fromHook, undo, transcripts, newest,
                       registered, lineage, precedents, mark, notice, seenBusy,
                       stop, usage, mcp, moves>>
    BY <1>3 DEF Advance
  <2> QED
    BY <2>1, <2>2 DEF MachineTypeOK, TypeOK, RespawnTypeOK
<1> QED
  BY <1>1, <1>2, <1>3 DEF Battery

\* A turn-end signal.
LEMMA TurnEndSignalType ==
    ASSUME TypeOK, TurnEndSignal
    PROVE  TypeOK'
<1> USE DEF OrNull, childVars
<1>1. stop \in StopSignal /\ stop.conv \in Convs
  BY DEF TypeOK, TurnEndSignal, StopSignal
<1>2. /\ stop' = NULL /\ fromHook' = stop.conv /\ deferred' = DeferralAfterNotice
      /\ pc' = pc \/ pc' = "stale"
      /\ UNCHANGED <<childVars, assigned, undo, transcripts, newest, registered,
                     warned, noticeFile, seenBusy, usage, mcp, moves>>
  BY DEF TurnEndSignal
<1>3. deferred' \in OrNull(Convs)
  BY <1>2 DEF DeferralAfterNotice, TypeOK
<1>4. /\ MachineTypeOK' /\ mark' \in OrNull(Convs)
      /\ lineage' \in [Sessions -> Seq(Convs)]
      /\ precedents' \in [Sessions -> SUBSET Sessions]
  <2>1. CASE req # NULL /\ req.phase = "writing" /\ req.conv = stop.conv
    <3>1. /\ ConcludeAttempt(stop.reply = "good")
          /\ UNCHANGED <<mark, lineage, precedents>>
      BY <2>1 DEF TurnEndSignal
    <3>2. MachineTypeOK'
      BY <2>1, <3>1, ConcludeAttemptType
    <3> QED
      BY <3>1, <3>2 DEF TypeOK, RespawnTypeOK
  <2>2. CASE ~(req # NULL /\ req.phase = "writing" /\ req.conv = stop.conv)
    <3>1. UNCHANGED <<req, ready, pending, mirror, pendingFile, archived>>
      BY <2>2 DEF TurnEndSignal
    <3>2. CASE swap # NULL /\ stop.conv # swap.conv
      <4>1. Finalize(stop.conv)
        BY <2>2, <3>2 DEF TurnEndSignal
      <4> QED
        BY <1>1, <3>1, <3>2, <4>1, FinalizeType
        DEF MachineTypeOK, TypeOK, RespawnTypeOK
    <3>3. CASE ~(swap # NULL /\ stop.conv # swap.conv)
      <4>1. UNCHANGED <<swap, mark, lineage, precedents>>
        BY <2>2, <3>3 DEF TurnEndSignal
      <4> QED
        BY <3>1, <4>1 DEF MachineTypeOK, TypeOK, RespawnTypeOK
    <3> QED
      BY <3>2, <3>3
  <2> QED
    BY <2>1, <2>2
<1> QED
  BY <1>1, <1>2, <1>3, <1>4 DEF MachineTypeOK, TypeOK, RespawnTypeOK, usage

\* The ticks of the wrapper's loop.
LEMMA TickStepType ==
    ASSUME TypeOK, Ticks
    PROVE  TypeOK'
<1> USE DEF OrNull, respawnVars, childVars, wrapperVars, diskVars, storeVars,
            machine, notice, usage
<1>1. CASE PollTranscript
  <2>1. MachineTypeOK'
    BY <1>1, FinishHandoffTurnType DEF PollTranscript
  <2>2. UNCHANGED <<childVars, assigned, fromHook, undo, transcripts, newest,
                    registered, lineage, precedents, pc, mark, notice, seenBusy,
                    stop, usage, mcp, moves>>
    BY <1>1 DEF PollTranscript
  <2> QED
    BY <2>1, <2>2 DEF MachineTypeOK, TypeOK, RespawnTypeOK
<1>2. CASE PollFinalize
  <2>1. CurrentConv \in Convs /\ swap # NULL /\ Finalize(CurrentConv)
    BY <1>2, CurrentConvType DEF PollFinalize, SuccessorObserved, TypeOK
  <2>2. /\ lineage' \in [Sessions -> Seq(Convs)]
        /\ precedents' \in [Sessions -> SUBSET Sessions]
        /\ swap' = NULL /\ mark' = NULL
    BY <2>1, FinalizeType
  <2>3. UNCHANGED <<childVars, wrapperVars, diskVars, registered, archived, pc,
                    req, ready, notice, seenBusy, stop, usage, mcp, moves>>
    BY <1>2 DEF PollFinalize
  <2> QED
    BY <2>2, <2>3 DEF TypeOK, RespawnTypeOK
<1>3. CASE Terminate
  <2>1. pending' \in PendingRespawn
    BY <1>3 DEF Terminate, SendTerminate, TypeOK, RespawnTypeOK, PendingRespawn
  <2> QED
    BY <1>3, <2>1 DEF Terminate, TypeOK, RespawnTypeOK
<1>4. CASE Respawn
  <2>1. RespawnTypeOK /\ SpawnNext
    BY <1>4 DEF Respawn, TypeOK
  <2>2. /\ child' \in OrNull(Child)
        /\ nextConv' \in 1..(MaxConv + 1)
        /\ assigned' \in OrNull(Convs)
        /\ fromHook' \in OrNull(Convs)
        /\ undo' \in OrNull(Transit)
        /\ pending' \in OrNull(PendingRespawn)
    BY <2>1, SpawnNextType
  <2>3. req' \in OrNull(Request)
    BY <1>4 DEF Respawn, TypeOK, Request
  <2>4. /\ seenBusy' \in BOOLEAN /\ mcp' \in BOOLEAN
        /\ UNCHANGED <<mirror, diskVars, storeVars, pc, mark, ready, swap,
                       notice, stop, usage, moves>>
    BY <1>4 DEF Respawn
  <2> QED
    BY <2>2, <2>3, <2>4 DEF TypeOK, RespawnTypeOK
<1> QED
  BY <1>1, <1>2, <1>3, <1>4 DEF Ticks

\* A prompt or a reply moves a request's transcript, nothing else of it.
LEMMA TailType ==
    ASSUME TypeOK, NEW prompt
    PROVE  TailAfter(prompt) \in OrNull(Request)
BY DEF TypeOK, TailAfter, OrNull, Request

\* Claude Code, its hooks and its screen.
LEMMA ClaudeStepType ==
    ASSUME TypeOK, Claude
    PROVE  TypeOK'
<1> USE DEF OrNull, respawnVars, childVars, wrapperVars, diskVars, storeVars,
            machine, notice, usage
<1>0. RespawnTypeOK
  BY DEF TypeOK
<1>1. CASE SubmitTrigger
  <2>1. TakeHandoff /\ pendingFile' = NULL
    BY <1>1 DEF SubmitTrigger, TakeHandoff
  <2>2. /\ child' \in OrNull(Child) /\ transcripts' \in SUBSET Convs
        /\ newest' \in OrNull(Convs)
    BY <1>0, <2>1, ChildStepType
  <2>3. req' \in OrNull(Request)
    BY <1>1, TailType DEF SubmitTrigger
  <2> QED
    BY <1>1, <2>1, <2>2, <2>3 DEF SubmitTrigger, TypeOK, RespawnTypeOK
<1>2. CASE Fill
  <2>1. full' \in SUBSET Convs
    BY <1>0, <1>2 DEF Fill, TypeOK, RespawnTypeOK, Child
  <2> QED
    BY <1>2, <2>1 DEF Fill, TypeOK, RespawnTypeOK
<1>3. CASE WriteReply
  <2>1. child \in Child
    BY <1>0, <1>3 DEF WriteReply, RespawnTypeOK
  <2>2. child' \in Child
    BY <1>3, <2>1 DEF WriteReply, Child
  <2>3. answered' \in SUBSET Convs /\ bornFull' \in SUBSET Convs
    <3>1. child.conv \in Convs
      BY <2>1 DEF Child
    <3>2. bornFull' = bornFull \/ bornFull' = bornFull \cup {child.conv}
      BY <1>3 DEF WriteReply
    <3> QED
      BY <1>3, <3>1, <3>2 DEF WriteReply, TypeOK
  <2>4. req' \in OrNull(Request)
    BY <1>3 DEF WriteReply, TypeOK, Request
  <2>5. UNCHANGED <<nextConv, wrapperVars, diskVars, storeVars, pc, mark, ready,
                    swap, notice, seenBusy, stop, full, mcp, moves>>
    BY <1>3 DEF WriteReply
  <2> QED
    BY <2>2, <2>3, <2>4, <2>5 DEF TypeOK, RespawnTypeOK
<1>4. CASE EndTurn
  <2>1. child \in Child
    BY <1>0, <1>4 DEF EndTurn, RespawnTypeOK
  <2>2. child' \in Child
    BY <1>4, <2>1 DEF EndTurn, Child
  <2>3. stop' \in OrNull(StopSignal)
    <3>1. child.conv \in Convs
      BY <2>1 DEF Child
    <3> QED
      BY <1>4, <3>1 DEF EndTurn, StopSignal
  <2>4. UNCHANGED <<nextConv, wrapperVars, diskVars, storeVars, pc, machine,
                    notice, seenBusy, usage, mcp, moves>>
    BY <1>4 DEF EndTurn
  <2> QED
    BY <2>2, <2>3, <2>4 DEF TypeOK, RespawnTypeOK
<1>5. CASE ChildExits
  BY <1>5 DEF ChildExits, ExitChild, TypeOK, RespawnTypeOK
<1>6. CASE BootMcp
  <2>1. lineage' \in [Sessions -> Seq(Convs)]
    <3>1. CASE KnownConv # NULL
      <4>1. KnownConv \in Convs /\ mirror \in Sessions
        BY <1>0, <1>6, <3>1, CurrentConvType DEF BootMcp, RespawnTypeOK
      <4> QED
        BY <1>0, <1>6, <3>1, <4>1, LinkLineageType DEF BootMcp
    <3>2. CASE KnownConv = NULL
      BY <1>0, <1>6, <3>2 DEF BootMcp, RespawnTypeOK
    <3> QED
      BY <3>1, <3>2
  <2>2. /\ mcp' \in BOOLEAN
        /\ UNCHANGED <<childVars, wrapperVars, diskVars, registered, archived,
                       precedents, pc, machine, notice, seenBusy, stop, usage,
                       moves>>
    BY <1>6 DEF BootMcp
  <2> QED
    BY <2>1, <2>2 DEF TypeOK, RespawnTypeOK
<1>7. CASE ScreenBusy \/ ScreenIdle \/ ContextUpdate
  <2>1. /\ seenBusy' \in BOOLEAN
        /\ pc' = pc \/ pc' = "stale"
        /\ UNCHANGED <<respawnVars, machine, notice, stop, usage, mcp, moves>>
    BY <1>7 DEF ScreenBusy, ScreenIdle, ContextUpdate, TypeOK
  <2> QED
    BY <2>1 DEF TypeOK, RespawnTypeOK
<1>8. CASE RolloverSignal
  <2>1. child.conv \in Convs
    BY <1>0, <1>8 DEF RolloverSignal, AtSelect, RespawnTypeOK, Child
  <2> QED
    BY <1>8, <2>1 DEF RolloverSignal, TypeOK, RespawnTypeOK
<1> QED
  BY <1>1, <1>2, <1>3, <1>4, <1>5, <1>6, <1>7, <1>8 DEF Claude

\* The user, and the tools the user's turns call.
LEMMA UserStepType ==
    ASSUME TypeOK, User
    PROVE  TypeOK'
<1> USE DEF OrNull, respawnVars, childVars, wrapperVars, diskVars, storeVars,
            machine, notice, usage
<1>0. /\ RespawnTypeOK
      /\ precedents \in [Sessions -> SUBSET Sessions]
      /\ lineage \in [Sessions -> Seq(Convs)]
  BY DEF TypeOK, RespawnTypeOK
<1>m. ASSUME Move PROVE moves' \in 0..MaxMoves
  BY <1>m, RolloverAssumption DEF Move, TypeOK
<1>1. CASE SubmitPrompt
  <2>1. StartUserTurn
    BY <1>1 DEF SubmitPrompt
  <2>2. /\ child' \in OrNull(Child) /\ transcripts' \in SUBSET Convs
        /\ newest' \in OrNull(Convs)
    BY <1>0, <2>1, ChildStepType
  <2>3. /\ req' \in OrNull(Request) /\ deferred' \in OrNull(Convs)
        /\ noticeFile' = NULL
    BY <1>1, TailType DEF SubmitPrompt, DeferralAfterNotice, TypeOK
  <2> QED
    BY <1>1, <2>2, <2>3 DEF SubmitPrompt, TypeOK, RespawnTypeOK
<1>2. CASE InterruptTurn
  <2>1. child' \in Child /\ moves' \in 0..MaxMoves
    BY <1>0, <1>2, <1>m DEF InterruptTurn, RespawnTypeOK, Child
  <2> QED
    BY <1>2, <2>1 DEF InterruptTurn, TypeOK, RespawnTypeOK
<1>3. CASE ManualClear
  <2>1. MoveByClear /\ nextConv' \in 1..(MaxConv + 1)
    BY <1>0, <1>3, ConvAssumption
    DEF ManualClear, MoveByClear, RespawnTypeOK, Convs
  <2>2. /\ child' \in OrNull(Child) /\ assigned' \in OrNull(Convs)
        /\ fromHook' \in OrNull(Convs)
    BY <1>0, <2>1, MoveType
  <2>3. moves' \in 0..MaxMoves
    BY <1>3, <1>m DEF ManualClear
  <2> QED
    BY <1>3, <2>1, <2>2, <2>3 DEF ManualClear, TypeOK, RespawnTypeOK
<1>4. ASSUME NEW c \in Convs, ManualResume(c) PROVE TypeOK'
  <2>1. MoveByResume(c)
    BY <1>4 DEF ManualResume
  <2>2. /\ child' \in OrNull(Child) /\ assigned' \in OrNull(Convs)
        /\ fromHook' \in OrNull(Convs)
    BY <1>0, <2>1, MoveType
  <2>3. newest' \in OrNull(Convs)
    BY <1>0, <2>1 DEF MoveByResume, RespawnTypeOK
  <2>4. moves' \in 0..MaxMoves /\ seenBusy' \in BOOLEAN
    BY <1>4, <1>m DEF ManualResume, TypeOK
  <2> QED
    BY <1>4, <2>2, <2>3, <2>4 DEF ManualResume, TypeOK, RespawnTypeOK
<1>5. ASSUME NEW s \in Sessions, SessionSwitch(s) PROVE TypeOK'
  <2>1. mirror \in Sessions /\ "switch" \in Kinds
    BY <1>0, <1>5 DEF SessionSwitch, RespawnTypeOK, Kinds
  <2>2. Register(s, ResumeConv(s), mirror, "switch")
    BY <1>5 DEF SessionSwitch
  <2>3. /\ pending' \in OrNull(PendingRespawn) /\ mirror' \in OrNull(Sessions)
        /\ pendingFile' \in OrNull(Handoff) /\ archived' \in SUBSET Sessions
    <3>1. ResumeConv(s) \in OrNull(Convs) /\ mirror \in OrNull(Sessions)
      BY <1>0, <2>1, ResumeConvType
    <3> QED
      BY <1>0, <2>1, <2>2, <3>1, RegisterType
  <2>4. lineage' \in [Sessions -> Seq(Convs)]
    <3>1. CASE CurrentConv # NULL
      <4>1. CurrentConv \in Convs
        BY <1>0, <3>1, CurrentConvType
      <4> QED
        BY <1>0, <1>5, <2>1, <3>1, <4>1, LinkLineageType DEF SessionSwitch
    <3>2. CASE CurrentConv = NULL
      BY <1>0, <1>5, <3>2 DEF SessionSwitch
    <3> QED
      BY <3>1, <3>2
  <2>5. precedents' \in [Sessions -> SUBSET Sessions]
    BY <1>0, <1>5, <2>1 DEF SessionSwitch
  <2>6. moves' \in 0..MaxMoves
    BY <1>5, <1>m DEF SessionSwitch
  <2>7. UNCHANGED <<childVars, assigned, fromHook, undo, transcripts, newest,
                    registered, pc, machine, notice, seenBusy, stop, usage, mcp>>
    BY <1>5 DEF SessionSwitch
  <2> QED
    BY <2>3, <2>4, <2>5, <2>6, <2>7 DEF TypeOK, RespawnTypeOK
<1>6. ASSUME NEW s \in Sessions, RejectSwitch(s) PROVE TypeOK'
  <2>1. precedents' \in [Sessions -> SUBSET Sessions] /\ moves' \in 0..MaxMoves
    BY <1>0, <1>6, <1>m DEF RejectSwitch, RespawnTypeOK
  <2> QED
    BY <1>6, <2>1 DEF RejectSwitch, TypeOK, RespawnTypeOK
<1> QED
  BY <1>1, <1>2, <1>3, <1>4, <1>5, <1>6 DEF User

\* Nothing happens.
LEMMA StutterType ==
    ASSUME TypeOK, UNCHANGED vars
    PROVE  TypeOK'
BY DEF vars, respawnVars, childVars, wrapperVars, diskVars, storeVars, machine,
       notice, usage, TypeOK, RespawnTypeOK

\* Every variable keeps its type: no step of the machine registers a respawn
\* or a request without a session and a conversation.
THEOREM TypeCorrect == Spec => []TypeOK
<1>1. Init => TypeOK
  BY InitType
<1>2. TypeOK /\ [Next]_vars => TypeOK'
  BY BatteryStepType, TurnEndSignalType, TickStepType, ClaudeStepType,
     UserStepType, StutterType DEF Next
<1> QED
  BY <1>1, <1>2, PTL DEF Spec

-----------------------------------------------------------------------------
(* A dedicated turn and its request *)

\* What waits to be spawned is no dedicated turn.
NoRequestPending == pending # NULL => pending.kind # "request"

\* Asking for a hand-off puts request and respawn on the books together, or
\* the request alone behind a transition of another kind.
LEMMA AskedTogether ==
    ASSUME TypeOK, NEW s \in Sessions, NEW c \in Convs, NEW n \in {1, 2},
           NoRequestPending, StartHandoffTurn(s, c, n)
    PROVE  RespawnHasItsRequest'
<1>1. /\ req' = [session |-> s, conv |-> c, attempts |-> n,
                 phase |-> "requested", tail |-> "nothing"]
      /\ Register(s, c, s, "request")
  BY DEF StartHandoffTurn
<1>2. req' \in Request
  BY <1>1 DEF Request
<1>3. req' # NULL
  BY <1>2, RolloverNullAssumption
<1>4. CASE pending # NULL
  BY <1>1, <1>4 DEF Register, NoRequestPending, RespawnHasItsRequest
<1>5. CASE pending = NULL
  <2>1. pending'.target = s /\ pending'.resume = c
    BY <1>1, <1>5 DEF Register
  <2> QED
    BY <1>1, <1>3, <2>1 DEF RespawnHasItsRequest
<1> QED
  BY <1>4, <1>5

\* A registered swap is no dedicated turn either.
LEMMA SwapIsNoRequest ==
    ASSUME NEW leg, NoRequestPending, StartSwap(leg)
    PROVE  NoRequestPending'
BY DEF StartSwap, Register, NoRequestPending

\* An attempt is only concluded once its turn was spawned, when no respawn
\* for it is registered any more.
LEMMA ConcludedTogether ==
    ASSUME TypeOK, RespawnHasItsRequest, req # NULL, req.phase = "writing",
           NEW valid, ConcludeAttempt(valid)
    PROVE  RespawnHasItsRequest'
<1>1. NoRequestPending
  BY DEF RespawnHasItsRequest, NoRequestPending
<1>2. req.session \in Sessions /\ req.conv \in Convs
  BY DEF TypeOK, OrNull, Request
<1>3. CASE valid \/ req.attempts = 2
  <2>1. PICK leg : StartSwap(leg)
    BY <1>3 DEF ConcludeAttempt
  <2>2. NoRequestPending'
    BY <1>1, <2>1, SwapIsNoRequest
  <2> QED
    BY <2>2 DEF NoRequestPending, RespawnHasItsRequest
<1>4. CASE ~(valid \/ req.attempts = 2)
  <2>1. StartHandoffTurn(req.session, req.conv, 2)
    BY <1>4 DEF ConcludeAttempt
  <2> QED
    BY <1>1, <1>2, <2>1, AskedTogether
<1> QED
  BY <1>3, <1>4

\* What a transcript may hold of a request.
Tails == {"nothing", "foreign", "asked", "good", "bad"}

\* What a prompt or a reply changes of a request is its transcript.
LEMMA TailKeepsRequest ==
    ASSUME TypeOK, req # NULL,
           \/ \E prompt : req' = TailAfter(prompt)
           \/ \E r \in Tails : req' = [req EXCEPT !.tail = r]
           \/ req' = req
    PROVE  /\ req' # NULL
           /\ req'.phase = req.phase
           /\ req'.session = req.session
           /\ req'.conv = req.conv
           /\ req'.attempts = req.attempts
<1>1. req \in Request
  BY DEF TypeOK, OrNull
<1>2. req' = req \/ \E r \in Tails : req' = [req EXCEPT !.tail = r]
  BY DEF TailAfter, Tails
<1>3. CASE req' = req
  BY <1>3
<1>4. ASSUME NEW r \in Tails, req' = [req EXCEPT !.tail = r]
      PROVE  /\ req' # NULL /\ req'.phase = req.phase
             /\ req'.session = req.session /\ req'.conv = req.conv
             /\ req'.attempts = req.attempts
  <2>1. req'.phase = req.phase /\ req'.session = req.session
        /\ req'.conv = req.conv /\ req'.attempts = req.attempts
    BY <1>1, <1>4 DEF Request
  <2>2. req' \in Request
    BY <1>1, <1>4 DEF Request, Tails
  <2>3. req' # NULL
    BY <2>2, RolloverNullAssumption
  <2> QED
    BY <2>1, <2>3
<1> QED
  BY <1>2, <1>3, <1>4

\* Steps other than the machine's own: the request keeps what matters, and
\* the registered respawn goes, is terminated, or is a switch.
LEMMA OthersKeepRequest ==
    ASSUME TypeOK, RespawnHasItsRequest, [Next]_vars,
           ~Advance, ~TurnEndSignal, ~PollTranscript
    PROVE  RespawnHasItsRequest'
<1> USE DEF respawnVars, childVars, wrapperVars, diskVars, storeVars, machine
<1>1. CASE Respawn
  BY <1>1 DEF Respawn, SpawnNext, RespawnHasItsRequest
<1>2. CASE ~Respawn
  <2>1. \/ UNCHANGED req
        \/ req # NULL /\ \E prompt : req' = TailAfter(prompt)
        \/ req = NULL /\ UNCHANGED req
        \/ req # NULL /\ \E r \in Tails : req' = [req EXCEPT !.tail = r]
    BY <1>2 DEF Next, Battery, Ticks, Claude, User, CheckStale, CheckContext,
       PollFinalize, Terminate, SubmitTrigger, Fill, WriteReply, EndTurn,
       ChildExits, BootMcp, ScreenBusy, ScreenIdle, ContextUpdate,
       RolloverSignal, SubmitPrompt, InterruptTurn, ManualClear, ManualResume,
       SessionSwitch, RejectSwitch, TailAfter, Tails, vars
  <2>2. req # NULL => /\ req' # NULL
                      /\ req'.phase = req.phase
                      /\ req'.session = req.session
                      /\ req'.conv = req.conv
    BY <2>1, TailKeepsRequest
  <2>3. CASE Terminate
    <3>1. pending \in PendingRespawn /\ pending' = [pending EXCEPT !.terminated = TRUE]
      BY <2>3 DEF Terminate, SendTerminate, TypeOK, RespawnTypeOK, OrNull
    <3>2. /\ pending # NULL /\ pending'.kind = pending.kind
          /\ pending'.target = pending.target /\ pending'.resume = pending.resume
      BY <2>3, <3>1 DEF PendingRespawn, Terminate, SendTerminate
    <3> QED
      BY <2>2, <3>2 DEF RespawnHasItsRequest
  <2>4. CASE \E s \in Sessions : SessionSwitch(s)
    <3>1. pending' = pending \/ pending'.kind = "switch"
      BY <2>4 DEF SessionSwitch, Register
    <3> QED
      BY <2>2, <3>1 DEF RespawnHasItsRequest
  <2>5. CASE ~Terminate /\ ~\E s \in Sessions : SessionSwitch(s)
    <3>1. UNCHANGED pending
      BY <1>2, <2>5 DEF Next, Battery, Ticks, Claude, User, CheckStale,
         CheckContext, PollFinalize, SubmitTrigger, Fill, WriteReply, EndTurn,
         ChildExits, BootMcp, ScreenBusy, ScreenIdle, ContextUpdate,
         RolloverSignal, SubmitPrompt, InterruptTurn, ManualClear,
         ManualResume, RejectSwitch, vars
    <3> QED
      BY <2>2, <3>1 DEF RespawnHasItsRequest
  <2> QED
    BY <2>3, <2>4, <2>5
<1> QED
  BY <1>1, <1>2

\* A respawn registered for a dedicated turn finds its own request when its
\* child is spawned, in the phase before the turn.
THEOREM RequestsAreKept == Spec => []RespawnHasItsRequest
<1>1. Init => RespawnHasItsRequest
  BY DEF Init, RespawnHasItsRequest
<1>2. TypeOK /\ RespawnHasItsRequest /\ [Next]_vars => RespawnHasItsRequest'
  <2> SUFFICES ASSUME TypeOK, RespawnHasItsRequest, [Next]_vars
               PROVE  RespawnHasItsRequest'
    OBVIOUS
  <2>1. CASE Advance
    <3>1. CASE req # NULL /\ req.phase = "writing"
      <4>1. FinishHandoffTurn
        BY <2>1, <3>1 DEF Advance, RolloverIsDue
      <4> QED
        BY <3>1, <4>1, ConcludedTogether
        DEF FinishHandoffTurn, RespawnHasItsRequest
    <3>2. CASE req = NULL /\ ready # NULL
      <4>1. StartSwap(ready) /\ NoRequestPending
        BY <2>1, <3>2 DEF Advance, RolloverIsDue, RespawnHasItsRequest,
           NoRequestPending
      <4>2. NoRequestPending'
        BY <4>1, SwapIsNoRequest
      <4> QED
        BY <4>2 DEF NoRequestPending, RespawnHasItsRequest
    <3>3. CASE RolloverIsDue
      <4>1. StartHandoffTurn(mirror, mark, 1) /\ NoRequestPending
        BY <2>1, <3>3 DEF Advance, RolloverIsDue, NoRequestPending
      <4>2. mirror \in Sessions /\ mark \in Convs
        BY <3>3 DEF TypeOK, RespawnTypeOK, RolloverIsDue, OrNull
      <4> QED
        BY <4>1, <4>2, AskedTogether
    <3>4. CASE /\ ~(req # NULL /\ req.phase = "writing")
               /\ ~(req = NULL /\ ready # NULL) /\ ~RolloverIsDue
      BY <2>1, <3>4 DEF Advance, RespawnHasItsRequest
    <3> QED
      BY <3>1, <3>2, <3>3, <3>4
  <2>2. CASE TurnEndSignal
    <3>1. CASE req # NULL /\ req.phase = "writing" /\ req.conv = stop.conv
      BY <2>2, <3>1, ConcludedTogether DEF TurnEndSignal
    <3>2. CASE ~(req # NULL /\ req.phase = "writing" /\ req.conv = stop.conv)
      BY <2>2, <3>2 DEF TurnEndSignal, RespawnHasItsRequest
    <3> QED
      BY <3>1, <3>2
  <2>3. CASE PollTranscript
    BY <2>3, ConcludedTogether DEF PollTranscript, FinishHandoffTurn
  <2>4. CASE ~Advance /\ ~TurnEndSignal /\ ~PollTranscript
    BY <2>4, OthersKeepRequest
  <2> QED
    BY <2>1, <2>2, <2>3, <2>4
<1> QED
  BY <1>1, <1>2, TypeCorrect, PTL DEF Spec

-----------------------------------------------------------------------------
(* Rollovers do not chase each other *)

\* The machine's steps mark nothing and ask only what they are told to.
LEMMA AskedAgain ==
    ASSUME req # NULL, NEW valid, ConcludeAttempt(valid)
    PROVE  req' # NULL => req'.conv = req.conv
BY DEF ConcludeAttempt, StartHandoffTurn

\* What the books ask next is what they asked, or what is marked.
LEMMA AskedConv ==
    ASSUME TypeOK, [Next]_vars, req' # NULL
    PROVE  \/ req # NULL /\ req'.conv = req.conv
           \/ mark # NULL /\ req'.conv = mark
<1> USE DEF respawnVars, childVars, wrapperVars, diskVars, storeVars, machine,
            usage
<1>1. CASE Advance
  <2>1. CASE req # NULL /\ req.phase = "writing"
    <3>1. FinishHandoffTurn
      BY <1>1, <2>1 DEF Advance, RolloverIsDue
    <3> QED
      BY <2>1, <3>1, AskedAgain DEF FinishHandoffTurn
  <2>2. CASE RolloverIsDue
    <3>1. StartHandoffTurn(mirror, mark, 1) /\ mark # NULL
      BY <1>1, <2>2 DEF Advance, RolloverIsDue
    <3> QED
      BY <3>1 DEF StartHandoffTurn
  <2>3. CASE ~(req # NULL /\ req.phase = "writing") /\ ~RolloverIsDue
    <3>1. UNCHANGED req
      BY <1>1, <2>3 DEF Advance
    <3> QED
      BY <3>1
  <2> QED
    BY <2>1, <2>2, <2>3
<1>2. CASE TurnEndSignal
  <2>1. CASE req # NULL /\ req.phase = "writing" /\ req.conv = stop.conv
    BY <1>2, <2>1, AskedAgain DEF TurnEndSignal
  <2>2. CASE ~(req # NULL /\ req.phase = "writing" /\ req.conv = stop.conv)
    BY <1>2, <2>2 DEF TurnEndSignal
  <2> QED
    BY <2>1, <2>2
<1>3. CASE PollTranscript
  BY <1>3, AskedAgain DEF PollTranscript, FinishHandoffTurn
<1>4. CASE Respawn
  <2>1. CASE pending.kind = "request" /\ req # NULL
    <3>1. req' = [req EXCEPT !.phase = "writing"] /\ req \in Request
      BY <1>4, <2>1 DEF Respawn, TypeOK, OrNull
    <3> QED
      BY <2>1, <3>1 DEF Request
  <2>2. CASE ~(pending.kind = "request" /\ req # NULL)
    BY <1>4, <2>2 DEF Respawn
  <2> QED
    BY <2>1, <2>2
<1>5. CASE ~Advance /\ ~TurnEndSignal /\ ~PollTranscript /\ ~Respawn
  <2>1. \/ UNCHANGED req
        \/ req # NULL /\ \E prompt : req' = TailAfter(prompt)
        \/ req = NULL /\ UNCHANGED req
        \/ req # NULL /\ \E r \in Tails : req' = [req EXCEPT !.tail = r]
    BY <1>5 DEF Next, Battery, Ticks, Claude, User, CheckStale,
       CheckContext, PollFinalize, Terminate, SubmitTrigger, Fill,
       WriteReply, EndTurn, ChildExits, BootMcp, ScreenBusy, ScreenIdle,
       ContextUpdate, RolloverSignal, SubmitPrompt, InterruptTurn,
       ManualClear, ManualResume, SessionSwitch, RejectSwitch, TailAfter,
       Tails, vars
  <2> QED
    BY <2>1, TailKeepsRequest
<1> QED
  BY <1>1, <1>2, <1>3, <1>4, <1>5

\* What is marked or asked was answered while it was small: then its first
\* answer is past, and can no longer turn out to have been a full one.
Born(c) == c \in answered \ bornFull

\* The inductive invariant.
SmallBirths ==
    /\ mark # NULL => Born(mark)
    /\ req # NULL => Born(req.conv)

\* With no automatic compaction, a rollover never asks a conversation that
\* was full from its first answer on, however often sessions are switched or
\* moved between by hand.
THEOREM RolloversEnd ==
    ASSUME ~AutoCompact
    PROVE  Spec => []NoRolloverLoop
<1> USE DEF respawnVars, childVars, wrapperVars, diskVars, storeVars, machine,
            usage
<1>1. Init => SmallBirths
  BY DEF Init, SmallBirths
<1>2. TypeOK /\ SmallBirths /\ [Next]_vars => SmallBirths'
  <2> SUFFICES ASSUME TypeOK, SmallBirths, [Next]_vars PROVE SmallBirths'
    OBVIOUS
  <2>1. \A c : Born(c) => Born(c)'
    <3>1. CASE WriteReply
      BY <3>1 DEF WriteReply, Born
    <3>2. CASE ~WriteReply
      <4>1. UNCHANGED <<answered, bornFull>>
        BY <3>2 DEF Next, Battery, TurnEndSignal, Ticks, Claude, User,
           CheckStale, CheckContext, Advance, PollTranscript, PollFinalize,
           Terminate, Respawn, SubmitTrigger, Fill, EndTurn, ChildExits,
           BootMcp, ScreenBusy, ScreenIdle, ContextUpdate, RolloverSignal,
           SubmitPrompt, InterruptTurn, ManualClear, ManualResume,
           SessionSwitch, RejectSwitch, vars
      <4> QED
        BY <4>1 DEF Born
    <3> QED
      BY <3>1, <3>2
  <2>2. mark' # NULL => mark' = mark \/ Born(mark')
    <3>1. CASE CheckContext
      BY <3>1 DEF CheckContext, Markable, Born
    <3>2. CASE ~CheckContext
      BY <3>2 DEF Next, Battery, TurnEndSignal, Ticks, Claude, User,
         CheckStale, Advance, PollTranscript, PollFinalize, Finalize,
         Terminate, Respawn, SubmitTrigger, Fill, WriteReply, EndTurn,
         ChildExits, BootMcp, ScreenBusy, ScreenIdle, ContextUpdate,
         RolloverSignal, SubmitPrompt, InterruptTurn, ManualClear,
         ManualResume, SessionSwitch, RejectSwitch, vars
    <3> QED
      BY <3>1, <3>2
  <2>3. req' # NULL => \/ req # NULL /\ req'.conv = req.conv
                       \/ mark # NULL /\ req'.conv = mark
    BY AskedConv
  <2> QED
    BY <2>1, <2>2, <2>3 DEF SmallBirths, Born
<1>3. SmallBirths => NoRolloverLoop
  BY DEF SmallBirths, Born, NoRolloverLoop
<1> QED
  BY <1>1, <1>2, <1>3, TypeCorrect, PTL DEF Spec

-----------------------------------------------------------------------------
(* The machine is a sequence of stages *)

\* What is to be swapped in waits, or is on its way.
LEMMA SwapForward ==
    ASSUME NEW l \in Leg, StartSwap(l), swap = NULL
    PROVE  \/ ready' = l /\ swap' = NULL
           \/ ready' = NULL /\ swap' = l /\ swap' # NULL
BY RolloverNullAssumption DEF StartSwap

\* A concluded attempt is asked for once more, or the hand-off is settled.
LEMMA ConcludeIsAStage ==
    ASSUME TypeOK, OneStage, req # NULL, NEW valid, ConcludeAttempt(valid)
    PROVE  Stages!AskAgain \/ Stages!Settle
<1>1. req \in Request /\ ready = NULL /\ swap = NULL
  BY DEF TypeOK, OneStage, OrNull
<1>2. CASE valid \/ req.attempts = 2
  <2>1. PICK l : l = [session |-> req.session, conv |-> req.conv]
    OBVIOUS
  <2>2. l \in Leg /\ l # NULL
    BY <1>1, <2>1, RolloverNullAssumption DEF Request, Leg
  <2>3. req' = NULL /\ StartSwap(l)
    BY <1>2, <2>1 DEF ConcludeAttempt
  <2> QED
    BY <1>1, <2>1, <2>2, <2>3, SwapForward DEF Stages!Settle
<1>3. CASE ~(valid \/ req.attempts = 2)
  <2>1. /\ req' = [session |-> req.session, conv |-> req.conv, attempts |-> 2,
                   phase |-> "requested", tail |-> "nothing"]
        /\ UNCHANGED <<ready, swap>>
    BY <1>3 DEF ConcludeAttempt, StartHandoffTurn
  <2>2. req' \in Request /\ req.attempts = 1
    BY <1>1, <1>3, <2>1 DEF Request
  <2>3. req' # NULL
    BY <2>2, RolloverNullAssumption
  <2> QED
    BY <1>1, <2>1, <2>2, <2>3 DEF Stages!AskAgain
<1> QED
  BY <1>2, <1>3

\* So is a look at the transcript, unless it settles nothing.
LEMMA FinishIsAStage ==
    ASSUME TypeOK, OneStage, req # NULL, FinishHandoffTurn
    PROVE  Stages!AskAgain \/ Stages!Settle \/ UNCHANGED <<req, ready, swap>>
BY ConcludeIsAStage DEF FinishHandoffTurn

\* The machine's own step is any of the stages but the last.
LEMMA AdvanceIsAStage ==
    ASSUME TypeOK, OneStage, Advance
    PROVE  [Stages!Next]_(Stages!vars)
<1>1. CASE req # NULL /\ req.phase = "writing"
  <2>1. FinishHandoffTurn
    BY <1>1 DEF Advance, RolloverIsDue
  <2> QED
    BY <1>1, <2>1, FinishIsAStage DEF Stages!Next, Stages!vars
<1>2. CASE req = NULL /\ ready # NULL
  <2>1. PICK l : l = ready
    OBVIOUS
  <2>2. l \in Leg /\ swap = NULL
    BY <1>2, <2>1 DEF TypeOK, OneStage, OrNull
  <2>3. StartSwap(l) /\ req' = NULL
    BY <1>2, <2>1 DEF Advance, RolloverIsDue
  <2>4. Stages!Swap \/ UNCHANGED <<req, ready, swap>>
    BY <1>2, <2>1, <2>2, <2>3, SwapForward DEF Stages!Swap
  <2> QED
    BY <2>4 DEF Stages!Next, Stages!vars
<1>3. CASE RolloverIsDue
  <2>1. /\ req' = [session |-> mirror, conv |-> mark, attempts |-> 1,
                   phase |-> "requested", tail |-> "nothing"]
        /\ UNCHANGED <<ready, swap>>
        /\ req = NULL /\ ready = NULL /\ swap = NULL
    BY <1>3 DEF Advance, RolloverIsDue, StartHandoffTurn
  <2>2. mirror \in Sessions /\ mark \in Convs
    BY <1>3 DEF RolloverIsDue, TypeOK, RespawnTypeOK, OrNull
  <2>3. req' \in Request /\ [session |-> mirror, conv |-> mark] \in Leg
    BY <2>1, <2>2 DEF Request, Leg
  <2>4. req' # NULL
    BY <2>3, RolloverNullAssumption
  <2>5. Stages!Ask
    BY <2>1, <2>3, <2>4 DEF Stages!Ask
  <2> QED
    BY <2>5 DEF Stages!Next
<1>4. CASE /\ ~(req # NULL /\ req.phase = "writing")
           /\ ~(req = NULL /\ ready # NULL) /\ ~RolloverIsDue
  BY <1>4 DEF Advance, Stages!vars
<1> QED
  BY <1>1, <1>2, <1>3, <1>4

\* A signal concludes an attempt, or completes the swap.
LEMMA SignalIsAStage ==
    ASSUME TypeOK, OneStage, TurnEndSignal
    PROVE  [Stages!Next]_(Stages!vars)
<1>1. CASE req # NULL /\ req.phase = "writing" /\ req.conv = stop.conv
  <2>1. ConcludeAttempt(stop.reply = "good")
    BY <1>1 DEF TurnEndSignal
  <2> QED
    BY <1>1, <2>1, ConcludeIsAStage DEF Stages!Next
<1>2. CASE /\ ~(req # NULL /\ req.phase = "writing" /\ req.conv = stop.conv)
           /\ swap # NULL /\ stop.conv # swap.conv
  <2>1. UNCHANGED <<req, ready>> /\ swap' = NULL
    BY <1>2 DEF TurnEndSignal, Finalize
  <2>2. Stages!Complete
    BY <1>2, <2>1 DEF OneStage, Stages!Complete
  <2> QED
    BY <2>2 DEF Stages!Next
<1>3. CASE /\ ~(req # NULL /\ req.phase = "writing" /\ req.conv = stop.conv)
           /\ ~(swap # NULL /\ stop.conv # swap.conv)
  BY <1>3 DEF TurnEndSignal, Stages!vars
<1> QED
  BY <1>1, <1>2, <1>3

\* The other steps leave the machine where it is.
LEMMA OthersAreNoStage ==
    ASSUME TypeOK, [Next]_vars, ~Advance, ~TurnEndSignal, ~PollTranscript, ~PollFinalize
    PROVE  UNCHANGED Stages!vars
<1> USE DEF respawnVars, childVars, wrapperVars, diskVars, storeVars, machine
<1>1. UNCHANGED <<ready, swap>>
  BY DEF Next, Battery, Ticks, Claude, User, CheckStale, CheckContext, Terminate,
     Respawn, SubmitTrigger, Fill, WriteReply, EndTurn, ChildExits, BootMcp, ScreenBusy,
     ScreenIdle, ContextUpdate, RolloverSignal, SubmitPrompt, InterruptTurn, ManualClear,
     ManualResume, SessionSwitch, RejectSwitch, vars
<1>2. CASE Respawn
  <2>1. CASE pending.kind = "request" /\ req # NULL
    <3>1. req \in Request /\ req' = [req EXCEPT !.phase = "writing"]
      BY <1>2, <2>1 DEF Respawn, TypeOK, OrNull
    <3>2. /\ req' \in Request /\ req'.session = req.session /\ req'.conv = req.conv
          /\ req'.attempts = req.attempts
      BY <3>1 DEF Request
    <3>3. req' # NULL
      BY <3>2, RolloverNullAssumption
    <3> QED
      BY <1>1, <2>1, <3>2, <3>3 DEF Stages!vars
  <2>2. CASE ~(pending.kind = "request" /\ req # NULL)
    BY <1>1, <1>2, <2>2 DEF Respawn, Stages!vars
  <2> QED
    BY <2>1, <2>2
<1>3. CASE ~Respawn
  <2>1. \/ UNCHANGED req
        \/ req # NULL /\ \E prompt : req' = TailAfter(prompt)
        \/ req # NULL /\ \E r \in Tails : req' = [req EXCEPT !.tail = r]
    BY <1>3 DEF Next, Battery, Ticks, Claude, User, CheckStale, CheckContext,
       Terminate, SubmitTrigger, Fill, WriteReply, EndTurn, ChildExits, BootMcp,
       ScreenBusy, ScreenIdle, ContextUpdate, RolloverSignal, SubmitPrompt,
       InterruptTurn, ManualClear, ManualResume, SessionSwitch, RejectSwitch,
       TailAfter, Tails, vars
  <2>2. req # NULL => /\ req' # NULL /\ req'.session = req.session /\ req'.conv = req.conv
                      /\ req'.attempts = req.attempts
    BY <2>1, TailKeepsRequest
  <2>3. req = NULL => req' = NULL
    BY <2>1
  <2> QED
    BY <1>1, <2>2, <2>3 DEF Stages!vars
<1> QED
  BY <1>2, <1>3

\* Rollover implements RolloverStages, whatever is switched, moved or typed:
\* a step is one stage's, or none.
THEOREM Refinement == Spec => RolloverIsOrderly
<1>1. Init => Stages!Init
  BY DEF Init, Stages!Init
<1>2. TypeOK /\ OneStage /\ [Next]_vars => [Stages!Next]_(Stages!vars)
  <2> SUFFICES ASSUME TypeOK, OneStage, [Next]_vars
               PROVE  [Stages!Next]_(Stages!vars)
    OBVIOUS
  <2>1. CASE Advance
    BY <2>1, AdvanceIsAStage
  <2>2. CASE TurnEndSignal
    BY <2>2, SignalIsAStage
  <2>3. CASE PollTranscript
    BY <2>3, FinishIsAStage DEF PollTranscript, Stages!Next, Stages!vars
  <2>4. CASE PollFinalize
    <3>1. UNCHANGED <<req, ready>> /\ swap' = NULL /\ swap # NULL
      BY <2>4 DEF PollFinalize, SuccessorObserved, Finalize
    <3>2. Stages!Complete
      BY <3>1 DEF OneStage, Stages!Complete
    <3> QED
      BY <3>2 DEF Stages!Next
  <2>5. CASE ~Advance /\ ~TurnEndSignal /\ ~PollTranscript /\ ~PollFinalize
    BY <2>5, OthersAreNoStage
  <2> QED
    BY <2>1, <2>2, <2>3, <2>4, <2>5
<1> QED
  BY <1>1, <1>2, TypeCorrect, StagesAreExclusive, PTL
  DEF Spec, RolloverIsOrderly, Stages!Spec

-----------------------------------------------------------------------------
(* A rollover with nobody switching or moving by hand *)

\* c is in a lineage.
Holds(ids, c) == \E i \in 1..Len(ids) : ids[i] = c

\* The child, its last signal and the wrapper's own belief are all about c.
AllAt(c) ==
    /\ CurrentConv = c
    /\ child # NULL => child.conv = c
    /\ stop # NULL => stop.conv = c

\* Between rollovers.
Idle ==
    /\ req = NULL /\ swap = NULL /\ pending = NULL /\ child # NULL
    /\ AllAt(child.conv) /\ Holds(lineage[mirror], child.conv)

\* The dedicated turn is on its way, or under way.
Asking ==
    /\ req # NULL /\ swap = NULL
    /\ req.session = mirror /\ AllAt(req.conv) /\ Holds(lineage[mirror], req.conv)
    /\ IF req.phase = "requested"
       THEN pending # NULL /\ pending.kind = "request" /\ pending.resume = req.conv
       ELSE pending = NULL

\* The swap's child is not spawned yet.
Leaving ==
    /\ req = NULL /\ swap # NULL
    /\ swap.session = mirror /\ AllAt(swap.conv) /\ Holds(lineage[mirror], swap.conv)
    /\ pending # NULL /\ pending.kind = "swap" /\ pending.resume = NULL

\* It is, with a fresh conversation that is linked last or not at all; a
\* signal of the predecessor may still be waiting, but not once the
\* successor has written anything.
Arriving ==
    /\ req = NULL /\ swap # NULL /\ pending = NULL /\ child # NULL
    /\ swap.session = mirror /\ Holds(lineage[mirror], swap.conv)
    /\ child.kind = "swap" /\ child.conv = nextConv - 1 /\ child.conv # swap.conv
    /\ assigned = child.conv
    /\ fromHook \in {NULL, swap.conv, child.conv}
    /\ stop # NULL => stop.conv \in {swap.conv, child.conv}
    /\ child.turn # "none" => child.conv \in transcripts
    /\ fromHook = child.conv => child.conv \in transcripts
    /\ stop # NULL /\ stop.conv = child.conv => child.conv \in transcripts
    /\ child.conv \in transcripts => stop = NULL \/ stop.conv = child.conv
    /\ Holds(lineage[mirror], child.conv) => Last(lineage[mirror]) = child.conv

\* What holds at any stage: nothing is parked, nothing is lost, and no id is
\* seen before it is drawn.
Books ==
    /\ ready = NULL
    /\ mirror \in registered
    /\ child = NULL => pending # NULL
    /\ \A c \in transcripts : c < nextConv
    /\ \A i \in 1..Len(lineage[mirror]) : lineage[mirror][i] < nextConv

\* The invariant.
Calm == Books /\ (Idle \/ Asking \/ Leaving \/ Arriving)

\* What it reads.
calmVars == <<ready, mirror, registered, child, pending, transcripts, nextConv,
              lineage, req, swap, stop, assigned, fromHook, newest>>

\* What one process may do to the three notions of the current conversation.
Local ==
    /\ \/ child' = NULL
       \/ child # NULL /\ child' # NULL /\ child'.conv = child.conv
    /\ \/ stop' = NULL
       \/ stop' = stop
       \/ child # NULL /\ stop'.conv = child.conv
    /\ assigned' = assigned
    /\ \/ fromHook' = fromHook
       \/ stop # NULL /\ fromHook' = stop.conv
    /\ \/ newest' = newest
       \/ child # NULL /\ newest' = child.conv

\* Steps of one process alone keep the three notions together.
LEMMA LocalStep ==
    ASSUME NEW c, c # NULL, AllAt(c), Local
    PROVE  AllAt(c)'
<1>1. CurrentConv' = c
  BY DEF AllAt, Local, CurrentConv, KnownConv
<1> QED
  BY <1>1 DEF AllAt, Local

\* Linking what is linked changes nothing.
LEMMA LinkHeld ==
    ASSUME NEW ids, NEW c, Holds(ids, c)
    PROVE  Link(ids, c) = ids
BY DEF Holds, Link

\* What is linked anew comes last; what was linked stays, and every id stays
\* below the next one.
LEMMA LinkLast ==
    ASSUME NEW ids \in Seq(Convs), NEW c \in Convs, Holds(ids, c) => Last(ids) = c
    PROVE  /\ Last(Link(ids, c)) = c /\ Holds(Link(ids, c), c)
           /\ \A d : Holds(ids, d) => Holds(Link(ids, c), d)
           /\ \A n \in Nat : c < n /\ (\A i \in 1..Len(ids) : ids[i] < n)
                 => \A i \in 1..Len(Link(ids, c)) : Link(ids, c)[i] < n
<1>1. CASE Holds(ids, c)
  BY <1>1, LinkHeld
<1>2. CASE ~Holds(ids, c)
  <2>1. Link(ids, c) = Append(ids, c)
    BY <1>2 DEF Holds, Link
  <2>2. /\ Len(Append(ids, c)) = Len(ids) + 1 /\ Append(ids, c)[Len(ids) + 1] = c
        /\ \A i \in 1..Len(ids) : Append(ids, c)[i] = ids[i]
        /\ Len(ids) \in Nat
    OBVIOUS
  <2> QED
    BY <2>1, <2>2 DEF Holds, Last
<1> QED
  BY <1>1, <1>2

\* Nobody moves when there are no moves.
LEMMA NoMove == MaxMoves = 0 /\ TypeOK => ~(moves < MaxMoves)
BY DEF TypeOK

\* What the child and its hooks do.
ChildStep == SubmitTrigger \/ SubmitPrompt \/ WriteReply \/ EndTurn \/ ChildExits

\* With no moves, these are the steps that matter.
LEMMA CalmNext ==
    ASSUME MaxMoves = 0, TypeOK, [Next]_vars
    PROVE  \/ Advance \/ TurnEndSignal \/ PollTranscript \/ PollFinalize
           \/ Terminate \/ Respawn \/ BootMcp \/ ChildStep
           \/ UNCHANGED calmVars
<1>1. ~(moves < MaxMoves)
  BY NoMove
<1>2. ~User \/ SubmitPrompt
  BY <1>1 DEF User, InterruptTurn, ManualClear, ManualResume, SessionSwitch,
     RejectSwitch, Move
<1>3. CASE CheckStale \/ CheckContext \/ Fill \/ ScreenBusy \/ ScreenIdle
           \/ ContextUpdate \/ RolloverSignal \/ UNCHANGED vars
  BY <1>3 DEF CheckStale, CheckContext, Fill, ScreenBusy, ScreenIdle,
     ContextUpdate, RolloverSignal, calmVars, vars, respawnVars, childVars,
     wrapperVars, diskVars, storeVars, machine
<1> QED
  BY <1>2, <1>3 DEF Next, Battery, Ticks, Claude, ChildStep

\* A request keeps what matters of it.
RequestKept ==
    /\ req = NULL => req' = NULL
    /\ req # NULL => /\ req' # NULL /\ req'.phase = req.phase
                     /\ req'.session = req.session /\ req'.conv = req.conv

\* The child's own steps do not leave the stage.
LEMMA ChildStepCalm ==
    ASSUME TypeOK, Calm, ChildStep
    PROVE  Calm'
<1> USE DEF wrapperVars, diskVars, storeVars, machine
<1>1. UNCHANGED <<pending, mirror, lineage, registered, ready, swap, nextConv,
                  assigned, fromHook>>
  BY DEF ChildStep, SubmitTrigger, SubmitPrompt, WriteReply, EndTurn, ChildExits
<1>2. child # NULL /\ child \in Child /\ child.conv \in Convs
  BY DEF ChildStep, SubmitTrigger, SubmitPrompt, WriteReply, EndTurn, ChildExits,
     ExitChild, TakeHandoff, StartUserTurn, TypeOK, RespawnTypeOK, OrNull, Child
<1>3. /\ \/ child' = NULL /\ pending # NULL
         \/ /\ child' # NULL /\ child'.conv = child.conv /\ child'.kind = child.kind
            /\ child'.turn # "none" => child.turn # "none" \/ child.conv \in transcripts'
  <2>1. CASE ChildExits
    BY <2>1 DEF ChildExits, ExitChild
  <2>2. CASE ~ChildExits
    <3>1. child' \in Child /\ child'.conv = child.conv /\ child'.kind = child.kind
      BY <1>2, <2>2 DEF ChildStep, SubmitTrigger, SubmitPrompt, WriteReply, EndTurn,
         TakeHandoff, StartUserTurn, Child, TypeOK, RespawnTypeOK, OrNull
    <3>2. child'.turn # "none" => child.turn # "none" \/ child.conv \in transcripts'
      BY <1>2, <2>2 DEF ChildStep, SubmitTrigger, SubmitPrompt, WriteReply, EndTurn,
         TakeHandoff, StartUserTurn, WritePrompt, Child
    <3>3. child' # NULL
      BY <3>1, NullAssumption
    <3> QED
      BY <3>1, <3>2, <3>3
  <2> QED
    BY <2>1, <2>2
<1>4. \/ UNCHANGED <<transcripts, newest>>
      \/ /\ transcripts' = transcripts \cup {child.conv} /\ newest' = child.conv
         /\ stop = NULL /\ stop' = NULL
  BY DEF ChildStep, SubmitTrigger, SubmitPrompt, WriteReply, EndTurn, ChildExits,
     TakeHandoff, StartUserTurn, WritePrompt
<1>5. \/ stop' = stop
      \/ stop' = NULL
      \/ stop = NULL /\ stop'.conv = child.conv /\ child.turn # "none"
  BY DEF ChildStep, SubmitTrigger, SubmitPrompt, WriteReply, EndTurn, ChildExits
<1>6. RequestKept
  <2>1. req = NULL => req' = NULL
    BY DEF ChildStep, SubmitTrigger, SubmitPrompt, WriteReply, EndTurn, ChildExits,
       TailAfter
  <2>2. req # NULL => \/ \E prompt : req' = TailAfter(prompt)
                      \/ \E r \in Tails : req' = [req EXCEPT !.tail = r]
                      \/ req' = req
    BY DEF ChildStep, SubmitTrigger, SubmitPrompt, WriteReply, EndTurn, ChildExits,
       Tails
  <2> QED
    BY <2>1, <2>2, TailKeepsRequest DEF RequestKept
<1>7. Local
  BY <1>1, <1>2, <1>3, <1>4, <1>5 DEF Local
<1>8. child.conv < nextConv
  <2>1. nextConv \in Nat /\ child.conv \in Nat
    BY <1>2, ConvAssumption DEF TypeOK, RespawnTypeOK, Convs
  <2>2. CASE Arriving
    BY <2>1, <2>2 DEF Arriving
  <2>3. CASE Idle \/ Asking \/ Leaving
    <3>1. Holds(lineage[mirror], child.conv)
      BY <1>2, <2>3 DEF Idle, Asking, Leaving, AllAt
    <3> QED
      BY <3>1 DEF Calm, Books, Holds
  <2> QED
    BY <2>2, <2>3 DEF Calm
<1>9. Books'
  <2>1. \A c \in transcripts' : c < nextConv'
    BY <1>1, <1>4, <1>8 DEF Calm, Books
  <2>2. child' = NULL => pending' # NULL
    BY <1>1, <1>3
  <2> QED
    BY <1>1, <2>1, <2>2 DEF Calm, Books
<1>10. CASE Idle
  <2>1. PICK c : c = child.conv
    OBVIOUS
  <2>2. AllAt(c)'
    BY <1>2, <1>7, <1>10, <2>1, LocalStep, NullAssumption DEF Idle
  <2>3. child' # NULL /\ child'.conv = c
    BY <1>3, <1>10, <2>1 DEF Idle
  <2>4. Idle'
    BY <1>1, <1>6, <1>10, <2>1, <2>2, <2>3 DEF Idle, AllAt, RequestKept
  <2> QED
    BY <1>9, <2>4 DEF Calm
<1>11. CASE Asking
  <2>1. PICK c : c = req.conv
    OBVIOUS
  <2>2. AllAt(c)'
    BY <1>2, <1>7, <1>11, <2>1, LocalStep, NullAssumption DEF Asking, AllAt
  <2>3. Asking'
    BY <1>1, <1>6, <1>11, <2>1, <2>2 DEF Asking, AllAt, RequestKept
  <2> QED
    BY <1>9, <2>3 DEF Calm
<1>12. CASE Leaving
  <2>1. PICK c : c = swap.conv
    OBVIOUS
  <2>2. AllAt(c)'
    BY <1>2, <1>7, <1>12, <2>1, LocalStep, NullAssumption DEF Leaving, AllAt
  <2>3. Leaving'
    BY <1>1, <1>6, <1>12, <2>1, <2>2 DEF Leaving, AllAt, RequestKept
  <2> QED
    BY <1>9, <2>3 DEF Calm
<1>13. CASE Arriving
  <2>1. child' # NULL /\ child'.conv = child.conv /\ child'.kind = child.kind
    BY <1>3, <1>13 DEF Arriving
  <2>2. stop' # NULL => stop'.conv \in {swap.conv, child.conv}
    BY <1>5, <1>13 DEF Arriving
  <2>3. /\ child'.turn # "none" => child.conv \in transcripts'
        /\ fromHook' = child.conv => child.conv \in transcripts'
        /\ stop' # NULL /\ stop'.conv = child.conv => child.conv \in transcripts'
    BY <1>1, <1>3, <1>4, <1>5, <1>13 DEF Arriving
  <2>4. child.conv \in transcripts' => stop' = NULL \/ stop'.conv = child.conv
    BY <1>4, <1>5, <1>13 DEF Arriving
  <2>5. Arriving'
    BY <1>1, <1>6, <1>13, <2>1, <2>2, <2>3, <2>4 DEF Arriving, RequestKept
  <2> QED
    BY <1>9, <2>5 DEF Calm
<1> QED
  BY <1>10, <1>11, <1>12, <1>13 DEF Calm

\* What the machine's steps leave alone.
bookVars == <<child, lineage, registered, transcripts, nextConv>>

\* Asking a conversation the session is in.
LEMMA AskCalm ==
    ASSUME TypeOK, Books, pending = NULL, swap = NULL, NEW c \in Convs, NEW n \in {1, 2},
           NEW s, s = mirror, Holds(lineage[mirror], c), AllAt(c)',
           StartHandoffTurn(s, c, n), UNCHANGED <<ready, swap, bookVars>>
    PROVE  Calm'
<1>1. s \in Sessions
  BY DEF Books, TypeOK, RespawnTypeOK, OrNull
<1>2. /\ req' = [session |-> s, conv |-> c, attempts |-> n,
                 phase |-> "requested", tail |-> "nothing"]
      /\ mirror' = mirror
      /\ pending' = [target |-> s, resume |-> c, from |-> s, kind |-> "request",
                     terminated |-> FALSE]
  BY DEF StartHandoffTurn, Register
<1>3. req' # NULL
  <2>1. req' \in Request
    BY <1>1, <1>2 DEF Request
  <2> QED
    BY <2>1, RolloverNullAssumption
<1>4. pending' # NULL
  <2>1. pending' \in PendingRespawn
    BY <1>1, <1>2 DEF PendingRespawn, OrNull, Kinds
  <2> QED
    BY <2>1, NullAssumption
<1>5. Asking'
  BY <1>2, <1>3, <1>4 DEF Asking, AllAt, bookVars
<1>6. Books'
  BY <1>2, <1>4 DEF Books, bookVars
<1> QED
  BY <1>5, <1>6 DEF Calm

\* Leaving a conversation the session is in.
LEMMA LeaveCalm ==
    ASSUME TypeOK, Books, pending = NULL, NEW leg \in Leg, leg.session = mirror,
           NEW c, c = leg.conv, Holds(lineage[mirror], c), AllAt(c)',
           StartSwap(leg), req' = NULL, UNCHANGED bookVars
    PROVE  Calm'
<1>1. mirror \in Sessions
  BY DEF Books, TypeOK, RespawnTypeOK, OrNull
<1>2. /\ swap' = leg /\ ready' = NULL
      /\ mirror' = mirror
      /\ pending' = [target |-> leg.session, resume |-> NULL, from |-> leg.session,
                     kind |-> "swap", terminated |-> FALSE]
  BY DEF StartSwap, Register
<1>3. swap' # NULL
  BY <1>2, RolloverNullAssumption
<1>4. pending' # NULL
  <2>1. pending' \in PendingRespawn
    BY <1>1, <1>2 DEF PendingRespawn, OrNull, Kinds
  <2> QED
    BY <2>1, NullAssumption
<1>5. Leaving'
  BY <1>2, <1>3, <1>4 DEF Leaving, AllAt, bookVars
<1>6. Books'
  BY <1>2, <1>4 DEF Books, bookVars
<1> QED
  BY <1>5, <1>6 DEF Calm

\* A settled attempt does one or the other.
LEMMA ConcludeCalm ==
    ASSUME TypeOK, Calm, req # NULL, req.phase = "writing",
           NEW valid, ConcludeAttempt(valid), UNCHANGED bookVars,
           NEW c, c = req.conv, AllAt(c)'
    PROVE  Calm'
<1>1. req \in Request /\ c \in Convs /\ req.session \in Sessions
  BY DEF TypeOK, OrNull, Request
<1>2. Books /\ Asking /\ pending = NULL /\ swap = NULL /\ req.session = mirror
      /\ Holds(lineage[mirror], c)
  BY DEF Calm, Idle, Asking, Leaving, Arriving
<1>3. CASE valid \/ req.attempts = 2
  <2>1. PICK leg \in Leg : leg = [session |-> req.session, conv |-> req.conv]
    BY <1>1 DEF Leg
  <2>2. StartSwap(leg) /\ req' = NULL /\ leg.session = mirror /\ c = leg.conv
    BY <1>2, <1>3, <2>1 DEF ConcludeAttempt
  <2> QED
    BY <1>2, <2>2, LeaveCalm
<1>4. CASE ~(valid \/ req.attempts = 2)
  <2>1. PICK s : s = mirror
    OBVIOUS
  <2>2. StartHandoffTurn(s, c, 2) /\ UNCHANGED <<ready, swap>>
    BY <1>2, <1>4, <2>1 DEF ConcludeAttempt
  <2> QED
    BY <1>1, <1>2, <2>1, <2>2, AskCalm
<1> QED
  BY <1>3, <1>4

\* Nothing that matters changes.
LEMMA SameCalm == ASSUME Calm, UNCHANGED calmVars PROVE Calm'
BY DEF calmVars, Calm, Books, Idle, Asking, Leaving, Arriving, AllAt, CurrentConv,
       KnownConv

\* So does a look at the transcript that may settle it.
LEMMA FinishCalm ==
    ASSUME TypeOK, Calm, req # NULL, req.phase = "writing", FinishHandoffTurn,
           UNCHANGED <<bookVars, stop, assigned, fromHook, newest>>
    PROVE  Calm'
<1>1. CASE Settled
  <2>1. PICK c : c = req.conv
    OBVIOUS
  <2>2. AllAt(c)
    BY <2>1 DEF Calm, Idle, Asking, Leaving, Arriving
  <2>3. AllAt(c)'
    BY <2>2 DEF AllAt, CurrentConv, KnownConv, bookVars
  <2> QED
    BY <1>1, <2>1, <2>3, ConcludeCalm DEF FinishHandoffTurn
<1>2. CASE ~Settled
  BY <1>2, SameCalm DEF FinishHandoffTurn, calmVars, bookVars
<1> QED
  BY <1>1, <1>2

\* The battery's last step begins a rollover, or concludes an attempt.
LEMMA AdvanceCalm ==
    ASSUME TypeOK, Calm, Advance
    PROVE  Calm'
<1>1. UNCHANGED <<bookVars, stop, assigned, fromHook, newest>>
  BY DEF Advance, bookVars, childVars
<1>2. ready = NULL
  BY DEF Calm, Books
<1>3. CASE req # NULL /\ req.phase = "writing"
  <2>1. FinishHandoffTurn
    BY <1>3, <1>2 DEF Advance, RolloverIsDue
  <2> QED
    BY <1>1, <1>3, <2>1, FinishCalm
<1>4. CASE RolloverIsDue
  <2>1. StartHandoffTurn(mirror, mark, 1) /\ UNCHANGED <<ready, swap>>
    BY <1>4 DEF Advance, RolloverIsDue
  <2>2. PICK s, c : s = mirror /\ c = mark
    OBVIOUS
  <2>3. c \in Convs
    BY <1>4, <2>2 DEF RolloverIsDue, TypeOK, OrNull
  <2>4. Books /\ Idle
    BY <1>4 DEF RolloverIsDue, Calm, Asking, Leaving, Arriving
  <2>5. c = child.conv /\ AllAt(c) /\ Holds(lineage[mirror], c)
    BY <1>4, <2>2, <2>4 DEF RolloverIsDue, Idle, AllAt
  <2>6. AllAt(c)'
    BY <1>1, <2>5 DEF AllAt, CurrentConv, KnownConv, bookVars
  <2>7. pending = NULL /\ swap = NULL
    BY <1>4 DEF RolloverIsDue
  <2> QED
    BY <1>1, <2>1, <2>2, <2>3, <2>4, <2>5, <2>6, <2>7, AskCalm
<1>5. CASE ~(req # NULL /\ req.phase = "writing") /\ ~RolloverIsDue
  <2>1. UNCHANGED <<req, ready, swap, pending, mirror>>
    BY <1>2, <1>5 DEF Advance
  <2> QED
    BY <1>1, <2>1, SameCalm DEF calmVars, bookVars
<1> QED
  BY <1>3, <1>4, <1>5

\* The successor is observed and linked.
LEMMA FinalizeCalm ==
    ASSUME TypeOK, Calm, Arriving, NEW c, c = child.conv, Finalize(c), CurrentConv' = c,
           stop' # NULL => stop'.conv = c,
           UNCHANGED <<ready, mirror, registered, child, pending, transcripts, nextConv, req>>
    PROVE  Calm' /\ Last(lineage'[mirror]) = nextConv - 1
<1>1. /\ mirror \in Sessions /\ lineage \in [Sessions -> Seq(Convs)]
      /\ c \in Convs /\ swap.session = mirror /\ mirror \in registered
      /\ nextConv \in Nat /\ c = nextConv - 1
  <2>1. child \in Child /\ nextConv \in Nat
    BY ConvAssumption DEF Arriving, TypeOK, RespawnTypeOK, OrNull
  <2> QED
    BY <2>1 DEF Calm, Books, Arriving, TypeOK, RespawnTypeOK, OrNull, Child
<1> DEFINE ids == lineage[mirror]
<1>2. lineage'[mirror] = Link(ids, c)
  <2>1. Link(ids, swap.conv) = ids
    BY LinkHeld DEF Arriving
  <2>2. lineage' = [lineage EXCEPT ![mirror] = Link(Link(lineage[mirror], swap.conv), c)]
    BY <1>1 DEF Finalize
  <2> QED
    BY <1>1, <2>1, <2>2
<1>3. ids \in Seq(Convs) /\ (Holds(ids, c) => Last(ids) = c)
  BY <1>1 DEF Arriving
<1>4. \A i \in 1..Len(ids) : ids[i] < nextConv
  BY DEF Calm, Books
<1>5. c < nextConv /\ c \in Nat
  BY <1>1 DEF Convs
<1> HIDE DEF ids
<1>6. /\ Last(Link(ids, c)) = c /\ Holds(Link(ids, c), c)
      /\ \A i \in 1..Len(Link(ids, c)) : Link(ids, c)[i] < nextConv
  BY <1>1, <1>3, <1>4, <1>5, LinkLast
<1>7. Books'
  BY <1>2, <1>6 DEF Calm, Books
<1>8. Idle'
  BY <1>2, <1>6 DEF Arriving, Finalize, Idle, AllAt
<1> QED
  BY <1>1, <1>2, <1>6, <1>7, <1>8 DEF Calm

\* Who is observed is the successor.
LEMMA ObservedCalm ==
    ASSUME TypeOK, Calm, PollFinalize
    PROVE  /\ Arriving /\ Calm' /\ Last(lineage'[mirror]) = nextConv - 1
           /\ Taken = child.conv
<1>1. swap # NULL /\ CurrentConv # swap.conv
      /\ (CurrentConv = assigned /\ fromHook = NULL => CurrentConv \in transcripts)
  BY DEF PollFinalize, SuccessorObserved
<1>2. Arriving
  BY <1>1 DEF Calm, Idle, Asking, Leaving, AllAt
<1>3. PICK c : c = child.conv
  OBVIOUS
<1>4. c # NULL
  BY <1>2, <1>3, NullAssumption DEF Arriving, TypeOK, RespawnTypeOK, OrNull, Child
<1>5. CurrentConv = c
  BY <1>1, <1>2, <1>3, <1>4 DEF Arriving, CurrentConv, KnownConv
<1>6. c \in transcripts
  BY <1>1, <1>2, <1>3, <1>4, <1>5 DEF Arriving, CurrentConv, KnownConv
<1>7. stop # NULL => stop.conv = c
  BY <1>2, <1>3, <1>6 DEF Arriving
<1>8. UNCHANGED <<childVars, wrapperVars, diskVars, registered, req, ready, stop>>
  BY DEF PollFinalize
<1>9. CurrentConv' = c
  BY <1>5, <1>8 DEF CurrentConv, KnownConv, wrapperVars, diskVars
<1>10. Finalize(c)
  BY <1>5 DEF PollFinalize
<1>11. Taken = child.conv
  BY <1>3, <1>5, <1>8 DEF Taken
<1> QED
  BY <1>2, <1>3, <1>7, <1>8, <1>9, <1>10, <1>11, FinalizeCalm
  DEF childVars, wrapperVars, diskVars

\* So is the sender of a signal that is not the predecessor's.
LEMMA SignalCalm ==
    ASSUME TypeOK, Calm, TurnEndSignal
    PROVE  /\ Calm'
           /\ swap # NULL /\ swap' = NULL
                => /\ Arriving /\ Last(lineage'[mirror]) = nextConv - 1
                   /\ Taken = child.conv
<1>1. /\ stop # NULL /\ stop' = NULL /\ fromHook' = stop.conv
      /\ UNCHANGED <<child, nextConv, assigned, transcripts, newest, registered>>
  BY DEF TurnEndSignal, childVars
<1>2. stop.conv \in Convs /\ stop.conv # NULL
  BY <1>1, NullAssumption DEF TypeOK, OrNull, StopSignal
<1>3. CurrentConv' = stop.conv
  BY <1>1, <1>2 DEF CurrentConv, KnownConv
<1>4. CASE req # NULL /\ req.phase = "writing" /\ req.conv = stop.conv
  <2>1. ConcludeAttempt(stop.reply = "good") /\ UNCHANGED lineage
    BY <1>4 DEF TurnEndSignal
  <2>2. PICK c : c = req.conv
    OBVIOUS
  <2>3. AllAt(c) /\ swap = NULL
    BY <1>4, <2>2 DEF Calm, Idle, Asking, Leaving, Arriving
  <2>4. AllAt(c)'
    BY <1>1, <1>3, <1>4, <2>2, <2>3 DEF AllAt
  <2>5. UNCHANGED bookVars
    BY <1>1, <2>1 DEF bookVars
  <2> QED
    BY <1>4, <2>1, <2>2, <2>3, <2>4, <2>5, ConcludeCalm
<1>5. CASE ~(req # NULL /\ req.phase = "writing" /\ req.conv = stop.conv)
  <2>1. UNCHANGED <<req, ready, pending, mirror>>
    BY <1>5 DEF TurnEndSignal
  <2>2. CASE swap # NULL /\ stop.conv # swap.conv
    <3>1. Finalize(stop.conv)
      BY <1>5, <2>2 DEF TurnEndSignal
    <3>2. Arriving
      BY <1>1, <2>2 DEF Calm, Idle, Asking, Leaving, AllAt
    <3>3. PICK c : c = child.conv
      OBVIOUS
    <3>4. stop.conv = c
      BY <1>1, <2>2, <3>2, <3>3 DEF Arriving
    <3>5. Finalize(c)
      BY <3>1, <3>4
    <3>6. Taken = child.conv
      BY <1>1, <3>3, <3>4 DEF Taken
    <3> QED
      BY <1>1, <1>3, <2>1, <3>2, <3>3, <3>4, <3>5, <3>6, FinalizeCalm
  <2>3. CASE ~(swap # NULL /\ stop.conv # swap.conv)
    <3>1. UNCHANGED <<swap, lineage>>
      BY <1>5, <2>3 DEF TurnEndSignal
    <3>2. Books'
      BY <1>1, <2>1, <3>1 DEF Calm, Books
    <3>3. CASE Idle
      BY <1>1, <1>3, <2>1, <3>1, <3>2, <3>3 DEF Calm, Idle, AllAt
    <3>4. CASE Asking
      BY <1>1, <1>3, <2>1, <3>1, <3>2, <3>4 DEF Calm, Asking, AllAt
    <3>5. CASE Leaving
      BY <1>1, <1>3, <2>1, <3>1, <3>2, <3>5 DEF Calm, Leaving, AllAt
    <3>6. CASE Arriving
      <4>1. stop.conv = swap.conv /\ stop.conv # child.conv
        BY <2>3, <3>6 DEF Arriving
      <4>2. Arriving'
        BY <1>1, <2>1, <3>1, <3>6, <4>1 DEF Arriving
      <4> QED
        BY <3>1, <3>2, <4>2 DEF Calm
    <3> QED
      BY <3>1, <3>3, <3>4, <3>5, <3>6 DEF Calm
  <2> QED
    BY <2>2, <2>3
<1> QED
  BY <1>4, <1>5

\* The tick that reads the transcript concludes an attempt too.
LEMMA PollCalm ==
    ASSUME TypeOK, Calm, PollTranscript
    PROVE  Calm'
BY FinishCalm DEF PollTranscript, childVars, bookVars

\* A request keeps its conversation while its child is being asked to leave.
LEMMA TerminateCalm ==
    ASSUME TypeOK, Calm, Terminate
    PROVE  Calm'
<1>1. /\ pending # NULL /\ pending' # NULL
      /\ pending'.kind = pending.kind /\ pending'.resume = pending.resume
  <2>1. pending \in PendingRespawn /\ pending' = [pending EXCEPT !.terminated = TRUE]
    BY DEF Terminate, SendTerminate, TypeOK, RespawnTypeOK, OrNull
  <2>2. pending' \in PendingRespawn
    BY <2>1 DEF PendingRespawn
  <2> QED
    BY <2>1, <2>2, NullAssumption DEF PendingRespawn
<1>2. UNCHANGED <<ready, mirror, registered, child, transcripts, nextConv, lineage,
                  req, swap, stop, assigned, fromHook, newest>>
  BY DEF Terminate, SendTerminate, childVars, diskVars, storeVars, machine
<1> QED
  BY <1>1, <1>2 DEF Calm, Books, Idle, Asking, Leaving, Arriving, AllAt,
     CurrentConv, KnownConv

\* The dedicated turn is spawned, or the successor is, under an id that
\* nothing has seen.
LEMMA RespawnCalm ==
    ASSUME TypeOK, Calm, Respawn
    PROVE  Calm'
<1>1. /\ child = NULL /\ pending # NULL /\ pending' = NULL /\ fromHook' = NULL
      /\ UNCHANGED <<ready, mirror, registered, transcripts, newest, lineage, swap, stop>>
  BY DEF Respawn, SpawnNext, diskVars, storeVars
<1>2. PICK c : c = IF pending.resume # NULL THEN pending.resume ELSE nextConv
  OBVIOUS
<1>3. /\ child' = [conv |-> c, target |-> pending.target, kind |-> pending.kind,
                   trig |-> TRUE, turn |-> "none", got |-> NULL, unflushed |-> FALSE]
      /\ assigned' = c
      /\ nextConv' = IF pending.resume # NULL THEN nextConv ELSE nextConv + 1
  BY <1>2 DEF Respawn, SpawnNext
<1>4. /\ pending \in PendingRespawn /\ nextConv \in Nat
      /\ c \in Convs /\ c # NULL /\ child' # NULL
  <2>1. pending \in PendingRespawn /\ nextConv \in Nat
    BY <1>1, ConvAssumption DEF TypeOK, RespawnTypeOK, OrNull
  <2>2. c \in Convs
    BY <2>1, <1>2 DEF Respawn, SpawnNext, PendingRespawn, OrNull
  <2>3. child' \in Child
    BY <2>1, <2>2, <1>3 DEF PendingRespawn, Child, OrNull
  <2> QED
    BY <2>1, <2>2, <2>3, NullAssumption
<1>5. /\ KnownConv' = c /\ CurrentConv' = c
  BY <1>1, <1>3, <1>4 DEF KnownConv, CurrentConv
<1>6. \/ Asking /\ req.phase = "requested"
      \/ Leaving
  BY <1>1 DEF Calm, Idle, Asking, Leaving, Arriving
<1>7. Books'
  <2>1. nextConv' \in Nat /\ nextConv <= nextConv'
    BY <1>3, <1>4
  <2>2. transcripts \subseteq Nat /\ \A d \in transcripts : d < nextConv
    BY DEF Calm, Books, TypeOK, RespawnTypeOK, Convs
  <2>3. mirror \in Sessions
    BY DEF Calm, Books, TypeOK, RespawnTypeOK
  <2>4. PICK ids : ids = lineage[mirror]
    OBVIOUS
  <2>5. ids \in Seq(Convs) /\ \A i \in 1..Len(ids) : ids[i] < nextConv /\ ids[i] \in Nat
    BY <2>3, <2>4, ConvAssumption DEF Calm, Books, TypeOK, RespawnTypeOK, Convs
  <2>6. PICK n \in Nat : n = nextConv' /\ nextConv <= n
    BY <2>1
  <2>7. \A d \in transcripts : d < n
    BY <2>2, <2>6, <1>4
  <2>8. \A i \in 1..Len(ids) : ids[i] < n
    BY <2>5, <2>6, <1>4
  <2> QED
    BY <1>1, <1>4, <2>4, <2>6, <2>7, <2>8 DEF Calm, Books
<1>8. CASE Asking /\ req.phase = "requested"
  <2>1. c = req.conv /\ pending.kind = "request"
    <3>1. req.conv # NULL
      BY <1>8, NullAssumption DEF Asking, TypeOK, OrNull, Request
    <3> QED
      BY <1>2, <1>8, <3>1 DEF Asking
  <2>2. /\ req' # NULL /\ req'.phase = "writing"
        /\ req'.session = req.session /\ req'.conv = req.conv
    <3>1. req \in Request /\ req' = [req EXCEPT !.phase = "writing"]
      BY <1>8, <2>1 DEF Respawn, Asking, TypeOK, OrNull
    <3>2. req' \in Request
      BY <3>1 DEF Request
    <3> QED
      BY <3>1, <3>2, RolloverNullAssumption DEF Request
  <2>3. AllAt(c)'
    BY <1>1, <1>3, <1>5, <1>8, <2>1 DEF Asking, AllAt
  <2>4. Asking'
    BY <1>1, <1>8, <2>1, <2>2, <2>3 DEF Asking, AllAt
  <2> QED
    BY <1>7, <2>4 DEF Calm
<1>9. CASE Leaving
  <2>1. c = nextConv /\ nextConv' = nextConv + 1 /\ c = nextConv' - 1
    BY <1>2, <1>3, <1>4, <1>9 DEF Leaving
  <2>2. req' = NULL
    BY <1>9 DEF Leaving, Respawn
  <2>3. c \notin transcripts /\ ~Holds(lineage[mirror], c)
    BY <1>4, <2>1 DEF Calm, Books, Holds
  <2>4. c # swap.conv
    BY <1>9, <2>3 DEF Leaving
  <2>5. Arriving'
    BY <1>1, <1>3, <1>4, <1>9, <2>1, <2>2, <2>3, <2>4 DEF Leaving, Arriving, AllAt
  <2> QED
    BY <1>7, <2>5 DEF Calm
<1> QED
  BY <1>6, <1>8, <1>9

\* The server that boots links what is linked, or the successor as the last.
LEMMA BootCalm ==
    ASSUME TypeOK, Calm, BootMcp
    PROVE  Calm'
<1>1. UNCHANGED <<ready, mirror, registered, child, pending, transcripts, nextConv,
                  req, swap, stop, assigned, fromHook, newest>>
  BY DEF BootMcp, childVars, wrapperVars, diskVars, machine
<1>2. child # NULL
  BY DEF BootMcp, AtSelect
<1>3. /\ mirror \in Sessions /\ lineage \in [Sessions -> Seq(Convs)]
      /\ child.conv \in Convs /\ nextConv \in Nat
  BY <1>2, ConvAssumption DEF Calm, Books, TypeOK, RespawnTypeOK, OrNull, Child
<1>4. lineage'[mirror] = IF KnownConv # NULL THEN Link(lineage[mirror], KnownConv)
                         ELSE lineage[mirror]
  BY <1>3 DEF BootMcp
<1>5. CASE lineage'[mirror] = lineage[mirror]
  BY <1>1, <1>5 DEF Calm, Books, Idle, Asking, Leaving, Arriving, AllAt,
     CurrentConv, KnownConv
<1>6. CASE lineage'[mirror] # lineage[mirror]
  <2>1. KnownConv # NULL /\ ~Holds(lineage[mirror], KnownConv)
    BY <1>4, <1>6, LinkHeld
  <2>2. CurrentConv = KnownConv
    BY <2>1 DEF CurrentConv
  <2>3. Arriving
    BY <2>1, <2>2 DEF Calm, Idle, Asking, Leaving, AllAt
  <2>4. PICK c : c = child.conv
    OBVIOUS
  <2>5. KnownConv = c /\ ~Holds(lineage[mirror], c)
    BY <2>1, <2>3, <2>4 DEF Arriving, KnownConv
  <2> DEFINE ids == lineage[mirror]
  <2>6. ids \in Seq(Convs) /\ c \in Convs /\ c \in Nat /\ c < nextConv
    BY <1>3, <2>3, <2>4 DEF Arriving, Convs
  <2>7. lineage'[mirror] = Link(ids, c)
    BY <1>4, <2>1, <2>5
  <2>8. /\ ~Holds(ids, c)
        /\ \A i \in 1..Len(ids) : ids[i] < nextConv
        /\ Holds(ids, swap.conv)
    BY <2>3, <2>5 DEF Calm, Books, Arriving
  <2> HIDE DEF ids
  <2>9. /\ Last(Link(ids, c)) = c /\ Holds(Link(ids, c), swap.conv)
        /\ \A i \in 1..Len(Link(ids, c)) : Link(ids, c)[i] < nextConv
    BY <1>3, <2>6, <2>8, LinkLast
  <2>10. Books'
    BY <1>1, <2>7, <2>9 DEF Calm, Books
  <2>11. Arriving'
    BY <1>1, <2>3, <2>4, <2>7, <2>9 DEF Arriving
  <2> QED
    BY <2>10, <2>11 DEF Calm
<1> QED
  BY <1>5, <1>6

\* The wrapper starts between rollovers.
LEMMA InitCalm == Init => Calm
<1> SUFFICES ASSUME Init PROVE Calm
  OBVIOUS
<1>1. /\ child.conv = newest /\ child # NULL
  <2>1. child.conv = newest
    BY DEF Init
  <2>2. child \in OrNull(Child)
    BY InitType DEF TypeOK, RespawnTypeOK
  <2>3. child \in Child
    <3>1. newest \in Convs
      BY RolloverAssumption, ConvAssumption DEF Init, Convs
    <3> QED
      BY <3>1 DEF Init, Child, OrNull
  <2> QED
    BY <2>1, <2>3, NullAssumption
<1>2. mirror \in registered /\ mirror \in Sessions /\ Holds(lineage[mirror], newest)
  BY DEF Init, Owners, Holds
<1>3. Books
  <2>1. lineage[mirror] \in OldLineages /\ OldConvs \in Nat
    BY <1>2, RolloverAssumption, ConvAssumption DEF Init, Convs
  <2>2. PICK n \in 0..OldConvs : lineage[mirror] \in [1..n -> 1..OldConvs]
    BY <2>1 DEF OldLineages
  <2>3. Len(lineage[mirror]) = n
    BY <2>1, <2>2
  <2>4. \A i \in 1..Len(lineage[mirror]) : lineage[mirror][i] < nextConv
    BY <2>1, <2>2, <2>3 DEF Init
  <2>5. \A c \in transcripts : c < nextConv
    BY <2>1 DEF Init
  <2> QED
    BY <1>1, <1>2, <2>4, <2>5 DEF Init, Books
<1>4. AllAt(child.conv)
  BY <1>1 DEF Init, AllAt, CurrentConv, KnownConv
<1> QED
  BY <1>1, <1>2, <1>3, <1>4 DEF Init, Calm, Idle

\* With nobody moving by hand, the wrapper is between rollovers, asking for
\* a hand-off, or replacing the child, and knows which conversation it is in.
LEMMA CalmStep ==
    ASSUME MaxMoves = 0, TypeOK, Calm, [Next]_vars
    PROVE  Calm'
BY CalmNext, ChildStepCalm, AdvanceCalm, SignalCalm, PollCalm, ObservedCalm,
   TerminateCalm, RespawnCalm, BootCalm, SameCalm

\* It is an invariant.
LEMMA CalmInvariant ==
    ASSUME MaxMoves = 0
    PROVE  Spec => [](TypeOK /\ Calm)
<1>1. Init => Calm
  BY InitCalm
<1>2. TypeOK /\ Calm /\ [Next]_vars => Calm'
  BY CalmStep
<1> QED
  BY <1>1, <1>2, TypeCorrect, PTL DEF Spec

\* Only two steps finalize, and both have the successor before them.
LEMMA FinalizeStep ==
    ASSUME MaxMoves = 0, TypeOK, Calm, [Next]_vars, swap # NULL, swap' = NULL
    PROVE  /\ Arriving /\ Last(lineage'[mirror]) = nextConv - 1
           /\ Taken = child.conv
<1>1. CASE PollFinalize \/ TurnEndSignal
  BY <1>1, ObservedCalm, SignalCalm
<1>2. CASE ~(PollFinalize \/ TurnEndSignal)
  <2>1. CASE Advance
    <3>1. req = NULL /\ ready = NULL
      BY DEF Calm, Books, Idle, Asking, Leaving, Arriving
    <3>2. UNCHANGED swap
      BY <2>1, <3>1 DEF Advance, RolloverIsDue
    <3> QED
      BY <3>2
  <2>2. CASE PollTranscript
    BY <2>2 DEF PollTranscript, Calm, Books, Idle, Asking, Leaving, Arriving
  <2>3. CASE Terminate \/ Respawn \/ BootMcp \/ ChildStep \/ UNCHANGED calmVars
    BY <2>3 DEF Terminate, Respawn, BootMcp, ChildStep, SubmitTrigger, SubmitPrompt,
       WriteReply, EndTurn, ChildExits, calmVars, machine
  <2> QED
    BY <1>2, <2>1, <2>2, <2>3, CalmNext
<1> QED
  BY <1>1, <1>2

\* With nobody moving by hand, what finalize takes for the successor is the
\* conversation of the child that the swap spawned.
THEOREM SuccessorFinalizes ==
    ASSUME MaxMoves = 0
    PROVE  Spec => FinalizedBySuccessor
<1>1. TypeOK /\ Calm /\ [Next]_vars
        => [swap # NULL /\ swap' = NULL =>
              /\ child # NULL
              /\ child.kind = "swap"
              /\ Taken = child.conv
              /\ Taken # swap.conv]_vars
  BY FinalizeStep DEF Arriving
<1> QED
  BY <1>1, CalmInvariant, PTL DEF Spec, FinalizedBySuccessor

\* And it is linked last: the session resumes it from then on.
THEOREM SuccessorComesLast ==
    ASSUME MaxMoves = 0
    PROVE  Spec => SuccessorIsLatest
<1>1. TypeOK /\ Calm /\ [Next]_vars
        => [swap # NULL /\ swap' = NULL => Last(lineage'[swap.session]) = nextConv - 1]_vars
  BY FinalizeStep DEF Arriving
<1> QED
  BY <1>1, CalmInvariant, PTL DEF Spec, SuccessorIsLatest

\* A turn end here would set off the notice.
StaleHere(c) == c \notin warned /\ Superseded(c)

\* Nothing that is marked or asked waits for the user's answer; and what is
\* marked, or about to be, has been looked at by the check before.
Deferring ==
    /\ req = NULL /\ swap = NULL /\ (pc = "context" \/ mark = CurrentConv)
          => ~StaleHere(CurrentConv)
    /\ mark # NULL => mark # deferred
    /\ req # NULL => req.conv # deferred

\* It depends on these alone.
LEMMA StaleSame ==
    ASSUME UNCHANGED <<lineage, mirror, registered, warned>>, NEW c, NEW d, c = d,
           ~StaleHere(c)
    PROVE  ~(StaleHere(d)')
<1>1. \A e : Owners(e)' = Owners(e)
  BY DEF Owners
<1>2. SolePlaces' = SolePlaces
  BY <1>1 DEF SolePlaces
<1> QED
  BY <1>2 DEF StaleHere, Superseded

\* Boot changes no lineage between rollovers.
LEMMA IdleBoot ==
    ASSUME TypeOK, Calm, BootMcp, req = NULL, swap = NULL
    PROVE  UNCHANGED lineage
<1>1. Idle /\ mirror \in Sessions /\ lineage \in [Sessions -> Seq(Convs)]
  BY DEF Calm, Books, Asking, Leaving, Arriving, TypeOK, RespawnTypeOK
<1>2. CASE KnownConv = NULL
  BY <1>2 DEF BootMcp
<1>3. CASE KnownConv # NULL
  <2>1. CurrentConv = KnownConv
    BY <1>3 DEF CurrentConv
  <2>2. Holds(lineage[mirror], KnownConv)
    BY <1>1, <2>1 DEF Idle, AllAt
  <2>3. lineage' = [lineage EXCEPT ![mirror] = lineage[mirror]]
    BY <1>3, <2>2, LinkHeld DEF BootMcp
  <2> QED
    BY <1>1, <2>3
<1> QED
  BY <1>2, <1>3

\* An attempt that is concluded goes on: it asks again, or it swaps.
LEMMA ConcludedGoesOn ==
    ASSUME TypeOK, Calm, req # NULL, req.phase = "writing",
           NEW valid, ConcludeAttempt(valid)
    PROVE  ~(req' = NULL /\ swap' = NULL)
<1>1. req \in Request /\ pending = NULL
  BY DEF TypeOK, OrNull, Calm, Idle, Asking, Leaving, Arriving
<1>2. CASE valid \/ req.attempts = 2
  <2>1. PICK leg : leg = [session |-> req.session, conv |-> req.conv]
    OBVIOUS
  <2>2. leg \in Leg
    BY <1>1, <2>1 DEF Request, Leg
  <2>3. swap' = leg
    BY <1>1, <1>2, <2>1 DEF ConcludeAttempt, StartSwap
  <2> QED
    BY <2>2, <2>3, RolloverNullAssumption
<1>3. CASE ~(valid \/ req.attempts = 2)
  <2>1. req' = [session |-> req.session, conv |-> req.conv, attempts |-> 2,
                phase |-> "requested", tail |-> "nothing"]
    BY <1>3 DEF ConcludeAttempt, StartHandoffTurn
  <2>2. req' \in Request
    BY <1>1, <2>1 DEF Request
  <2> QED
    BY <2>2, RolloverNullAssumption
<1> QED
  BY <1>2, <1>3

\* A child's own steps leave it where it is.
LEMMA ChildStays ==
    ASSUME TypeOK, ChildStep
    PROVE  child' = NULL \/ child'.conv = child.conv
<1>1. child \in Child
  BY DEF ChildStep, SubmitTrigger, SubmitPrompt, WriteReply, EndTurn, ChildExits,
     ExitChild, TakeHandoff, StartUserTurn, TypeOK, RespawnTypeOK, OrNull
<1> QED
  BY <1>1 DEF ChildStep, SubmitTrigger, SubmitPrompt, WriteReply, EndTurn,
     ChildExits, ExitChild, TakeHandoff, StartUserTurn, Child

\* A step to between two rollovers finishes one and drops the mark, or leaves
\* what the check reads.
LEMMA IdleStep ==
    ASSUME MaxMoves = 0, ~AutoCompact, TypeOK, Calm, [Next]_vars,
           ~CheckStale, ~CheckContext, req' = NULL, swap' = NULL
    PROVE  \/ /\ mark' = NULL /\ pc' # "context"
           \/ /\ UNCHANGED <<lineage, mirror, registered, warned, mark>>
              /\ req = NULL /\ swap = NULL
              /\ child' = NULL \/ child'.conv = child.conv
              /\ (pc' = "context" => pc = "context")
<1>1. ~(moves < MaxMoves)
  BY NoMove
<1>2. ready = NULL
  BY DEF Calm, Books
<1>3. CASE Advance
  <2>1. ~(req # NULL /\ req.phase = "writing")
    BY <1>2, <1>3, ConcludedGoesOn DEF Advance, RolloverIsDue, FinishHandoffTurn
  <2>2. ~RolloverIsDue
    <3>1. SUFFICES ASSUME RolloverIsDue PROVE FALSE
      OBVIOUS
    <3>2. req' = [session |-> mirror, conv |-> mark, attempts |-> 1,
                  phase |-> "requested", tail |-> "nothing"]
      BY <1>3, <3>1 DEF Advance, RolloverIsDue, StartHandoffTurn
    <3>3. mirror \in Sessions /\ mark \in Convs
      BY <3>1 DEF RolloverIsDue, TypeOK, RespawnTypeOK, OrNull
    <3>4. req' \in Request
      BY <3>2, <3>3 DEF Request
    <3> QED
      BY <3>4, RolloverNullAssumption
  <2> QED
    BY <1>2, <1>3, <2>1, <2>2 DEF Advance, childVars, notice
<1>4. CASE TurnEndSignal
  <2>1. ~(req # NULL /\ req.phase = "writing" /\ req.conv = stop.conv)
    BY <1>4, ConcludedGoesOn DEF TurnEndSignal
  <2>2. CASE swap # NULL /\ stop.conv # swap.conv
    BY <1>4, <2>1, <2>2 DEF TurnEndSignal, AtSelect, Finalize
  <2>3. CASE ~(swap # NULL /\ stop.conv # swap.conv)
    BY <1>4, <2>1, <2>3 DEF TurnEndSignal, AtSelect, childVars
  <2> QED
    BY <2>2, <2>3
<1>5. CASE PollTranscript
  BY <1>5, ConcludedGoesOn DEF PollTranscript, FinishHandoffTurn
<1>6. CASE PollFinalize
  BY <1>6 DEF PollFinalize, AtSelect, Finalize
<1>7. CASE Terminate \/ ScreenBusy \/ ScreenIdle \/ ContextUpdate \/ Fill \/ UNCHANGED vars
  BY <1>7 DEF Terminate, ScreenBusy, ScreenIdle, ContextUpdate, Fill, AtSelect, vars,
     machine, notice, respawnVars, childVars, wrapperVars, diskVars, storeVars
<1>8. CASE Respawn
  <2>1. req # NULL => req' # NULL
    <3>1. CASE pending.kind = "request" /\ req # NULL
      <4>1. req \in Request /\ req' = [req EXCEPT !.phase = "writing"]
        BY <1>8, <3>1 DEF Respawn, TypeOK, OrNull
      <4>2. req' \in Request
        BY <4>1 DEF Request
      <4> QED
        BY <4>2, RolloverNullAssumption
    <3>2. CASE ~(pending.kind = "request" /\ req # NULL)
      BY <1>8, <3>2 DEF Respawn
    <3> QED
      BY <3>1, <3>2
  <2>2. child = NULL /\ UNCHANGED swap
    BY <1>8 DEF Respawn, SpawnNext
  <2>3. ~(req = NULL /\ swap = NULL)
    BY <2>2 DEF Calm, Idle, Asking, Leaving, Arriving
  <2> QED
    BY <2>1, <2>2, <2>3
<1>9. CASE BootMcp
  BY <1>9, IdleBoot DEF BootMcp, AtSelect, machine, notice, childVars, wrapperVars
<1>10. CASE ChildStep
  <2>1. /\ UNCHANGED <<lineage, mirror, registered, warned, mark, swap>>
        /\ pc' = "context" => pc = "context"
    BY <1>10 DEF ChildStep, SubmitTrigger, SubmitPrompt, WriteReply, EndTurn, ChildExits,
       wrapperVars, storeVars, machine, notice
  <2>2. \/ req = NULL
        \/ req # NULL /\ \E prompt : req' = TailAfter(prompt)
        \/ req # NULL /\ \E r \in Tails : req' = [req EXCEPT !.tail = r]
        \/ req' = req
    BY <1>10 DEF ChildStep, SubmitTrigger, SubmitPrompt, WriteReply, EndTurn, ChildExits,
       Tails, machine
  <2> QED
    BY <1>10, <2>1, <2>2, TailKeepsRequest, ChildStays
<1> QED
  BY <1>1, <1>3, <1>4, <1>5, <1>6, <1>7, <1>8, <1>9, <1>10
  DEF Next, Battery, Ticks, Claude, User, ChildStep, RolloverSignal, InterruptTurn,
      ManualClear, ManualResume, SessionSwitch, RejectSwitch, Move

\* Nobody else touches the mark or the deferral.
LEMMA DeferralStep ==
    ASSUME MaxMoves = 0, ~AutoCompact, TypeOK, [Next]_vars, ~CheckStale
    PROVE  /\ deferred' \in {deferred, NULL}
           /\ ~CheckContext => mark' \in {mark, NULL}
<1>1. ~(moves < MaxMoves)
  BY NoMove
<1> QED
  BY <1>1 DEF Next, Battery, Ticks, Claude, User, CheckContext, Advance, TurnEndSignal,
     PollTranscript, PollFinalize, Finalize, DeferralAfterNotice, Terminate, Respawn,
     SubmitTrigger, Fill, WriteReply, EndTurn, ChildExits, BootMcp, ScreenBusy,
     ScreenIdle, ContextUpdate, RolloverSignal, SubmitPrompt, InterruptTurn, ManualClear,
     ManualResume, SessionSwitch, RejectSwitch, Move, vars, machine, notice

\* The check that asks the question runs before the check that marks, and the
\* one that marks before the one that asks for a hand-off.
LEMMA DeferringStep ==
    ASSUME MaxMoves = 0, ~AutoCompact, TypeOK, Calm, Deferring, [Next]_vars, TypeOK', Calm'
    PROVE  Deferring'
<1>1. CASE CheckStale
  <2>1. PICK c : c = CurrentConv
    OBVIOUS
  <2>2. UNCHANGED <<respawnVars, machine, stop>> /\ CurrentConv' = c
    BY <1>1, <2>1 DEF CheckStale, CurrentConv, KnownConv, respawnVars, wrapperVars, diskVars
  <2>3. CASE EnteredStale
    <3>1. warned' = warned \cup {c} /\ deferred' = c /\ req = NULL /\ StaleHere(c)
      BY <1>1, <2>1, <2>3 DEF CheckStale, EnteredStale, StaleHere
    <3>2. swap = NULL
      BY <2>3 DEF EnteredStale
    <3>3. mark' # NULL => mark' # deferred'
      BY <2>1, <2>2, <3>1, <3>2 DEF Deferring, machine
    <3>4. ~(StaleHere(c)')
      BY <3>1 DEF StaleHere
    <3>5. PICK d : d = CurrentConv'
      OBVIOUS
    <3> QED
      BY <2>2, <3>1, <3>3, <3>4 DEF Deferring, machine, StaleHere
  <2>4. CASE ~EnteredStale
    <3>1. UNCHANGED <<warned, deferred, lineage, mirror, registered, req, swap, mark>>
      BY <1>1, <2>2, <2>4 DEF CheckStale, notice, machine, respawnVars, wrapperVars, storeVars
    <3>2. req = NULL /\ swap = NULL => ~StaleHere(c)
      <4>1. SUFFICES ASSUME req = NULL, swap = NULL PROVE ~StaleHere(c)
        OBVIOUS
      <4>2. Idle /\ Books
        BY <4>1 DEF Calm, Asking, Leaving, Arriving
      <4>3. c # NULL
        BY <2>1, <4>2, NullAssumption
        DEF Idle, AllAt, TypeOK, RespawnTypeOK, OrNull, Child
      <4> QED
        BY <2>1, <2>4, <4>1, <4>2, <4>3 DEF EnteredStale, StaleHere, Books, Idle
    <3>3. req = NULL /\ swap = NULL => ~(StaleHere(c)')
      BY <3>1, <3>2, StaleSame
    <3> QED
      BY <2>2, <3>1, <3>3 DEF Deferring, StaleHere
  <2> QED
    BY <2>3, <2>4
<1>2. CASE CheckContext
  <2>1. PICK c : c = CurrentConv
    OBVIOUS
  <2>2. /\ UNCHANGED <<respawnVars, req, swap, deferred, warned>> /\ CurrentConv' = c
        /\ pc = "context" /\ pc' = "advance"
        /\ \/ mark' = mark
           \/ mark' = NULL
           \/ mark' = c /\ c # deferred
    BY <1>2, <2>1 DEF CheckContext, CurrentConv, KnownConv, respawnVars, wrapperVars,
       diskVars, notice
  <2>3. mark' # NULL => mark' # deferred'
    BY <2>2 DEF Deferring
  <2>4. req = NULL /\ swap = NULL => ~StaleHere(c)
    BY <2>1, <2>2 DEF Deferring
  <2>5. req = NULL /\ swap = NULL => ~(StaleHere(c)')
    BY <2>2, <2>4, StaleSame DEF respawnVars, wrapperVars, storeVars
  <2> QED
    BY <2>2, <2>3, <2>5 DEF Deferring, StaleHere
<1>3. CASE ~CheckStale /\ ~CheckContext
  <2>1. deferred' \in {deferred, NULL} /\ mark' \in {mark, NULL}
    BY <1>3, DeferralStep
  <2>2. mark' # NULL => mark' # deferred'
    BY <2>1 DEF Deferring
  <2>3. req' # NULL => req'.conv # deferred'
    <3>1. SUFFICES ASSUME req' # NULL PROVE req'.conv # deferred'
      OBVIOUS
    <3>2. req'.conv # NULL
      BY <3>1, NullAssumption DEF TypeOK, OrNull, Request
    <3>3. req'.conv # deferred
      BY <3>1, AskedConv DEF Deferring
    <3> QED
      BY <2>1, <3>2, <3>3
  <2>4. ASSUME req' = NULL, swap' = NULL, pc' = "context" \/ mark' = CurrentConv',
               NEW d, d = CurrentConv'
        PROVE  ~(StaleHere(d)')
    <3>1. Idle'
      BY <2>4 DEF Calm, Asking, Leaving, Arriving
    <3>2. child' # NULL /\ d = child'.conv /\ d # NULL
      BY <2>4, <3>1, NullAssumption DEF Idle, AllAt, TypeOK, RespawnTypeOK, OrNull, Child
    <3>3. /\ UNCHANGED <<lineage, mirror, registered, warned, mark>>
          /\ req = NULL /\ swap = NULL /\ child'.conv = child.conv
          /\ (pc' = "context" => pc = "context")
      BY <1>3, <2>4, <3>2, IdleStep
    <3>4. Idle
      BY <3>3 DEF Calm, Asking, Leaving, Arriving
    <3>5. CurrentConv = d
      BY <3>2, <3>3, <3>4 DEF Idle, AllAt
    <3>6. ~StaleHere(d)
      BY <2>4, <3>3, <3>5 DEF Deferring
    <3> QED
      BY <3>3, <3>6, StaleSame
  <2>5. PICK d : d = CurrentConv'
    OBVIOUS
  <2> QED
    BY <2>2, <2>3, <2>4, <2>5 DEF Deferring, StaleHere
<1> QED
  BY <1>1, <1>2, <1>3

\* With nobody moving by hand and no automatic compaction, a conversation the
\* user is being asked about is not asked for its hand-off.
THEOREM DeferralIsKept ==
    ASSUME MaxMoves = 0, ~AutoCompact
    PROVE  Spec => []DeferralHolds
<1>1. Init => Deferring
  <2>1. SUFFICES ASSUME Init PROVE Deferring
    OBVIOUS
  <2>2. CurrentConv # NULL
    <3>1. CurrentConv = newest
      BY <2>1 DEF Init, CurrentConv, KnownConv
    <3>2. newest \in Convs
      BY <2>1, RolloverAssumption, ConvAssumption DEF Init, Convs
    <3> QED
      BY <3>1, <3>2, NullAssumption
  <2> QED
    BY <2>1, <2>2 DEF Init, Deferring
<1>2. TypeOK /\ Calm /\ Deferring /\ TypeOK' /\ Calm' /\ [Next]_vars => Deferring'
  BY DeferringStep
<1>3. TypeOK /\ Calm /\ Deferring => DeferralHolds
  <2>1. SUFFICES ASSUME TypeOK, Calm, Deferring, pending # NULL, pending.kind = "request"
                 PROVE  pending.resume # deferred
    BY DEF DeferralHolds
  <2>2. Asking /\ pending.resume = req.conv
    BY <2>1 DEF Calm, Idle, Asking, Leaving, Arriving
  <2> QED
    BY <2>1, <2>2 DEF Asking, Deferring
<1> QED
  BY <1>1, <1>2, <1>3, CalmInvariant, PTL DEF Spec

\* With nobody moving by hand, a request that is on the books is on its way:
\* what keeps it from coming is a switch registered before it.
THEOREM RequestsArrive ==
    ASSUME MaxMoves = 0
    PROVE  Spec => []RequestIsComing
<1>1. Calm => RequestIsComing
  BY DEF Calm, Idle, Asking, Leaving, Arriving, RequestIsComing
<1> QED
  BY <1>1, CalmInvariant, PTL

=============================================================================
