------------------------------ MODULE Rollover ------------------------------
(***************************************************************************)
(* The context rollover (wrapper/pty_wrapper.py, rollover.py): when the    *)
(* active conversation is full, the wrapper respawns it for one dedicated  *)
(* turn that writes a hand-off document, then swaps to a fresh conversation*)
(* of the same session and, once that successor is observed, links it.     *)
(*                                                                         *)
(* The wrapper is one thread.  Its turn-end battery runs stale-entry check,*)
(* context check and rollover machine in that order before anything else;  *)
(* pc says where it stands, so that the child and the hooks, which are     *)
(* other processes, may act in between.  The session tools, the socket of  *)
(* the MCP server and the wrapper's own crash are in Transition: here a    *)
(* switch is one step, and the server always settles on the mirror.        *)
(***************************************************************************)
EXTENDS Respawn

CONSTANTS
    OldConvs,     \* BOUND: conversations that exist at the start
    MaxMoves,     \* BOUND: switches, hand-made moves and interrupted turns
    AutoCompact,  \* whether Claude Code's automatic compaction ever fires
    StopHook      \* whether a turn's Stop signal is sent: {TRUE} installed,
                  \* {FALSE} declined, both: it may be missing now and then

ASSUME RolloverAssumption ==
    /\ OldConvs \in Convs
    /\ MaxMoves \in Nat
    /\ AutoCompact \in BOOLEAN
    /\ StopHook \subseteq BOOLEAN

VARIABLES
    pc,          \* where the wrapper's loop stands in the battery
    mark,        \* _rollover_pending_conv_id
    req,         \* _rollover_request_state
    ready,       \* _rollover_ready
    swap,        \* _rollover_swap_state
    deferred,    \* _stale_notice_conv
    warned,      \* _stale_conv_warned
    noticeFile,  \* the conversation handoffs/notice-pending.json is about
    seenBusy,    \* _was_busy: the screen's last reading
    stop,        \* a turn_end signal on the socket, not handled yet
    full,        \* conversations whose usage has reached the trigger
    answered,    \* conversations with an assistant event in the transcript
    bornFull,    \* ... whose first one had reached the trigger already
    mcp,         \* the child's MCP server has booted
    moves        \* how much of MaxMoves is used

machine == <<mark, req, ready, swap>>
notice  == <<deferred, warned, noticeFile>>
usage   == <<full, answered, bornFull>>
vars    == <<respawnVars, pc, machine, notice, seenBusy, stop, usage, mcp, moves>>

\* tail: what the transcript holds of the request since it was registered,
\* as check_trigger_turn reads it.
Request == [session: Sessions, conv: Convs, attempts: {1, 2},
            phase: {"requested", "writing"},
            tail: {"nothing", "foreign", "asked", "good", "bad"}]

\* A finished hand-off waiting for its swap, or the swap in flight.
Leg == [session: Sessions, conv: Convs]

StopSignal == [conv: Convs, reply: {"good", "bad"}]

ASSUME RolloverNullAssumption == NULL \notin Request \cup Leg \cup StopSignal

TypeOK ==
    /\ RespawnTypeOK
    /\ pc \in {"loop", "stale", "context", "advance"}
    /\ mark \in OrNull(Convs)
    /\ req \in OrNull(Request)
    /\ ready \in OrNull(Leg)
    /\ swap \in OrNull(Leg)
    /\ deferred \in OrNull(Convs)
    /\ warned \in SUBSET Convs
    /\ noticeFile \in OrNull(Convs)
    /\ seenBusy \in BOOLEAN
    /\ stop \in OrNull(StopSignal)
    /\ full \in SUBSET Convs
    /\ answered \in SUBSET Convs
    /\ bornFull \in SUBSET Convs
    /\ mcp \in BOOLEAN
    /\ moves \in 0..MaxMoves

Owners(c) == {s \in registered : c \in {lineage[s][i] : i \in 1..Len(lineage[s])}}

\* Lineages over the old conversations, oldest first.
OldLineages ==
    {ids \in UNION {[1..n -> 1..OldConvs] : n \in 0..OldConvs} :
        \A i, j \in DOMAIN ids : i < j => ids[i] < ids[j]}

\* The wrapper was started with --continue over OldConvs conversations, each
\* of one session, and the server has settled on the newest one's session.
Init ==
    /\ lineage \in [Sessions -> OldLineages]
    /\ registered = Sessions
    /\ \A c \in 1..OldConvs : \E s \in Sessions : Owners(c) = {s}
    /\ newest \in 1..OldConvs
    /\ mirror \in Owners(newest)
    /\ child = [conv |-> newest, target |-> NULL, kind |-> "boot",
                trig |-> FALSE, turn |-> "none", got |-> NULL,
                unflushed |-> FALSE]
    /\ nextConv = OldConvs + 1
    /\ transcripts = 1..OldConvs
    /\ answered = 1..OldConvs
    /\ full \in SUBSET (1..OldConvs)
    /\ bornFull \in SUBSET full
    /\ archived = {}
    /\ precedents = [s \in Sessions |-> {}]
    /\ pending = NULL
    /\ assigned = NULL
    /\ fromHook = NULL
    /\ undo = NULL
    /\ pendingFile = NULL
    /\ pc = "loop"
    /\ mark = NULL
    /\ req = NULL
    /\ ready = NULL
    /\ swap = NULL
    /\ deferred = NULL
    /\ warned = {}
    /\ noticeFile = NULL
    /\ seenBusy = FALSE
    /\ stop = NULL
    /\ mcp = TRUE
    /\ moves = 0

Move == moves < MaxMoves /\ moves' = moves + 1

\* The wrapper's loop is at its select and has a child to watch.
AtSelect == pc = "loop" /\ child # NULL

-----------------------------------------------------------------------------
(* The rollover machine's steps *)

\* The same conversation is respawned to be asked for its hand-off.  The
\* request is on the books even when the transition is dropped as busy.
StartHandoffTurn(session, conv, attempts) ==
    /\ req' = [session |-> session, conv |-> conv, attempts |-> attempts,
               phase |-> "requested", tail |-> "nothing"]
    /\ Register(session, conv, session, "request")

\* Mutant: the swap is filed under whatever session is current by then.
StartSwapOfCurrent(leg) ==
    IF pending # NULL
    THEN /\ ready' = leg
         /\ UNCHANGED <<swap, pending, mirror, pendingFile, archived>>
    ELSE /\ ready' = NULL
         /\ swap' = [leg EXCEPT !.session = mirror]
         /\ Register(leg.session, NULL, leg.session, "swap")

\* The swap leg takes the finished hand-off, unless a transition is in
\* flight: then it stays ready and the next turn end tries again.
StartSwap(leg) ==
    IF pending # NULL
    THEN /\ ready' = leg
         /\ UNCHANGED <<swap, pending, mirror, pendingFile, archived>>
    ELSE /\ ready' = NULL
         /\ swap' = leg
         /\ Register(leg.session, NULL, leg.session, "swap")

\* Mutant: every invalid hand-off is asked for again.
ConcludeAttemptRetrying(valid) ==
    IF valid
    THEN /\ req' = NULL
         /\ StartSwap([session |-> req.session, conv |-> req.conv])
    ELSE /\ StartHandoffTurn(req.session, req.conv, req.attempts + 1)
         /\ UNCHANGED <<ready, swap>>

\* A valid hand-off, or the excerpt after two failures, moves on to the swap;
\* a first failure asks once more.
ConcludeAttempt(valid) ==
    IF valid \/ req.attempts = 2
    THEN /\ req' = NULL
         /\ StartSwap([session |-> req.session, conv |-> req.conv])
    ELSE /\ StartHandoffTurn(req.session, req.conv, 2)
         /\ UNCHANGED <<ready, swap>>

\* What the transcript says of the request: still waiting, or settled.
Settled == req.tail \in {"foreign", "good", "bad"}

FinishHandoffTurn ==
    IF Settled THEN ConcludeAttempt(req.tail = "good")
    ELSE UNCHANGED <<req, ready, swap, pending, mirror, pendingFile, archived>>

\* Mutant: the successor's own link is left to its MCP server.
FinalizeLinkingPredecessor(conv) ==
    /\ lineage' = IF swap.session \in registered
                  THEN [lineage EXCEPT ![swap.session] = Link(@, swap.conv)]
                  ELSE lineage
    /\ precedents' = [precedents EXCEPT ![swap.session] = {}]
    /\ swap' = NULL
    /\ mark' = NULL

\* The successor is linked after its predecessor, the session's precedents
\* are cleared, and every mark is dropped.
Finalize(conv) ==
    /\ lineage' = IF swap.session \in registered
                  THEN [lineage EXCEPT ![swap.session] =
                           Link(Link(@, swap.conv), conv)]
                  ELSE lineage
    /\ precedents' = [precedents EXCEPT ![swap.session] = {}]
    /\ swap' = NULL
    /\ mark' = NULL

-----------------------------------------------------------------------------
(* The turn-end battery *)

\* Mutant: the deferral goes whether or not the notice has been read.
DeferralDropped == NULL

\* Both ways out of the deferral wait for the notice to have been read.
DeferralAfterNotice == IF noticeFile = NULL THEN NULL ELSE deferred

\* The places of the lineage that no other session shares (sole_ids).
SolePlaces == {i \in 1..Len(lineage[mirror]) : Owners(lineage[mirror][i]) = {mirror}}

\* A conversation that has such a place, and not the last of them.
Superseded(c) ==
    /\ \E i \in SolePlaces : lineage[mirror][i] = c
    /\ \E last \in SolePlaces :
          (\A i \in SolePlaces : i <= last) /\ lineage[mirror][last] # c

\* A turn ended in a conversation the current session has rolled over from:
\* warn once, and hold its rollover until the user has answered.
EnteredStale ==
    /\ req = NULL /\ ready = NULL /\ swap = NULL /\ pending = NULL
    /\ mirror \in registered
    /\ CurrentConv # NULL
    /\ CurrentConv \notin warned
    /\ Superseded(CurrentConv)

CheckStale ==
    /\ pc = "stale"
    /\ pc' = "context"
    /\ IF EnteredStale
       THEN /\ warned' = warned \cup {CurrentConv}
            /\ deferred' = CurrentConv
            /\ noticeFile' = CurrentConv
       ELSE UNCHANGED notice
    /\ UNCHANGED <<respawnVars, machine, seenBusy, stop, usage, mcp, moves>>

\* Mutant: a conversation without a first answer counts as born small.
MarkableUnborn(c) == c \in full \ bornFull

\* Mutant: the check does not know of the deferral.
CheckContextUndeferred ==
    /\ pc = "context"
    /\ pc' = "advance"
    /\ mark' = IF CurrentConv = NULL THEN mark
               ELSE IF CurrentConv \in (full \cap answered) \ bornFull
               THEN CurrentConv
               ELSE IF mark = CurrentConv THEN mark
               ELSE NULL
    /\ UNCHANGED <<respawnVars, req, ready, swap, notice, seenBusy, stop, usage,
                   mcp, moves>>

\* The current conversation is marked when it is full, was not full from its
\* first answer on (a successor would be no better), and is not waiting for
\* the user's move-or-stay answer.  Another conversation's mark is dropped.
Markable(c) == c \in (full \cap answered) \ bornFull

CheckContext ==
    /\ pc = "context"
    /\ pc' = "advance"
    /\ mark' = IF CurrentConv = NULL \/ CurrentConv = deferred THEN mark
               ELSE IF Markable(CurrentConv) THEN CurrentConv
               ELSE IF mark = CurrentConv THEN mark
               ELSE NULL
    /\ UNCHANGED <<respawnVars, req, ready, swap, notice, seenBusy, stop, usage,
                   mcp, moves>>

\* Mutant: a swap in flight does not hold the next rollover back.
RolloverIsDueInSwap ==
    /\ req = NULL /\ ready = NULL /\ pending = NULL
    /\ mark # NULL
    /\ mark = CurrentConv
    /\ mirror # NULL

\* The machine: a request in its validation phase is looked at, a ready
\* hand-off is swapped in, a marked conversation is asked for one.
RolloverIsDue ==
    /\ req = NULL /\ ready = NULL /\ swap = NULL /\ pending = NULL
    /\ mark # NULL
    /\ mark = CurrentConv
    /\ mirror # NULL

Advance ==
    /\ pc = "advance"
    /\ pc' = "loop"
    /\ CASE req # NULL /\ req.phase = "writing" -> FinishHandoffTurn
         [] req = NULL /\ ready # NULL -> StartSwap(ready) /\ UNCHANGED req
         [] RolloverIsDue ->
               StartHandoffTurn(mirror, mark, 1) /\ UNCHANGED <<ready, swap>>
         [] OTHER -> UNCHANGED <<req, ready, swap, pending, mirror, pendingFile,
                                 archived>>
    /\ UNCHANGED <<childVars, assigned, fromHook, undo, transcripts, newest,
                   registered, lineage, precedents, mark, notice, seenBusy,
                   stop, usage, mcp, moves>>

-----------------------------------------------------------------------------
(* What starts the battery *)

\* Busy on the screen: a turn, or the spinner frames of a booting child.
ScreenBusy ==
    /\ AtSelect
    /\ ~seenBusy
    /\ child.turn # "none" \/ child.trig
    /\ seenBusy' = TRUE
    /\ UNCHANGED <<respawnVars, pc, machine, notice, stop, usage, mcp, moves>>

\* The falling edge; the hint rotates, so it may fall in mid-turn.
ScreenIdle ==
    /\ AtSelect
    /\ seenBusy
    /\ seenBusy' = FALSE
    /\ pc' = "stale"
    /\ UNCHANGED <<respawnVars, machine, notice, stop, usage, mcp, moves>>

\* context.json changed: the statusline saw an API call complete.
ContextUpdate ==
    /\ AtSelect
    /\ child.turn # "none" \/ child.unflushed
    /\ pc' = "stale"
    /\ UNCHANGED <<respawnVars, machine, notice, seenBusy, stop, usage, mcp,
                   moves>>

\* Mutant: any signal of the conversation concludes the attempt.
TurnEndSignalAnyPhase ==
    /\ AtSelect
    /\ stop # NULL
    /\ stop' = NULL
    /\ fromHook' = stop.conv
    /\ deferred' = DeferralAfterNotice
    /\ IF req # NULL /\ req.conv = stop.conv
       THEN /\ ConcludeAttempt(stop.reply = "good")
            /\ UNCHANGED <<pc, mark, lineage, precedents>>
       ELSE /\ UNCHANGED <<req, ready, pending, mirror, pendingFile, archived>>
            /\ IF swap # NULL
               THEN /\ UNCHANGED pc
                    /\ IF stop.conv # swap.conv THEN Finalize(stop.conv)
                       ELSE UNCHANGED <<swap, mark, lineage, precedents>>
               ELSE /\ pc' = "stale"
                    /\ UNCHANGED <<swap, mark, lineage, precedents>>
    /\ UNCHANGED <<childVars, assigned, undo, transcripts, newest, registered,
                   warned, noticeFile, seenBusy, usage, mcp, moves>>

\* The Stop hook's signal names the conversation, releases the deferral when
\* the notice has been read, and then belongs to the hand-off turn, to the
\* successor, or to the battery.
TurnEndSignal ==
    /\ AtSelect
    /\ stop # NULL
    /\ stop' = NULL
    /\ fromHook' = stop.conv
    /\ deferred' = DeferralAfterNotice
    /\ IF req # NULL /\ req.phase = "writing" /\ req.conv = stop.conv
       THEN /\ ConcludeAttempt(stop.reply = "good")
            /\ UNCHANGED <<pc, mark, lineage, precedents>>
       ELSE /\ UNCHANGED <<req, ready, pending, mirror, pendingFile, archived>>
            /\ IF swap # NULL
               THEN /\ UNCHANGED pc
                    /\ IF stop.conv # swap.conv THEN Finalize(stop.conv)
                       ELSE UNCHANGED <<swap, mark, lineage, precedents>>
               ELSE /\ pc' = "stale"
                    /\ UNCHANGED <<swap, mark, lineage, precedents>>
    /\ UNCHANGED <<childVars, assigned, undo, transcripts, newest, registered,
                   warned, noticeFile, seenBusy, usage, mcp, moves>>

-----------------------------------------------------------------------------
(* The ticks of the loop *)

\* The reply may reach the transcript after the last turn-end signal.
PollTranscript ==
    /\ AtSelect
    /\ req # NULL
    /\ req.phase = "writing"
    /\ Settled
    /\ FinishHandoffTurn
    /\ UNCHANGED <<childVars, assigned, fromHook, undo, transcripts, newest,
                   registered, lineage, precedents, pc, mark, notice, seenBusy,
                   stop, usage, mcp, moves>>

\* Mutant: the predecessor's own id passes for the successor's.
AnyConversationObserved ==
    /\ swap # NULL
    /\ CurrentConv # NULL
    /\ CurrentConv = assigned /\ fromHook = NULL => CurrentConv \in transcripts

\* A successor counts as observed when the current conversation is another
\* one, and not merely the id assigned at spawn.
SuccessorObserved ==
    /\ swap # NULL
    /\ CurrentConv # NULL
    /\ CurrentConv # swap.conv
    /\ CurrentConv = assigned /\ fromHook = NULL => CurrentConv \in transcripts

PollFinalize ==
    /\ AtSelect
    /\ SuccessorObserved
    /\ Finalize(CurrentConv)
    /\ UNCHANGED <<childVars, wrapperVars, diskVars, registered, archived, pc,
                   req, ready, notice, seenBusy, stop, usage, mcp, moves>>

Terminate ==
    /\ AtSelect
    /\ SendTerminate(seenBusy)
    /\ UNCHANGED <<childVars, mirror, assigned, fromHook, undo, diskVars,
                   storeVars, pc, machine, notice, seenBusy, stop, usage, mcp,
                   moves>>

\* Mutant: the request is not told that its child was spawned.
RespawnKeepingPhase ==
    /\ pc = "loop"
    /\ SpawnNext
    /\ seenBusy' = FALSE
    /\ mcp' = FALSE
    /\ UNCHANGED <<mirror, diskVars, storeVars, pc, machine, notice, stop, usage,
                   moves>>

\* A dedicated turn's child, once spawned, puts the request into its
\* validation phase (whichever request is on the books by then).
Respawn ==
    /\ pc = "loop"
    /\ SpawnNext
    /\ req' = IF pending.kind = "request" /\ req # NULL
              THEN [req EXCEPT !.phase = "writing"]
              ELSE req
    /\ seenBusy' = FALSE
    /\ mcp' = FALSE
    /\ UNCHANGED <<mirror, diskVars, storeVars, pc, mark, ready, swap, notice,
                   stop, usage, moves>>

-----------------------------------------------------------------------------
(* Signals of other processes *)

\* PreCompact: Claude Code was about to compact; the hook blocks it and has
\* the conversation marked at once.  (The last id: see Fill.)
RolloverSignal ==
    /\ AutoCompact
    /\ AtSelect
    /\ child.turn # "none"
    /\ nextConv \in Convs
    /\ mark' = child.conv
    /\ UNCHANGED <<respawnVars, pc, req, ready, swap, notice, seenBusy, stop,
                   usage, mcp, moves>>

\* session_switch in a turn, with the wrapper's handling of its signal.
SessionSwitch(target) ==
    /\ Move
    /\ AtSelect
    /\ mcp
    /\ child.turn # "none"
    /\ mirror # NULL
    /\ target # mirror
    /\ lineage' = IF CurrentConv # NULL
                  THEN [lineage EXCEPT ![mirror] = Link(@, CurrentConv)]
                  ELSE lineage
    /\ precedents' = [precedents EXCEPT ![mirror] = @ \ {target}]
    /\ Register(target, ResumeConv(target), mirror, "switch")
    /\ UNCHANGED <<childVars, assigned, fromHook, undo, transcripts, newest,
                   registered, pc, machine, notice, seenBusy, stop, usage, mcp>>

RejectSwitch(rejected) ==
    /\ Move
    /\ AtSelect
    /\ mcp
    /\ child.turn # "none"
    /\ mirror # NULL
    /\ rejected # mirror
    /\ precedents' = [precedents EXCEPT ![mirror] = @ \cup {rejected}]
    /\ UNCHANGED <<childVars, wrapperVars, diskVars, registered, lineage,
                   archived, pc, machine, notice, seenBusy, stop, usage, mcp>>

\* The child's MCP server boots, settles on the mirror and links the
\* conversation the wrapper reports.
BootMcp ==
    /\ AtSelect
    /\ ~mcp
    /\ mirror # NULL
    /\ mcp' = TRUE
    /\ lineage' = IF KnownConv # NULL
                  THEN [lineage EXCEPT ![mirror] = Link(@, KnownConv)]
                  ELSE lineage
    /\ UNCHANGED <<childVars, wrapperVars, diskVars, registered, archived,
                   precedents, pc, machine, notice, seenBusy, stop, usage,
                   moves>>

-----------------------------------------------------------------------------
(* The child, its transcript and the user *)

\* How a user prompt or the trigger moves the request's transcript along.
TailAfter(prompt) ==
    IF req = NULL \/ child.conv # req.conv THEN req
    ELSE IF prompt = "trigger" THEN [req EXCEPT !.tail = "asked"]
    ELSE IF req.tail = "nothing" THEN [req EXCEPT !.tail = "foreign"]
    ELSE req

\* (A signal already on the socket is read within a tick or two, long before
\* Claude Code has booted far enough to submit anything.)
SubmitTrigger ==
    /\ stop = NULL
    /\ TakeHandoff
    /\ req' = TailAfter("trigger")
    /\ UNCHANGED <<nextConv, wrapperVars, storeVars, pc, mark, ready, swap,
                   notice, seenBusy, stop, usage, mcp, moves>>

\* Return is seen by the wrapper first: with the notice read, it releases
\* the deferral.  Then the hook reads the notice.
SubmitPrompt ==
    /\ AtSelect
    /\ stop = NULL
    /\ StartUserTurn
    /\ deferred' = DeferralAfterNotice
    /\ noticeFile' = NULL
    /\ req' = TailAfter("user")
    /\ UNCHANGED <<nextConv, wrapperVars, pendingFile, storeVars, pc, mark,
                   ready, swap, warned, seenBusy, stop, usage, mcp, moves>>

\* An API call completes and the conversation has reached the trigger.  The
\* last conversation id never does, so that a successor can always be drawn.
Fill ==
    /\ child # NULL
    /\ child.turn # "none"
    /\ nextConv \in Convs
    /\ full' = full \cup {child.conv}
    /\ UNCHANGED <<respawnVars, pc, machine, notice, seenBusy, stop, answered,
                   bornFull, mcp, moves>>

\* Assistant text reaches the transcript, during the turn or after it; the
\* first text after the trigger is what validation will read.
WriteReply ==
    /\ child # NULL
    /\ child.turn # "none" \/ child.unflushed
    /\ child' = [child EXCEPT !.unflushed = FALSE]
    /\ answered' = answered \cup {child.conv}
    /\ bornFull' \in IF child.conv \in full \ answered
                     THEN {bornFull, bornFull \cup {child.conv}}
                     ELSE {bornFull}
    /\ \/ /\ req # NULL /\ child.conv = req.conv /\ req.tail = "asked"
          /\ \E r \in {"good", "bad"} : req' = [req EXCEPT !.tail = r]
       \/ /\ ~(req # NULL /\ child.conv = req.conv /\ req.tail = "asked")
          /\ UNCHANGED req
    /\ UNCHANGED <<nextConv, wrapperVars, diskVars, storeVars, pc, mark, ready,
                   swap, notice, seenBusy, stop, full, mcp, moves>>

\* A turn ends.  Its Stop signal, if there is one, waits on the socket; its
\* last text is still to be written.
EndTurn ==
    /\ child # NULL
    /\ child.turn # "none"
    /\ stop = NULL
    /\ child' = [child EXCEPT !.turn = "none", !.unflushed = TRUE]
    /\ \E sent \in StopHook : \E r \in {"good", "bad"} :
          stop' = IF sent THEN [conv |-> child.conv, reply |-> r] ELSE NULL
    /\ UNCHANGED <<nextConv, wrapperVars, diskVars, storeVars, pc, machine,
                   notice, seenBusy, usage, mcp, moves>>

\* The user interrupts: no Stop signal and no text.
InterruptTurn ==
    /\ Move
    /\ child # NULL
    /\ child.turn # "none"
    /\ child' = [child EXCEPT !.turn = "none"]
    /\ UNCHANGED <<nextConv, wrapperVars, diskVars, storeVars, pc, machine,
                   notice, seenBusy, stop, usage, mcp>>

\* Moving by hand; the loading may render busy frames.
ManualResume(c) ==
    /\ Move
    /\ AtSelect
    /\ stop = NULL
    /\ MoveByResume(c)
    /\ seenBusy' \in {seenBusy, TRUE}
    /\ UNCHANGED <<nextConv, pending, mirror, undo, pendingFile, transcripts,
                   storeVars, pc, machine, notice, stop, usage, mcp>>

ManualClear ==
    /\ Move
    /\ AtSelect
    /\ stop = NULL
    /\ MoveByClear
    /\ UNCHANGED <<pending, mirror, undo, diskVars, storeVars, pc, machine,
                   notice, seenBusy, stop, usage, mcp>>

\* The child dies of the SIGTERM (a child that leaves by itself ends the
\* wrapper: Transition).  A Stop signal it sent may outlive it.
ChildExits ==
    /\ pending # NULL
    /\ pending.terminated
    /\ ExitChild
    /\ UNCHANGED <<nextConv, wrapperVars, diskVars, storeVars, pc, machine,
                   notice, seenBusy, stop, usage, mcp, moves>>

-----------------------------------------------------------------------------
(* The specification *)

Battery == CheckStale \/ CheckContext \/ Advance

Ticks == PollTranscript \/ PollFinalize \/ Terminate \/ Respawn

Claude ==
    \/ SubmitTrigger \/ Fill \/ WriteReply \/ EndTurn \/ ChildExits \/ BootMcp
    \/ ScreenBusy \/ ScreenIdle \/ ContextUpdate \/ RolloverSignal

User ==
    \/ SubmitPrompt \/ InterruptTurn \/ ManualClear
    \/ \E c \in Convs : ManualResume(c)
    \/ \E s \in Sessions : SessionSwitch(s) \/ RejectSwitch(s)

Next == Battery \/ TurnEndSignal \/ Ticks \/ Claude \/ User

\* The wrapper never leaves its battery half done, and every iteration of
\* its loop reads the socket and runs every tick, however often a battery
\* comes in between: strong fairness.  Claude Code submits its trigger, ends
\* its turns and writes them down; it redraws the screen idle after a turn
\* and dies of a SIGTERM even under a user who never stops typing.
Fairness ==
    /\ WF_vars(Battery)
    /\ WF_vars(Respawn)
    /\ WF_vars(SubmitTrigger)
    /\ WF_vars(EndTurn)
    /\ WF_vars(WriteReply)
    /\ SF_vars(TurnEndSignal)
    /\ SF_vars(PollTranscript)
    /\ SF_vars(PollFinalize)
    /\ SF_vars(Terminate)
    /\ SF_vars(ChildExits)
    /\ SF_vars(child # NULL /\ child.turn = "none" /\ ScreenIdle)

Spec == Init /\ [][Next]_vars

FairSpec == Spec /\ Fairness

-----------------------------------------------------------------------------
(* Properties *)

\* A rollover is in at most one of its stages: asking for the hand-off,
\* holding a finished one, or swapping (_advance_rollover reads the three
\* fields as one state, in that order).
OneStage ==
    /\ req # NULL => ready = NULL /\ swap = NULL
    /\ ready # NULL => swap = NULL

\* A registered respawn for a dedicated turn always has its request waiting
\* for it, the same session and conversation, not concluded by a signal that
\* came before the turn was spawned (_spawn_child sets whatever request it
\* finds to "writing").
RespawnHasItsRequest ==
    pending # NULL /\ pending.kind = "request"
       => /\ req # NULL
          /\ req.phase = "requested"
          /\ req.session = pending.target
          /\ req.conv = pending.resume

\* The move-or-stay deferral outlives the notice: it is not released while
\* the notice that asks the question still lies unread (both release paths).
UnreadNoticeDefers == noticeFile # NULL => deferred = noticeFile

\* A rollover never asks a conversation that was born full, so rollovers do
\* not chase each other (the loop guard and the deferral on unknown birth).
NoRolloverLoop == req # NULL => req.conv \notin bornFull

\* While the user has not answered whether to stay in a rolled-over
\* conversation, no dedicated turn is registered for it ("marking a rollover
\* would fork the lineage before the user could choose to move").
DeferralHolds ==
    ~(/\ pending # NULL
      /\ pending.kind = "request"
      /\ pending.resume = deferred)

\* The conversation a finalizing step takes for the successor: that of the
\* Stop signal it consumes, or else the current one the tick has looked at.
Taken == IF stop' = stop THEN CurrentConv ELSE stop.conv

\* What finalize takes for the successor is the conversation of the child the
\* swap spawned, however the signals of its predecessor straggle in and
\* whether or not anything was written yet (the two entry-confirmation paths
\* of _finalize_rollover).
FinalizedBySuccessor ==
    [][swap # NULL /\ swap' = NULL =>
          /\ child # NULL
          /\ child.kind = "swap"
          /\ Taken = child.conv
          /\ Taken # swap.conv]_vars

\* After a rollover the session resumes the successor, not the predecessor
\* (link order in _finalize_rollover, against the link of the MCP boot).
SuccessorIsLatest ==
    [][swap # NULL /\ swap' = NULL => Last(lineage'[swap.session]) = nextConv - 1]_vars

\* What the machine is busy with, read off its three fields.
Stages == INSTANCE RolloverStages WITH
    Legs <- Leg,
    NoLeg <- NULL,
    stage <- IF req # NULL THEN "asking"
             ELSE IF ready # NULL THEN "ready"
             ELSE IF swap # NULL THEN "swapping" ELSE "idle",
    leg <- IF req # NULL THEN [session |-> req.session, conv |-> req.conv]
           ELSE IF ready # NULL THEN ready ELSE swap,
    attempt <- IF req # NULL THEN req.attempts ELSE 0

\* Whatever is switched, moved, typed or interrupted meanwhile, a rollover
\* goes through its stages in order, asks at most twice and stays with the
\* session and the conversation it began with.
RolloverIsOrderly == Stages!Spec

\* With nobody switching or moving by hand, a rollover that has begun ends:
\* the request is answered or given up, and the successor is observed.
RolloverEnds ==
    /\ req # NULL ~> req = NULL
    /\ swap # NULL ~> swap = NULL

-----------------------------------------------------------------------------
(* What the code's comments say and the code does not do *)

\* A request on the books is on its way ("requested - the dedicated turn has
\* not spawned yet").
RequestIsComing ==
    req # NULL /\ req.phase = "requested"
       => pending # NULL /\ pending.kind = "request"

\* Until the successor is observed the session can still be resumed ("a
\* failure in between leaves the predecessor fully active").
PredecessorResumable ==
    swap # NULL /\ child # NULL /\ child.kind = "swap"
       /\ child.conv \notin transcripts
          => ResumeConv(swap.session) # NULL

=============================================================================
