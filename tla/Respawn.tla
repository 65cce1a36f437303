------------------------------- MODULE Respawn -------------------------------
(***************************************************************************)
(* The respawn core of the wrapper (wrapper/pty_wrapper.py): one Claude    *)
(* Code child at a time, a registered transition (_pending_respawn), the   *)
(* hand-off slot on disk (handoff_store), the wrapper's session mirror and *)
(* the session store's lineage.  Transition and Rollover extend it.        *)
(*                                                                         *)
(* Conversations are numbered in the order their ids are drawn, so a fresh *)
(* uuid is the next number.  Prompts and summaries are not modelled: a     *)
(* hand-off is its target session and the kind of transition it belongs to.*)
(***************************************************************************)
EXTENDS Integers, Sequences, SequencesExt

CONSTANTS
    Sessions,   \* session names
    MaxConv,    \* BOUND: how many conversation ids are ever drawn
    NULL        \* Python's None

ASSUME ConvAssumption == MaxConv \in Nat

Convs == 1..MaxConv

Kinds == {"switch", "back", "request", "swap"}

VARIABLES
    child,        \* the running Claude Code process, NULL between children
    nextConv,     \* next unused conversation id
    pending,      \* _pending_respawn
    mirror,       \* _current_session_name
    assigned,     \* _assigned_conv_id
    fromHook,     \* _active_conv_from_hook
    undo,         \* _last_transition, in memory and in state.json alike
    pendingFile,  \* handoffs/pending.json
    transcripts,  \* conversations whose transcript file exists
    newest,       \* the transcript written last (the mtime heuristic)
    registered,   \* sessions present in the store
    lineage,      \* claude_conversation_ids of each session
    archived,     \* sessions whose status is ARCHIVED
    precedents    \* rejected targets recorded in each (kept_in) session

childVars   == <<child, nextConv>>
wrapperVars == <<pending, mirror, assigned, fromHook, undo>>
diskVars    == <<pendingFile, transcripts, newest>>
storeVars   == <<registered, lineage, archived, precedents>>
respawnVars == <<childVars, wrapperVars, diskVars, storeVars>>

-----------------------------------------------------------------------------
(* Types *)

OrNull(S) == S \cup {NULL}

PendingRespawn == [target: Sessions, resume: OrNull(Convs),
                   from: OrNull(Sessions), kind: Kinds, terminated: BOOLEAN]

Handoff == [target: Sessions, kind: Kinds]

Transit == [from: Sessions, to: Sessions]

\* target and kind say what the child was spawned for; trig: its trigger
\* argument is not submitted yet; turn: what it is answering; got: the
\* hand-off its trigger turn was given; unflushed: the last turn's events
\* are not in the transcript yet.
Child == [conv: Convs, target: OrNull(Sessions), kind: Kinds \cup {"boot"},
          trig: BOOLEAN, turn: {"none", "trigger", "user"},
          got: OrNull(Handoff), unflushed: BOOLEAN]

\* NULL is a value of its own, apart from every value it stands in for.
ASSUME NullAssumption ==
    NULL \notin Sessions \cup Convs \cup PendingRespawn \cup Handoff
                \cup Transit \cup Child

RespawnTypeOK ==
    /\ child \in OrNull(Child)
    /\ nextConv \in 1..(MaxConv + 1)
    /\ pending \in OrNull(PendingRespawn)
    /\ mirror \in OrNull(Sessions)
    /\ assigned \in OrNull(Convs)
    /\ fromHook \in OrNull(Convs)
    /\ undo \in OrNull(Transit)
    /\ pendingFile \in OrNull(Handoff)
    /\ transcripts \in SUBSET Convs
    /\ newest \in OrNull(Convs)
    /\ registered \in SUBSET Sessions
    /\ lineage \in [Sessions -> Seq(Convs)]
    /\ archived \in SUBSET Sessions
    /\ precedents \in [Sessions -> SUBSET Sessions]

-----------------------------------------------------------------------------
(* What the wrapper reads *)

\* The id the wrapper positively knows: the hook's, else the assigned one.
KnownConv == IF fromHook # NULL THEN fromHook ELSE assigned

\* ... else the transcript written last.
CurrentConv == IF KnownConv # NULL THEN KnownConv ELSE newest

\* A session's latest conversation, if its transcript is still there.
ResumeConv(s) ==
    IF /\ s \in registered
       /\ lineage[s] # <<>>
       /\ Last(lineage[s]) \in transcripts
    THEN Last(lineage[s])
    ELSE NULL

\* link_conversation: idempotent append.
Link(ids, c) == IF c \in {ids[i] : i \in 1..Len(ids)} THEN ids ELSE Append(ids, c)

-----------------------------------------------------------------------------
(* Registering a transition and swapping the child *)

\* One transition at a time: while one is registered a second is dropped.
\* Otherwise an archived target is reactivated, the mirror moves to the
\* target and the hand-off takes the slot on disk.  (The departed summary
\* queued here is the business of the summary queue.)
Register(target, resume, from, kind) ==
    IF pending # NULL
    THEN UNCHANGED <<pending, mirror, pendingFile, archived>>
    ELSE /\ archived' = archived \ {target}
         /\ mirror' = target
         /\ pendingFile' = [target |-> target, kind |-> kind]
         /\ pending' = [target |-> target, resume |-> resume, from |-> from,
                        kind |-> kind, terminated |-> FALSE]

\* SIGTERM, once, when the screen does not look busy.
SendTerminate(busy) ==
    /\ child # NULL
    /\ pending # NULL
    /\ ~pending.terminated
    /\ ~busy
    /\ pending' = [pending EXCEPT !.terminated = TRUE]

\* Mutant: the switch is recorded without looking at the departing session.
UndoWithoutOrigin ==
    CASE pending.kind = "back" -> NULL
      [] pending.kind = "switch" ->
            [from |-> pending.from, to |-> pending.target]
      [] OTHER -> undo

\* The bookkeeping at the moment the swap succeeds.  A completed /back
\* consumes the undo record; a completed switch becomes the undo record if
\* the departing session is known; the two rollover legs leave it alone.
UndoAfterSpawn ==
    CASE pending.kind = "back" -> NULL
      [] pending.kind = "switch" /\ pending.from # NULL ->
            [from |-> pending.from, to |-> pending.target]
      [] OTHER -> undo

\* The next child of a registered transition: --resume=<conv>, or a fresh
\* id the wrapper names itself, and the trigger prompt as last argument.
SpawnNext ==
    /\ child = NULL
    /\ pending # NULL
    /\ pending.resume # NULL \/ nextConv \in Convs
    /\ LET conv == IF pending.resume # NULL THEN pending.resume ELSE nextConv
       IN /\ child' = [conv |-> conv, target |-> pending.target,
                       kind |-> pending.kind, trig |-> TRUE, turn |-> "none",
                       got |-> NULL, unflushed |-> FALSE]
          /\ assigned' = conv
    /\ nextConv' = IF pending.resume # NULL THEN nextConv ELSE nextConv + 1
    /\ fromHook' = NULL
    /\ undo' = UndoAfterSpawn
    /\ pending' = NULL

-----------------------------------------------------------------------------
(* The child: turns and hooks *)

\* A submitted prompt is written to the conversation's transcript at once;
\* what Claude answers follows later.
WritePrompt ==
    /\ transcripts' = transcripts \cup {child.conv}
    /\ newest' = child.conv

\* The trigger argument reaches UserPromptSubmit: the hook takes whatever
\* hand-off is in the slot (take_pending reads, then unlinks).
TakeHandoff ==
    /\ child # NULL
    /\ child.trig
    /\ child.turn = "none"
    /\ child' = [child EXCEPT !.trig = FALSE, !.turn = "trigger",
                              !.got = pendingFile]
    /\ pendingFile' = NULL
    /\ WritePrompt

\* A prompt the user typed starts a turn (and is never the trigger).
StartUserTurn ==
    /\ child # NULL
    /\ ~child.trig
    /\ child.turn = "none"
    /\ ~child.unflushed
    /\ child' = [child EXCEPT !.turn = "user"]
    /\ WritePrompt

\* The child runs out: after SIGTERM, by /exit, or by its own failure.
\* What it had written of an ended turn is on disk by then.
ExitChild ==
    /\ child # NULL
    /\ ~child.unflushed
    /\ child' = NULL

\* /resume typed past the router: another conversation in the same child.
\* The ids the wrapper held are forgotten; loading may touch the transcript.
MoveByResume(c) ==
    /\ child # NULL
    /\ child.turn = "none"
    /\ ~child.trig
    /\ ~child.unflushed
    /\ c \in transcripts
    /\ child' = [child EXCEPT !.conv = c]
    /\ assigned' = NULL
    /\ fromHook' = NULL
    /\ newest' \in {newest, c}

\* /clear: a new conversation whose id nobody was told.
MoveByClear ==
    /\ child # NULL
    /\ child.turn = "none"
    /\ ~child.trig
    /\ ~child.unflushed
    /\ nextConv \in Convs
    /\ child' = [child EXCEPT !.conv = nextConv]
    /\ nextConv' = nextConv + 1
    /\ assigned' = NULL
    /\ fromHook' = NULL

=============================================================================
