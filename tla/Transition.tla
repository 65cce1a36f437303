----------------------------- MODULE Transition -----------------------------
(***************************************************************************)
(* Moving between sessions: the session tools of the MCP server            *)
(* (server.py) running inside Claude's turns, their signals on the socket, *)
(* the wrapper's handlers (pty_wrapper.py), the respawn, the hook that     *)
(* delivers the hand-off, /back, the slash commands the user types past    *)
(* the router, and the wrapper's own crash and restart.                    *)
(*                                                                         *)
(* Signals from the MCP server to the wrapper wait in a FIFO, since the    *)
(* wrapper reads the socket on its own ticks and a child can die with      *)
(* signals still unread.  Signals from the wrapper to the MCP server are   *)
(* applied at once: what the server knows of the conversation is then      *)
(* always KnownConv, because every change of it is pushed.                 *)
(***************************************************************************)
EXTENDS Respawn

CONSTANTS
    MaxWire,    \* BOUND: signals waiting on the socket
    MaxMoves    \* BOUND: tool calls, slash commands, starts and failures

ASSUME TransitionAssumption ==
    MaxWire \in Nat /\ MaxMoves \in Nat

VARIABLES
    running,    \* the wrapper process is up
    initial,    \* _initial_session_name, of `ccode --resume`
    busy,       \* the screen shows a busy marker (_screen_busy)
    mcp,        \* the current child's MCP server is connected
    pointer,    \* its state.current_session
    wire,       \* signals sent to the wrapper and not handled yet
    moves       \* how much of MaxMoves is used

hostVars == <<running, initial, busy>>
vars == <<respawnVars, hostVars, mcp, pointer, wire, moves>>

Signals ==
    [action: {"switch", "new"}, target: Sessions, from: OrNull(Sessions)]
    \cup [action: {"current_session"}, name: OrNull(Sessions)]
    \cup [action: {"back"}]

TypeOK ==
    /\ RespawnTypeOK
    /\ running \in BOOLEAN
    /\ initial \in OrNull(Sessions)
    /\ busy \in BOOLEAN
    /\ mcp \in BOOLEAN
    /\ pointer \in OrNull(Sessions)
    /\ wire \in Seq(Signals)
    /\ moves \in 0..MaxMoves

-----------------------------------------------------------------------------
(* Starting and stopping the wrapper *)

BootChild(conv) ==
    [conv |-> conv, target |-> NULL, kind |-> "boot", trig |-> FALSE,
     turn |-> "none", got |-> NULL, unflushed |-> FALSE]

\* A store nobody used yet, or one in which every session already has a
\* conversation of its own.
EmptyStore ==
    /\ nextConv = 1
    /\ transcripts = {}
    /\ newest = NULL
    /\ registered = {}
    /\ lineage = [s \in Sessions |-> <<>>]

UsedStore ==
    \E n \in Convs : \E first \in [Sessions -> 1..n] :
        /\ \A c \in 1..n : \E s \in Sessions : first[s] = c
        /\ \A s, t \in Sessions : first[s] = first[t] => s = t
        /\ nextConv = n + 1
        /\ transcripts = 1..n
        /\ newest \in 1..n
        /\ registered = Sessions
        /\ lineage = [s \in Sessions |-> <<first[s]>>]

Init ==
    /\ EmptyStore \/ UsedStore
    /\ child = NULL
    /\ pending = NULL
    /\ mirror = NULL
    /\ assigned = NULL
    /\ fromHook = NULL
    /\ undo = NULL
    /\ pendingFile = NULL
    /\ archived = {}
    /\ precedents = [s \in Sessions |-> {}]
    /\ running = FALSE
    /\ initial = NULL
    /\ busy = FALSE
    /\ mcp = FALSE
    /\ pointer = NULL
    /\ wire = <<>>
    /\ moves = 0

\* One more of what the environment may do, within the bound.
Move == moves < MaxMoves /\ moves' = moves + 1

\* Mutant: the wrapper starts over what an earlier run left in the slot.
StartWrapperKeepingSlot ==
    /\ Move
    /\ ~running
    /\ running' = TRUE
    /\ initial' = NULL
    /\ mirror' = NULL
    /\ busy' = FALSE
    /\ fromHook' = NULL
    /\ nextConv \in Convs
    /\ child' = BootChild(nextConv)
    /\ assigned' = nextConv
    /\ nextConv' = nextConv + 1
    /\ UNCHANGED <<pending, undo, diskVars, storeVars, mcp, pointer, wire>>

\* The first child: a conversation the wrapper names; or one Claude Code
\* chooses, whose id it cannot know, with --continue the newest, with
\* --resume=<name> any, and then the name is taken for the session's.
BootNamed ==
    /\ nextConv \in Convs
    /\ child' = BootChild(nextConv)
    /\ assigned' = nextConv
    /\ nextConv' = nextConv + 1
    /\ initial' = NULL

BootResumed(conv, name) ==
    /\ child' = BootChild(conv)
    /\ assigned' = NULL
    /\ initial' = name
    /\ UNCHANGED nextConv

\* ccode starts: leftovers of a previous run are dropped, the undo record is
\* loaded back, the mirror is what --resume says.
StartWrapper ==
    /\ Move
    /\ ~running
    /\ running' = TRUE
    /\ pendingFile' = NULL
    /\ busy' = FALSE
    /\ fromHook' = NULL
    /\ \/ BootNamed
       \/ newest # NULL /\ BootResumed(newest, NULL)
       \/ \E c \in transcripts, s \in Sessions : BootResumed(c, s)
    /\ mirror' = initial'
    /\ UNCHANGED <<pending, undo, transcripts, newest, storeVars, mcp, pointer,
                   wire>>

\* The process disappears with its child: memory and socket are gone, the
\* files stay.
Halt ==
    /\ running' = FALSE
    /\ child' = NULL
    /\ pending' = NULL
    /\ mcp' = FALSE
    /\ pointer' = NULL
    /\ wire' = <<>>
    /\ mirror' = NULL
    /\ assigned' = NULL
    /\ fromHook' = NULL
    /\ initial' = NULL
    /\ busy' = FALSE
    /\ UNCHANGED <<nextConv, undo, diskVars, storeVars>>

CrashWrapper == running /\ Move /\ Halt

\* A child that exits with nothing registered ends the wrapper.
EndWrapper ==
    running /\ child = NULL /\ pending = NULL /\ Halt /\ UNCHANGED moves

-----------------------------------------------------------------------------
(* The respawn *)

\* The screen while a transition waits for it: the hint rotates and may be
\* missing in a turn, an answer's text may look like it, and a marker may
\* stay.  What the screen shows at other times holds nothing back.
ScreenChanges ==
    /\ running
    /\ child # NULL
    /\ pending # NULL
    /\ ~pending.terminated
    /\ busy' = ~busy
    /\ UNCHANGED <<respawnVars, running, initial, mcp, pointer, wire, moves>>

\* SIGTERM, once; Claude Code may take its time, or miss it.
Terminate ==
    /\ SendTerminate(busy)
    /\ UNCHANGED <<childVars, mirror, assigned, fromHook, undo, diskVars,
                   storeVars, hostVars, mcp, pointer, wire, moves>>

\* The MCP server dies with its Claude Code; its unread signals do not.
ChildExits ==
    /\ \/ pending # NULL /\ pending.terminated
       \/ child # NULL /\ child.turn = "none"       \* the user's /exit
    /\ ExitChild
    /\ mcp' = FALSE
    /\ pointer' = NULL
    /\ UNCHANGED <<nextConv, wrapperVars, diskVars, storeVars, hostVars, wire,
                   moves>>

\* Mutant: only a child the wrapper itself terminated is replaced.
RespawnTerminatedOnly ==
    /\ running
    /\ pending # NULL /\ pending.terminated
    /\ SpawnNext
    /\ UNCHANGED <<mirror, diskVars, storeVars, hostVars, mcp, pointer, wire,
                   moves>>

Respawn ==
    /\ running
    /\ SpawnNext
    /\ UNCHANGED <<mirror, diskVars, storeVars, hostVars, mcp, pointer, wire,
                   moves>>

-----------------------------------------------------------------------------
(* The MCP server boots: handshake, settling on a session, default session *)

Owners(c) == {s \in registered : c \in {lineage[s][i] : i \in 1..Len(lineage[s])}}

\* resolve_from_store: the ACTIVE owner of the conversation, else the
\* session accessed last (any of the living ones; of all if none lives).
ResolveFromStore(c) ==
    IF Owners(c) \ archived # {} THEN Owners(c) \ archived
    ELSE IF registered \ archived # {} THEN registered \ archived
    ELSE registered

\* What the wrapper answers to the handshake.
HandshakeName == IF mirror # NULL THEN mirror ELSE initial

\* Which session the booting server can settle on (NULL in an empty store).
Settle ==
    IF HandshakeName # NULL THEN {HandshakeName}
    ELSE IF registered = {} THEN {NULL}
    ELSE ResolveFromStore(IF Owners(KnownConv) # {} THEN KnownConv ELSE newest)

\* The settled session is linked with the reported conversation; an empty
\* store gets the default session, whose name may be any here; the wrapper is
\* told the outcome.
BootMcp ==
    /\ child # NULL
    /\ ~mcp
    /\ wire = <<>>
    /\ mcp' = TRUE
    /\ \E s \in Settle, default \in Sessions :
          LET settled == IF s = NULL THEN default ELSE s
          IN /\ pointer' = settled
             /\ registered' = IF s = NULL THEN {default} ELSE registered
             /\ lineage' = IF settled \in registered' /\ KnownConv # NULL
                           THEN [lineage EXCEPT ![settled] = Link(@, KnownConv)]
                           ELSE lineage
             /\ wire' = <<[action |-> "current_session", name |-> settled]>>
    /\ UNCHANGED <<childVars, wrapperVars, diskVars, archived, precedents,
                   hostVars, moves>>

\* The MCP server alone goes away (and Claude Code starts it again).
DropMcp ==
    /\ Move
    /\ mcp
    /\ mcp' = FALSE
    /\ pointer' = NULL
    /\ UNCHANGED <<respawnVars, hostVars, wire>>

-----------------------------------------------------------------------------
(* The session tools, called inside a turn *)

InTurn == mcp /\ child # NULL /\ child.turn # "none"

Push(signals) ==
    /\ Len(wire) + Len(signals) <= MaxWire
    /\ wire' = wire \o signals

CurrentSession(s) == [action |-> "current_session", name |-> s]

\* The departing conversation is linked to the session being left.
LinkOutgoing ==
    IF pointer \in registered /\ CurrentConv # NULL
    THEN [lineage EXCEPT ![pointer] = Link(@, CurrentConv)]
    ELSE lineage

SessionSwitch(target) ==
    /\ Move
    /\ InTurn
    /\ lineage' = LinkOutgoing
    /\ precedents' = IF pointer \in registered
                     THEN [precedents EXCEPT ![pointer] = @ \ {target}]
                     ELSE precedents
    /\ Push(<<[action |-> "switch", target |-> target, from |-> pointer],
              CurrentSession(target)>>)
    /\ pointer' = target
    /\ UNCHANGED <<childVars, wrapperVars, diskVars, registered, archived,
                   hostVars, mcp>>

SessionCreate(name) ==
    /\ Move
    /\ InTurn
    /\ lineage' = LinkOutgoing
    /\ Push(<<[action |-> "new", target |-> name, from |-> pointer],
              CurrentSession(name)>>)
    /\ pointer' = name
    /\ UNCHANGED <<childVars, wrapperVars, diskVars, registered, archived,
                   precedents, hostVars, mcp>>

\* A new session file.  Nothing looks whether the name is taken: with two
\* files of a name, their ids decide which of them it means from then on.
SaveNewSession(name) ==
    /\ registered' = registered \cup {name}
    /\ \/ /\ lineage' = [lineage EXCEPT ![name] = IF CurrentConv = NULL THEN <<>>
                                                  ELSE <<CurrentConv>>]
          /\ archived' = archived \ {name}
          /\ precedents' = [precedents EXCEPT ![name] = {}]
       \/ /\ name \in registered
          /\ UNCHANGED <<lineage, archived, precedents>>

\* Mutant: session_register does not tell the wrapper.
SessionRegisterUntold(name) ==
    /\ Move
    /\ InTurn
    /\ SaveNewSession(name)
    /\ pointer' = name
    /\ UNCHANGED <<childVars, wrapperVars, diskVars, hostVars, mcp, wire>>

SessionRegister(name) ==
    /\ Move
    /\ InTurn
    /\ SaveNewSession(name)
    /\ Push(<<CurrentSession(name)>>)
    /\ pointer' = name
    /\ UNCHANGED <<childVars, wrapperVars, diskVars, hostVars, mcp>>

SessionEnd ==
    /\ Move
    /\ InTurn
    /\ archived' = IF pointer \in registered THEN archived \cup {pointer}
                   ELSE archived
    /\ lineage' = LinkOutgoing
    /\ Push(<<CurrentSession(NULL)>>)
    /\ pointer' = NULL
    /\ UNCHANGED <<childVars, wrapperVars, diskVars, registered, precedents,
                   hostVars, mcp>>

\* Recorded under the server's session, if it has one that is in the store.
RejectSwitch(rejected) ==
    /\ Move
    /\ InTurn
    /\ precedents' = IF pointer \in registered
                     THEN [precedents EXCEPT ![pointer] = @ \cup {rejected}]
                     ELSE precedents
    /\ UNCHANGED <<childVars, wrapperVars, diskVars, registered, lineage,
                   archived, hostVars, mcp, pointer, wire>>

SessionBack ==
    /\ Move
    /\ InTurn
    /\ Push(<<[action |-> "back"]>>)
    /\ UNCHANGED <<respawnVars, hostVars, mcp, pointer>>

-----------------------------------------------------------------------------
(* The wrapper handles the signal at the head of the socket *)

Receive(action) ==
    /\ running
    /\ child # NULL
    /\ wire # <<>>
    /\ Head(wire).action = action
    /\ wire' = Tail(wire)

HandleSwitch ==
    /\ Receive("switch")
    /\ LET m == Head(wire)
       IN Register(m.target, ResumeConv(m.target), m.from, "switch")
    /\ UNCHANGED <<childVars, assigned, fromHook, undo, transcripts, newest,
                   registered, lineage, precedents, hostVars, mcp, pointer,
                   moves>>

HandleNew ==
    /\ Receive("new")
    /\ Register(Head(wire).target, NULL, Head(wire).from, "switch")
    /\ UNCHANGED <<childVars, assigned, fromHook, undo, transcripts, newest,
                   registered, lineage, precedents, hostVars, mcp, pointer,
                   moves>>

\* /back: ignored while a transition is registered, without a record, or
\* when the origin's conversation cannot be resumed.
BackIsPossible == pending = NULL /\ undo # NULL /\ ResumeConv(undo.from) # NULL

\* Mutant: the undo record is consumed when /back is asked for.
HandleBackConsuming ==
    /\ Receive("back")
    /\ IF BackIsPossible
       THEN /\ Register(undo.from, ResumeConv(undo.from), undo.to, "back")
            /\ precedents' = [precedents EXCEPT ![undo.from] = @ \cup {undo.to}]
            /\ pointer' = NULL
            /\ undo' = NULL
       ELSE UNCHANGED <<pending, mirror, pendingFile, archived, precedents,
                        pointer, undo>>
    /\ UNCHANGED <<childVars, assigned, fromHook, transcripts, newest,
                   registered, lineage, hostVars, mcp, moves>>

\* The rejection is recorded on the origin, the reverse transition is
\* registered, and the MCP server is told its pointer is stale.
HandleBack ==
    /\ Receive("back")
    /\ IF BackIsPossible
       THEN /\ Register(undo.from, ResumeConv(undo.from), undo.to, "back")
            /\ precedents' = [precedents EXCEPT ![undo.from] = @ \cup {undo.to}]
            /\ pointer' = NULL
       ELSE UNCHANGED <<pending, mirror, pendingFile, archived, precedents,
                        pointer>>
    /\ UNCHANGED <<childVars, assigned, fromHook, undo, transcripts, newest,
                   registered, lineage, hostVars, mcp, moves>>

\* Mutant: whatever the MCP server reports goes into the mirror.
HandleCurrentSessionUnguarded ==
    /\ Receive("current_session")
    /\ mirror' = Head(wire).name
    /\ UNCHANGED <<childVars, pending, assigned, fromHook, undo, diskVars,
                   storeVars, hostVars, mcp, pointer, moves>>

\* The mirror follows the MCP server, except that while a transition is
\* registered only its own target is accepted.
HandleCurrentSession ==
    /\ Receive("current_session")
    /\ mirror' = IF pending # NULL /\ Head(wire).name # pending.target
                 THEN mirror
                 ELSE Head(wire).name
    /\ UNCHANGED <<childVars, pending, assigned, fromHook, undo, diskVars,
                   storeVars, hostVars, mcp, pointer, moves>>

-----------------------------------------------------------------------------
(* The child and the user *)

DeliverHandoff ==
    /\ TakeHandoff
    /\ UNCHANGED <<nextConv, wrapperVars, storeVars, hostVars, mcp, pointer,
                   wire, moves>>

UserPrompt ==
    /\ StartUserTurn
    /\ UNCHANGED <<nextConv, wrapperVars, pendingFile, storeVars, hostVars, mcp,
                   pointer, wire, moves>>

\* A turn ends, and the Stop hook names the conversation to the wrapper (or
\* is missing: declined, or timed out).
EndTurn ==
    /\ child # NULL
    /\ child.turn # "none"
    /\ child' = [child EXCEPT !.turn = "none"]
    /\ fromHook' \in {fromHook, child.conv}
    /\ UNCHANGED <<nextConv, pending, mirror, assigned, undo, diskVars,
                   storeVars, hostVars, mcp, pointer, wire, moves>>

\* /resume by hand: the server's pointer is dropped as well.  With an
\* argument that names a session's conversation, the current session's
\* precedents against that session go.
ManualResume(c) ==
    /\ Move
    /\ MoveByResume(c)
    /\ pointer' = NULL
    /\ \/ UNCHANGED precedents                      \* picked from the menu
       \/ /\ mirror \in registered
          /\ \E s \in Owners(c) \ {mirror} :
                precedents' = [precedents EXCEPT ![mirror] = @ \ {s}]
    /\ UNCHANGED <<nextConv, pending, mirror, undo, pendingFile, transcripts,
                   registered, lineage, archived, hostVars, mcp, wire>>

ManualClear ==
    /\ Move
    /\ MoveByClear
    /\ UNCHANGED <<pending, mirror, undo, diskVars, storeVars, hostVars, mcp,
                   pointer, wire>>

\* /resume or /clear that the wrapper does not see typed (its screen not yet
\* updated, say): it goes on believing in the conversation left.
ManualMoveUnseen ==
    /\ Move
    /\ child # NULL
    /\ child.turn = "none"
    /\ ~child.trig
    /\ \/ \E c \in transcripts : /\ child' = [child EXCEPT !.conv = c]
                                 /\ newest' \in {newest, c}
                                 /\ UNCHANGED nextConv
       \/ /\ nextConv \in Convs
          /\ child' = [child EXCEPT !.conv = nextConv]
          /\ nextConv' = nextConv + 1
          /\ UNCHANGED newest
    /\ UNCHANGED <<wrapperVars, pendingFile, transcripts, storeVars, hostVars,
                   mcp, pointer, wire>>

\* /rename stays in the conversation, yet the pointer is dropped as well.
ManualRename ==
    /\ Move
    /\ child # NULL
    /\ child.turn = "none"
    /\ ~child.trig
    /\ mcp
    /\ pointer' = NULL
    /\ UNCHANGED <<respawnVars, hostVars, mcp, wire>>

-----------------------------------------------------------------------------
(* The specification *)

Tools ==
    \/ \E s \in Sessions : \/ SessionSwitch(s)
                           \/ SessionCreate(s)
                           \/ SessionRegister(s)
                           \/ RejectSwitch(s)
    \/ SessionEnd
    \/ SessionBack

User ==
    \/ UserPrompt
    \/ \E c \in Convs : ManualResume(c)
    \/ ManualClear
    \/ ManualMoveUnseen
    \/ ManualRename
    \/ StartWrapper

Failures == CrashWrapper \/ DropMcp

Handlers == HandleSwitch \/ HandleNew \/ HandleBack \/ HandleCurrentSession

Progress ==
    \/ Handlers \/ ScreenChanges \/ Terminate \/ ChildExits \/ Respawn \/ EndWrapper
    \/ BootMcp \/ DeliverHandoff \/ EndTurn

Next == Progress \/ Tools \/ User \/ Failures

\* Only the wrapper's own part.  Its loop looks at the screen in every
\* iteration, after at most one chunk of output: an idle screen that keeps
\* coming back is seen.  A child that is gone is replaced.  Nothing obliges
\* the screen to become idle, Claude Code to die of SIGTERM or to end a turn,
\* the model to call a tool, or the user to do anything.
Fairness ==
    /\ SF_vars(Terminate)
    /\ WF_vars(Respawn)

Spec == Init /\ [][Next]_vars

FairSpec == Spec /\ Fairness

-----------------------------------------------------------------------------
(* Properties *)

\* While a transition is registered the mirror stays on its target, whatever
\* the MCP server, whose pointer may lag, keeps reporting (the guard of the
\* current_session branch; the statusline and every session-scoped trigger
\* read the mirror).
MirrorIsPendingTarget == pending # NULL => mirror = pending.target

\* A child the wrapper boots on its own start never finds a hand-off left by
\* an earlier run: until a transition is registered the slot is empty
\* (clear_stale_pending at start).
BootFindsNoHandoff ==
    child # NULL /\ child.kind = "boot" /\ pending = NULL => pendingFile = NULL

\* With the server connected, its signals read and no transition registered,
\* a server that has a session and the wrapper's mirror agree on it (every
\* pointer change is pushed; _set_current_session in both processes).
PointerAgreement ==
    mcp /\ wire = <<>> /\ pending = NULL /\ pointer # NULL => mirror = pointer

\* The undo record disappears only when the child of a /back transition has
\* actually been spawned: not when /back is asked for, not when a crash or a
\* child's own exit comes in between (R3-FIX1, retry after a failed undo).
UndoConsumedByBackOnly ==
    [][undo # NULL /\ undo' = NULL =>
          /\ pending # NULL /\ pending.kind = "back"
          /\ child = NULL /\ child' # NULL]_vars

\* A transition the wrapper has registered is carried out, or dies with the
\* wrapper, unless for ever after the old child is there and either its screen
\* is never seen idle again or it has outlived the one SIGTERM it is sent:
\* the wrapper itself never loses a transition (_maybe_terminate_for_respawn,
\* _should_respawn, _spawn_child).
HeldBack ==
    /\ pending # NULL
    /\ child # NULL
    /\ busy \/ pending.terminated

RegisteredIsSwapped ==
    (pending # NULL) ~> (pending = NULL \/ []HeldBack)

=============================================================================
