# A TLA+ model of mcp-session-router

`mcp-session-router` runs Claude Code inside a wrapper (`ccode`) that keeps
several named *sessions* for one project. An MCP server inside Claude Code
offers the session tools, hooks report what Claude Code does, and the wrapper
swaps the running Claude Code process when the user moves from one session to
another, or when a conversation has grown too full. All paths below are under
`src/src/session_manager/`.

## 1. Inventory

| Component | State it keeps | Operations | Shared with |
|---|---|---|---|
| PTY wrapper (`wrapper/pty_wrapper.py`) | the child process, `_pending_respawn`, `_current_session_name` (the mirror), `_assigned_conv_id` and `_active_conv_from_hook`, `_last_transition`, the rollover fields, the deferral | one `select` loop: socket signals, PTY, stdin, ticks | the socket, `handoffs/`, `state.json`, the session store |
| MCP server (`server.py`, `state.py`) | `current_session`, `active_conversation_id` | boot and settling, session tools, static-knowledge tools | the store, the socket |
| Hooks (`hooks/*.py`) | none | UserPromptSubmit takes notice and hand-off, Stop and PreCompact signal the wrapper | `handoffs/`, the socket |
| Hand-off slots (`handoff_store.py`) | `pending.json`, `notice-pending.json` | write, take, clear at start | wrapper writes, hook takes |
| Rollover (`rollover.py`, the wrapper's machine) | mark, request, ready hand-off, swap in flight | mark, ask, validate, swap, finalize | the transcript, the store |
| Session store (`storage/file_store.py`, `models/`) | one JSON per session: lineage, precedents, status | load, mutate under a lock file, delete | server, wrapper, summarizer, cleanup |
| Summary queue (`summarizer.py`) | one file per task | enqueue, claim, process, sweep | wrappers and servers write, one worker thread per wrapper takes |
| Judge host (`wrapper/judge_host.py`) | one warm process, a one-slot queue, the ready flag | start, accept, serve, retire, stop; a worker thread of its own | the I/O thread hands it a hook's connection |
| Prompt hook and decision log (`hooks/user_prompt_submit.py`, `routing/`) | an append-only log, the precedents in the session files | expire, ask, propose, label, replay | hook, server, wrapper, judge |
| Wrapper socket (`wrapper/socket_server.py`, `socket_client.py`) | one resident connection, pending ones | accept, promote, reject, drain, send, stop | server and hooks |
| Cleanup (`lifecycle/cleanup.py`) | none | delete expired sessions | the store |

What is hard here: four processes (wrapper, Claude Code, MCP server, hooks) act
on the same few files and on each other's cached beliefs; a child can die with
signals still unread; the wrapper learns *which conversation runs* from three
sources of different age; a rollover takes two respawns and several turns, and
every one of its steps can meet a switch, a hand-made `/resume`, an interrupt,
an unflushed transcript or a missing hook. `PROJECT.json` lists each such hazard
at its line.

What makes each part correct:

* a transition, once registered, owns the mirror and is carried out once;
* the server's pointer and the wrapper's mirror agree when the socket is quiet;
* the hand-off reaches the child it was written for, and no later one;
* `/back` undoes the last switch, and only a completed undo uses the record up;
* a rollover is in one stage at a time, ends, asks only a conversation worth
  asking, respects the user's pending answer, and takes for its successor only
  the conversation it spawned;
* the MCP server that follows a dead one gets the socket, and every hook is
  released;
* a hook's connection is owned by one thread at a time, and a judge process
  judges once;
* a saved change of a session that is not deleted stays in its file;
* the user's answer is paired with the proposal it answers, and a proposal that
  was ignored with nothing decided later in its conversation;
* a summary task is worked on by one worker, is picked up while a wrapper is up,
  and a rooting check is neither lost by a failed refresh nor counted twice.

## 2. Modules

```
Respawn ──┬── Transition ── MCTransition
          ├── Rollover ──┬─ MCRollover
          │              └─(refines)─ RolloverStages
          └── RespawnLemmas ──┬── TransitionProofs (with Transition)
                              └── RolloverProofs   (with Rollover)

SummaryQueue ──┬── MCSummaryQueue
               └── SummaryQueueProofs

WrapperSocket ──┬── MCWrapperSocket
                ├── WrapperSocketProofs
                └── JudgeHost ──┬── MCJudgeHost
      JudgeService ─(refined)───┴── JudgeHostProofs

SessionStore ──┬── MCSessionStore          Routing ──┬── MCRouting
               └── SessionStoreProofs                └── RoutingProofs
```

**Respawn** holds what both compositions share: the variables, their types, and
operators for the code every transition passes through. `Register` is
`_execute_transition`, `SendTerminate` the SIGTERM tick, `SpawnNext` and
`UndoAfterSpawn` are `_spawn_child` with its bookkeeping, `TakeHandoff` the
hook, `KnownConv`, `CurrentConv` and `ResumeConv` the three ways to name a
conversation. Conversations are numbers in the order their ids are drawn;
prompts, summaries and texts are left out; a hand-off is its target and its
kind.

**Transition** composes the MCP server's tools, the socket, the wrapper's
handlers, the respawn, `/back`, the slash commands typed past the router, and
crash and restart of wrapper and server. Signals to the wrapper wait in a FIFO
(`wire`), since it reads the socket in its own loop and a child may die with
signals unread: the handlers need a child, so what a dead child's server sent
is handled after the next spawn. Signals to the server are applied at once,
because the server keeps nothing it could apply them late to, and the
conversation it is told is always `KnownConv`: every change of it is pushed. A
start names the conversation itself, continues the newest, or resumes any under a
name, which the wrapper then answers to the handshake (`BootNamed`,
`BootResumed`, `HandshakeName`). The names the tools take are not restricted:
a switch may go where the server already is, and a name that is taken may be
registered again (`SaveNewSession`); the default session of an empty store has
any name. A `/resume` or `/clear` may also pass the
wrapper unseen (`ManualMoveUnseen`). `busy` is what the screen looks like while a
registered transition waits for it; it changes at any time (`ScreenChanges`), and
SIGTERM is sent once, on an idle screen, and may be missed.

**Rollover** composes the wrapper's turn-end battery (stale-entry check, context
check, machine; `pc` says where it stands, so that Claude Code, the hooks and
the user act in between), the ticks, the signals of Stop and PreCompact, the
transcript as the wrapper reads it, and the user. Here a switch is one step
(Transition has its parts), and `/back`, `session_create`, `session_register`,
`session_end` and the wrapper's crash are left to Transition.

**RolloverStages** is what a rollover promises, whatever happens around it: the
hand-off is asked for at most twice, then swapped in, at once or after a wait,
and until the swap is complete the rollover stays with the session and the
conversation it began with; it may be held up, but it is not dropped half way.
Rollover implements it under the mapping *asking = a request on the books, ready
= a finished hand-off, swapping = a swap in flight*, in the order in which
`_advance_rollover` reads the three fields.

Correspondence of state: `pending` is `_pending_respawn`, `mirror`
`_current_session_name`, `assigned` and `fromHook` `_assigned_conv_id` and
`_active_conv_from_hook`, `undo` the record in memory and in `state.json`,
`pendingFile` and `noticeFile` the two slots, `pointer` the server's
`current_session`, `mark`, `req`, `ready`, `swap`, `deferred`, `warned` the
wrapper's rollover fields, `transcripts` and `newest` what
`claude_conversation.py` finds on disk. `PROJECT.json` maps every definition to
its lines.

Abstractions a reader should know:

* A turn's prompt is in the transcript when the prompt is submitted; what
  Claude answers follows at any time, up to after the turn's end.
* A signal on the socket is read before the next child has booted far enough
  to submit anything (`stop = NULL` guards the submissions in Rollover): the
  loop ticks many times a second and Claude Code takes seconds.
* In Transition a turn's Stop signal arrives with the turn's end or not at all;
  Rollover has it wait on the socket.
* A screen shows a turn as busy, or not: the hint rotates (`ScreenIdle` may
  fall in mid-turn, and boot frames may look busy).
* The usage percentage, the suppression memo, the entry check's retry and a
  hand-off's number only decide wording, logging or repetition of the same
  check and are left out.
* The summaries queued at a departure are the summary queue's business.

**SummaryQueue** is the directory of task files: wrappers and their MCP servers
write it, one worker thread per wrapper drains it. `task` and `status` are the
files (`"claimed"` is the `.processing` name, `"failed"` the mark left in it),
numbered by `requested_at`. `call` is what a handler still has to enqueue:
`FindNoDuplicate` reads the directory, `WriteFile` writes, and other processes
act in between. `worker` holds the thread's locals, and its `pc` the place in
`process_queue`: the snapshot (`Scan`), the claim (`TakeTask`, one rename), the
rooting check taken along (`ListChecks`, `ClaimCheck`), the excerpt, the
headless call, the locked `Save`, and `Finish`, which unlinks, marks the failure
or puts the check back. `PassRaises` is an exception that ends the pass with its
claims in place. `Exit` is a wrapper that quits or is killed: the thread is a
daemon and `stop()` waits five seconds for calls that may take longer. Left out
or coarsened:

* A transcript is a length, and of a summary only the baseline saved with it is
  kept. `EXCERPT_MAX_CHARS` is `Threshold`.
* A failed, timed-out or unparseable call and a missing session are one outcome
  (`AskFails`); an empty transcript is a guard. `rooted` is TRUE or anything else.
* A check without a topic is not generated: it waits for the sweep.
* The sweep removes a prefix of the files in the order of their requests,
  standing for age.
* The two unlinks of a success are one step; they differ only in what a death
  between them leaves behind, and the check's claim left behind is also what a
  death just before leaves.
* Lineages are fixed: the conversations of a session are numbered in the order
  of their linking, and `StaleConvs` takes the last of each stale session.

**WrapperSocket** is the Unix socket and the part of `_io_loop` that serves it.
`Tick` is one pass of the loop up to the pending connections: `accept`, then one
read of the resident (a chunk, or its end of file), then the list of pending
connections that were readable; `SettleEof`, `SettleNotice`, `SettlePromote` and
`SettleReject` are the outcomes of `handle_pending_readable` for each of them.
`Connect`, `Write`, `Say` and `Leave` are the processes at the other end, which
may die at any time. `lonely` and `turned` are the two variables the code does
not have: servers that no other server of the wrapper has met alive, and servers
that were turned away. A line is one message; a partial one only delays it.

**JudgeHost** extends it with the judge: the I/O thread's hand-over in two steps
(`PutRequest` puts the request into the queue, `Claim` clears the ready flag and
lets the connection go, as `handle_request` and `_settle_hook` do), the worker
thread from `LoopHead` (the stop flag) and `LookAtProcess` (`_proc`) over sweep,
spawn, warm-up, `SetReady`, `GetRequest`, `AskProcess`, `ReplyAndClose` to
`RetireServed`, `stop()`, and the end of the wrapper at any time.
`_retire_process` is not atomic, and two threads run it: taking `_proc` away and
ending what it held are steps of their own, for the worker (`TakeProcess` into
`dying`, then `EndUnwarmed` or `EndServed`) and for `stop()` (`StopReads` into
`leaving`, `StopClears`, `StopEnds`). `owner` and `asked` follow each process
over its life. A verdict is any answer; its parsing is left out.

**JudgeService** is what the callers are promised: a request is turned away or
accepted; accepting takes a judge warmed since the last request it accepted, one
at a time; what is over stays over. JudgeHost implements it under the mapping
*warm = the ready flag outside the hand-over, accepted = in the queue or in the
worker's hands, over = closed*.

**SessionStore** is the files of `.session-manager` under their lock files. A
call is a process in one operation of the store (`mutate_session`,
`mutate_session_by_name`, `mutate_static`, `save_session` of a new one, the
server's boot with its clean-up) and its `pc` the place: the directory is
listed, then read; the lock file is opened, then locked; the text is loaded,
written to the temporary name, moved. `UnlinkLock` removes the lock file from
under whoever holds or awaits it: a lock file is named after the call that made
it, so the two locks that exist then are different ones. A call is killed
between any two steps, and the kernel releases its lock. A file is the set of
calls whose change it contains, its name and whether it was used lately. A boot
lists the sessions twice, before its clean-up and, when nothing was found, before
it registers the default; a session that goes between a listing and the read, or
between `exists()` and the read of the locked load, raises.

**Routing** is a prompt's way through the hook and the turn, and the log it
leaves: open proposals of the conversation are looked for (`Prompt`) and expired
(`Expire`), the judge is asked, a verdict to switch is put to the model and then
recorded (`Record`), and in the turn the model calls any tools or none. Which
rule lets a prompt pass, what the judge says (its precedent gate included) and
what the tools are called with are open choices. A decision labels nothing
(`session_create`, `reject_switch` without a current session), or the target it
names, or, for `/back`, where the last transition led. A transition is registered
or dropped (`Departs`) and carried out in the middle of anything (`Respawn`);
`placed` says only whether the server has a current session, which a new child, a
`/resume` seen by the wrapper and the tools change. `re` in a label is the
proposal the user answers, which the file does not contain; `Replay` pairs labels
with proposals the way `decision_log._replay` does, from the log alone.

## 3. Runs

Every cfg names its bounds: `Sessions`, `MaxConv` (conversation ids ever drawn),
`MaxWire` (signals waiting), `MaxMoves` (tool calls, slash commands, starts and
failures), `OldConvs` (conversations at the start), and for the queue
`MaxFiles`, `MaxTalk` and `MaxExits`. Deadlock is not checked:
the wrapper may stop for good, and a bound may be used up.

| Run | Bounds | Checks |
|---|---|---|
| `transition_safety` | 2 sessions, 3 conversations, 3 signals, 4 moves, the sessions interchangeable; 4.1 M states | types; the mirror is the registered target's; a booted child finds no old hand-off; pointer and mirror agree when the wire is empty; only a completed `/back` uses the undo record up |
| `transition_liveness` | 2 sessions, 5 conversations, 3 signals, 3 moves; 585 k states | a registered transition is carried out or dies with the wrapper, unless the old child stays behind a busy screen or outlives its SIGTERM |
| `rollover_interference` | 2 sessions, 3 conversations, 1 move, Stop present or missing at each turn; 2.4 M states | types; one stage; a dedicated turn has its request; the deferral outlives the notice; no rollover loop; RolloverStages is implemented |
| `rollover_quiet` | 2 sessions, 4 conversations, no moves; 279 k states | deferral holds; finalize takes the running swap child's conversation; it becomes the lineage's last |
| `rollover_live` | 2 sessions, 2 conversations, automatic compaction; 40 k states | a rollover that has begun ends |
| `summary_queue` | 2 wrappers (one with a server), 1 session, 2 files, 1 exit; 678 k states | types; no file held by two workers; the mixing score is backed by checks that left; a check leaves only answered or swept; the queue is drained |
| `wrapper_socket` | 1 wrapper, 2 servers, 1 hook, 1 unread chunk; 22 k states | types; only a rival is turned away; a lone server is answered |
| `judge_host` | 1 wrapper, 2 hooks, 2 processes; 159 k states | types; one owner per connection; ready means idle; one judgment per process; the sweep meets no process of the wrapper's but the one `stop()` is ending; JudgeService is implemented; every hook is released |
| `session_store` | 4 calls, 1 session, 1 name, the static file; 1.5 M states | types; saved changes survive; nothing raises before a deletion; locks are in use; each save adds one change |
| `routing` | 1 wrapper, 2 sessions, 2 conversations, 4 events in the log; 1.1 M states | types; one open proposal a conversation; answers are paired; an ignored proposal stays ignored |
| `rollover_retry`, `rollover_atomic` | small | one statement of a comment each, which the code does not keep (section 5) |

The bounds are enough because the hazards are short: two sessions and three
conversations give a switch, its undo and a conversation of nobody's (a third
session adds no new relation between mirror, pointer, target and record, and the
proofs cover any number); a rollover uses two conversation ids and one
more shows it twice; one move placed anywhere in a rollover is every single
interference, and the pairwise ones are what Transition's four moves explore.
Two files suffice for the queue: a task and the check riding on it, or two tasks
(a rejection made while a refresh is pending writes its check alone); with one
session the filter by session in `ListChecks` is not put to the test.
In the socket a dead server, its successor and one more kind of connection are
all the loop tells apart, and one unread chunk is what puts the end of file one
pass later than the accept. Two hooks let one be served while the other is
handed over, two processes let one be retired while the next is warmed. Four
calls give a deletion, a call that waits on the deleted lock, one that makes a
new one and one that brings the file back; one session is where they can meet,
and the proofs cover any number. Four events are a proposal, its expiry, another
proposal and a label, or two proposals and their labels; two conversations are
one and the other, and the proofs cover a log of any length.
Each property has a mutant of the code in `PROJECT.json` that TLC rejects under
the same cfg, so each is reachable at these bounds.

**Fairness.** In Transition only the wrapper's own: a child that is gone is
replaced (weak), and SIGTERM is sent if the screen is idle again and again
(strong). `_io_loop` calls `_maybe_terminate_for_respawn` in every iteration,
after at most one chunk of PTY output, so an idle screen that keeps coming back is
looked at while it is idle. Nothing obliges the screen to become idle, the child
to die of its one SIGTERM, a turn to end, or the user or Claude to do anything:
`RegisteredIsSwapped` is that the transition is carried out or dropped with the
wrapper, *or* that the child stays for ever with one of those two reasons
(`HeldBack`). In Rollover the battery may intervene between any two ticks, but every iteration of
`_io_loop` reads the socket and runs every tick, so those are strongly fair;
Claude Code draws its idle screen after a turn and dies of SIGTERM even under a
user who keeps typing; that a dedicated turn's prompt and reply reach the
transcript in the end is assumed too (`WriteReply`, `SubmitTrigger`).
`RolloverEnds` assumes nobody moves, switches or
interrupts: an interrupted dedicated turn waits for the user, whom nothing
obliges. In SummaryQueue a handler that has begun to enqueue goes on and a
started thread runs (the headless call has a timeout, the wait a poll interval);
nobody is obliged to start a wrapper or to talk. In WrapperSocket and JudgeHost
the loop and the worker run (`select` and the queue's `get` have timeouts, the
round trips and the warm-up have deadlines), and a process that has connected
says its first line; in JudgeHost a hook leaves in the end, for its own timeout.
Nothing makes a process connect or die, or a wrapper stop. SessionStore and
Routing have safety properties only.

## 4. Proofs

`tlapm` checks, for any sizes of the constants and any bounds unless said
otherwise, from the named assumptions on the constants only (`ConvAssumption`,
`TransitionAssumption`, `RolloverAssumption`, `QueueAssumption`,
`SocketAssumption`, `JudgeAssumption`, `StoreAssumption`, `RoutingAssumption`,
and that `NULL` differs from the values it stands for):

* `TransitionProofs`: `TypeCorrect`, `MirrorFollowsTransition`, `BootSlotEmpty`,
  `PointersAgree`, `UndoConsumedOnlyByBack`.
* `RolloverProofs`: `TypeCorrect`, `StagesAreExclusive`, `UnreadNoticeHolds`,
  `RequestsAreKept`, `RolloversEnd` (the last without automatic compaction,
  which steps around the usage checks, see section 5), and `Refinement`: Rollover
  implements RolloverStages. With no moves (`MaxMoves = 0`: nobody switches, moves
  by hand or interrupts), `SuccessorFinalizes`, `SuccessorComesLast`,
  `RequestsArrive`, and, without automatic compaction, `DeferralIsKept`.
* `SummaryQueueProofs`: `TypeCorrect`, `OneHolder`, `ScoreBacked`,
  `NoCheckIsLost`.
* `WrapperSocketProofs`: `TypeCorrect`, `OnlyRivals` (the latter assuming
  `MaxUnread <= 1`: with two chunks it is false, see section 5).
* `JudgeHostProofs`: `TypeCorrect`, `OneOwner`, `ReadyIsIdle`,
  `JudgmentsAreClean`, `SweepIsSafe`, and `Refinement`: JudgeHost implements
  JudgeService.
* `SessionStoreProofs`: `TypeCorrect`, `SavedUpdatesSurvive`,
  `LocksAreNotLeaked`, `NothingRaisesBeforeDeletion`, `SavesAreSerial`.
* `RoutingProofs`: `TypeCorrect`, and, assuming one wrapper,
  `ProposalsDoNotPileUp`, `AnswersFindTheirProposal` and `IgnoredIsNotConsumed`.

`PointerAgreement` speaks of an empty wire only and is not inductive. The
strengthening `WireReportsPointer` says that the *last* report on the wire is the
server's pointer, or that none is there and the mirror is on it already; with
`Alive` (a server needs a child, a registered transition needs the wrapper) it
survives every push, every read, and the respawn, which happens only when the
server is gone. The mirror and the boot slot ride on the same invariant.
`UndoConsumedOnlyByBack` splits on the only step that writes the record.

`RequestsAreKept` needs that an attempt is concluded only in its validation
phase: then no respawn for it is registered any more, so nothing is separated
from its request. `RolloversEnd` strengthens to `SmallBirths`: what is marked or
asked has been *answered* while small, and an answered conversation's birth can
no longer change; the context check's refusal to decide before the first answer
is what makes this inductive.

The other theorems about a quiet rollover rest on `Calm`. Three notions of "the
current conversation" are about: the child's, that of a signal still unread, and
the wrapper's belief (`KnownConv`, then the newest transcript). `Calm` says what
they have to do with each other at each of four stages. Between rollovers and
while asking (`Idle`, `Asking`) they are one, and it is in the mirror's lineage;
a request that was not spawned yet has its respawn registered. Before the swap's
spawn (`Leaving`) they are the predecessor. After it (`Arriving`) the child is the
successor, under the last id drawn; a signal of the predecessor may still come,
but not once the successor has written anything, which is what `SuccessorObserved`
waits for when the hook has told it nothing; and the successor is linked last or
not at all, whether its server boots before or after. `CalmNext` lists the eight
kinds of step that matter and there is a lemma for each. Only two of them
finalize (`FinalizeStep`), and both start from `Arriving`. `DeferralIsKept` adds
`Deferring`: what is marked has been looked at by the check that asks the
question (`StaleHere` is false there), since that check comes first in the
battery, so a conversation is never first marked and then deferred; and what is
marked or asked is not deferred. `MaxMoves = 0` is not there for convenience: with
one move, `rollover_retry` is a counterexample to `RequestsArrive`, and TLC finds
one to `FinalizedBySuccessor` (section 5, "A `/resume` into a swap").

The refinement needs only the types and that the stages are exclusive: the
machine's own step, a signal, a poll and the finalization are one stage's step
each or none, and every other step leaves the three fields' session, conversation
and attempt alone.

`ScoreIsBacked` is not inductive: the worker that carries a check may count it
and the failed refresh may put it back. `ScoreIsSpent` counts only the checks
that are out of the queue *for good* (`Spent`: claimed or gone, and carried by
no worker that has not saved); a save that counts moves the one check its worker
carries into that set, and `OneWorkerPerFile` says that no other worker still
carries it. `FilesAgree` (a file is written once, under a number of its own) and
`ClaimsAgree` (what a worker holds is claimed or swept, while it works and no
longer) carry the rest; `NoCheckIsLost` is read off the same invariant, since
only `Finish` lets go of a file.

`OnlyRivals` needs the order of one pass. `LonelyAgree`: a server is lonely
because every other one has left. `SlotIsFreed`: in the pass that accepts it the
last chunk of the one before is read, so its end of file is read in the next,
which is the first that can look at the newcomer.

In JudgeHost, `ThreadsAgree` relates the worker's place to queue, current request
and process, `ProcsAgree` the processes to their owner and to how often they were
asked (a running process is what `_proc`, the worker's `dying` or `stop()`'s
`leaving` names, except that what a worker spawns after `stop()` has passed may be
forgotten, `MayForget`; it is never the worker at the sweep that forgot one), `LoopAgrees` the I/O thread to the connection it is handing over, and
`OwnersAgree` the four places a connection can be in. The refinement splits on
the steps: `SetReady` is `Warm`, `PutRequest` is `Accept`, what closes a connection is
`Finish`, the rest stutter.

In SessionStore, `SavesAreCurrent` says that whoever is past the load under a
lock of a file that is not deleted has in hand what the file contains;
`LocksAreHeld` and `LocksAreInUse` that there is one such call, `IdsAreTaken` and
`RegistersAlone` that a registration writes to a file nobody else knows,
`StepsAgree` relates a call's place to its locals.

In Routing, `OpenProposals` is about the replay of the whole log: a wrapper
that is still looking, asking or recording has nothing open in its conversation,
and one that waits for the answer has exactly its own proposal open under its
target, so what the label takes is that one, and a label that answers nothing
finds nothing open in its own conversation to take. The replay is a recursion over the
log, and the library's induction rules cannot be instantiated, so what is needed
of it is proved by the least counterexample (`LeastOf`, from the well-foundedness
of `<` on the naturals): a replay exists (`ReplayExists`), what it holds after i
events is among the first i (`ReplayTypes`), and two logs with a common prefix
agree on it (`ReplayPrefix`), whence `ReplayAppend`: one more event makes one more
step. `ReplayProposal`, `ReplayExpiry` and `ReplayLabel` say what that step is.

`RespawnLemmas` states once what the shared operators return.

Only model-checked: the liveness properties `RegisteredIsSwapped`,
`RolloverEnds`, `QueueIsDrained`, `LoneResidentIsServed` and `HookIsReleased`,
because fairness speaks of ENABLED, which is out of the prover's reach. Every
invariant, action property and refinement that a passing run checks is stated by
a theorem.

## 5. Where code and comments differ

Each with a run that finds it:

* **A retry refused as busy** (`rollover_retry`): the request is on the books,
  its turn is not coming, and no later rollover can start.
* **The successor linked at boot** (`rollover_atomic`): the swap child's server
  links an id nothing was written to yet; if the child dies then, the session
  has nothing to resume.

Known behaviours of the models that no run is about. The properties are stated so
that they leave them out, and the first seven were found by a run that is no
longer kept:

* **`/back` after a switch without origin.** A `/rename` drops the server's
  pointer; the next switch carries no departing session and is not recorded, so
  `/back` undoes an older one.
* **PreCompact and the deferral.** The hook's mark skips the check that holds a
  rollover back while the user is being asked. `DeferralHolds` and
  `NoRolloverLoop` are checked without automatic compaction.
* **A ready hand-off after a switch.** The swap is retried from the other
  session's child and pulls the user back, and finalize may take a conversation
  that is not the swap's. The properties of the swap are of nobody switching.
* **The baseline of a summary** is measured at the save, after the headless
  call, although the field is documented as the length the summary was built
  from; what is said during the call is never counted as new.
  `summary_updated_at` has the same stamp, so the recovery at boot does not see
  it either.
* **The judge's sweep.** The directory of junk transcripts lies in the home
  directory and belongs to every wrapper; a wrapper that spawns a judge empties
  it under another one's live judge. And within one wrapper: `stop()` clears
  `_proc` before it ends the process, so a worker that had passed the loop's test
  finds `_proc` empty and sweeps while that process still runs. The comment at
  `judge_host.py:72-75` says that no process is alive at that moment.
  `SweepSparesOwnJudge` speaks of the wrapper's own processes and excepts the one
  `stop()` is ending.
* **A session that is being deleted.** The lock file is unlinked without being
  held: a call that loaded the session before writes it back after, one that
  waited on the deleted lock file and one that makes a new one then both work on
  it, and one of their changes is lost. `UpdatesSurvive` speaks of sessions that
  were never deleted.
* **A proposal left open elsewhere.** Labels are paired by target: a proposal
  the user walked away from is paired with a later voluntary switch to the same
  target, or with a `/back`, made in another conversation. `AnswersArePaired`
  speaks of labels that answer a proposal.
* **Two wrappers and one session.** With two wrappers in the same conversation
  the pairing may take the other one's proposal: the three properties of the log
  are of one wrapper, and so are their theorems.
* **The precedent gate** is no barrier in general, and no property says it is: it
  is skipped for a conversation that no session owns
  (`test_unknown_conversation_skips_gate`), as after a `/clear`; `reject_switch`
  does nothing when the server has no current session, as after each hand-made
  `/resume`; the precedent is filed under the server's pointer, the gate looks
  under the owner of the conversation; and it reads the precedents before the
  judge's round trip, so that with two wrappers it may miss a rejection. With
  those cases set apart, "a rejected target is not proposed again" is the gate's
  own test.
* **A log that is not written.** An append that fails is swallowed
  (`decision_log._append`), and a hook may be cut short between its look at the
  log and its expiry event; a proposal then stays open. Neither is modelled, and
  the three properties of the log do not hold of them.
* **A transition held back.** A screen that never looks idle, or a child that
  outlives the one SIGTERM, holds a registered transition back for good, and with
  it every later one: nothing sends a second signal and no timeout overrides the
  screen.
* **Pointer, mirror and conversation.** `PointerAgreement` ties the server's
  pointer to the wrapper's mirror. Neither is tied to the conversation that runs:
  after a hand-made `/resume` the mirror names the session left, and what is filed
  by it goes there.
* **The hand-off slot** holds one hand-off. `BootFindsNoHandoff` excludes a
  leftover of an earlier run; that a second registration overwrites a hand-off
  before it is taken is possible in Rollover (`ScreenBusy` on boot frames), and no
  property is about it.
* **A dedicated turn without a reply** is waited for. `RolloverEnds` has the Stop
  hook at every turn and lets prompt and reply reach the transcript.
* **Two unread chunks.** If a server dies with two chunks unread, its successor
  can be looked at while the slot still seems taken, and is turned away.
* **The ready flag of the judge.** The request is put into the queue before the
  flag is cleared; a worker that serves it and warms the next process in between
  is left marked not ready, and the judge stays unavailable until the wrapper
  ends.
* **stop() and a spawn.** When `stop()` runs between the worker's look at the
  stop flag and its spawn, the new process has nobody left to retire it. Nothing
  sweeps in that wrapper any more, so no property sees it.
* **A `/resume` into a swap.** A conversation the user moves to by hand while the
  swap waits for the old child to end is another one than the predecessor, and
  `_finalize_rollover` takes it for the successor before that is spawned:
  `FinalizedBySuccessor` is of nobody moving by hand.
* **A move nobody saw.** The wrapper may miss a `/resume` or `/clear` on the
  screen (`pty_wrapper.py:1524`). Transition has it; in Rollover a hand-made move
  is always observed.
* **Checks and refreshes.** A second rejection in the same conversation is
  dropped as a duplicate of the first one's check, whatever its topic; a
  rejection made while an ordinary refresh is pending sends its check along with
  that one; two processes may both find no duplicate.
* **Names.** Two servers that boot over an empty store both register a default
  session, and `session_register` does not look whether a name is taken.

## 6. Not modelled, and the plan

Left out for good, because it is I/O, text or sequential computation without an
interleaving: terminal and window handling, argument building, the key-by-key
line editor, rendering (statusline, screen, notices), transcript excerpts, the
prefilter's rules and the texts of prompts and verdicts, logging, hook
installation, configuration. The usage tallies and the calibration computed from
the decision log are sums over `Replay`'s pairs.

Worth adding next:

* the merge and revert of static entries (`models/fields.py`) as functions, with
  a reference definition, and the project-context and configuration files, which
  are read and written whole without a lock;
* two wrappers over one project in Transition: two hand-off slots' writers, two
  mirrors of one session;
* the expiry of a hand-off and of a notice by age;
* the undo record as a one-place history of completed switches; a session's file
  as a set of changes that grows atomically, with SessionStore as its refinement.
