------------------------------ MODULE Routing ------------------------------
(***************************************************************************)
(* Proposals to switch and the answers to them: the UserPromptSubmit hook  *)
(* (hooks/user_prompt_submit.py), the tools and the wrapper's undo that    *)
(* label a proposal (server.py, pty_wrapper.py), and the append-only log   *)
(* that is read back as pairs of a proposal and its label                  *)
(* (routing/decision_log.py).                                              *)
(*                                                                         *)
(* A wrapper runs one conversation at a time, and the hook, the model's    *)
(* turn and the tools it calls follow one another in it.  What the judge   *)
(* answers, its precedent gate included, and what the user wants are open. *)
(* A label names neither its proposal nor its conversation.                *)
(***************************************************************************)
EXTENDS Integers, Sequences

CONSTANTS
    Wrappers,
    Sessions,
    Convs,
    MaxLog,      \* bound: events in the log
    NULL

ASSUME RoutingAssumption == MaxLog \in Nat /\ NULL \notin Sessions

VARIABLES
    log,         \* routing-decisions.jsonl
    at,          \* the conversation each wrapper runs
    pc,          \* where the prompt or the turn is
    target,      \* the target of the judge's verdict
    asked,       \* the proposal the user is being asked about, 0 if none
    placed,      \* the server's current session is not None
    pending,     \* a registered transition, and the undo record it will leave
    undo         \* where the last transition led, for /back

vars == <<log, at, pc, target, asked, placed, pending, undo>>
prompt == <<pc, target, asked>>

\* Events.  Of a label, "conv" is the conversation it is made in and "re" the
\* proposal it answers, 0 when there is none.  Neither is in the file, where
\* they are to be reconstructed.
Proposal(c, t) == [type |-> "proposal", target |-> t, conv |-> c]
Expiry(c) == [type |-> "expire", conv |-> c]
Label(t, how, c, i) == [type |-> how, target |-> t, conv |-> c, re |-> i]

Events == [type : {"proposal"}, target : Sessions, conv : Convs]
          \cup [type : {"expire"}, conv : Convs]
          \cup [type : {"accept", "reject"}, target : Sessions, conv : Convs, re : 0..MaxLog]

Undos == Sessions \cup {NULL}

TypeOK ==
    /\ log \in Seq(Events) /\ Len(log) <= MaxLog
    /\ at \in [Wrappers -> Convs]
    /\ pc \in [Wrappers -> {"idle", "expire", "hook", "judging", "record", "turn"}]
    /\ target \in [Wrappers -> Sessions \cup {NULL}]
    /\ asked \in [Wrappers -> 0..Len(log)]
    /\ \A w \in Wrappers : asked[w] # 0 =>
          pc[w] = "turn" /\ log[asked[w]] = Proposal(at[w], target[w])
    /\ placed \in [Wrappers -> BOOLEAN]
    /\ pending \in [Wrappers -> [undo : Undos] \cup {NULL}]
    /\ undo \in [Wrappers -> Undos]

Init ==
    /\ log = <<>>
    /\ at \in [Wrappers -> Convs]
    /\ pc = [w \in Wrappers |-> "idle"]
    /\ target = [w \in Wrappers |-> NULL]
    /\ asked = [w \in Wrappers |-> 0]
    /\ placed \in [Wrappers -> BOOLEAN]
    /\ pending = [w \in Wrappers |-> NULL]
    /\ undo = [w \in Wrappers |-> NULL]

-----------------------------------------------------------------------------
(* Reading the log back (_replay, _OpenProposals): a label takes the last  *)
(* open proposal of its target, and an expiry closes all of a conversation *)

Nothing == [open |-> {}, pairs |-> {}]

\* Mutant: a label takes the oldest open proposal of its target.
PopOldest(open, t) ==
    {i \in open : log[i].target = t /\ \A j \in open : log[j].target = t => i <= j}

\* The top of a target's stack, if there is one.
Pop(open, t) ==
    {i \in open : log[i].target = t /\ \A j \in open : log[j].target = t => j <= i}

\* Mutant: an expiry closes nothing.
ReplayKept(sofar, i) ==
    CASE log[i].type = "proposal" -> [sofar EXCEPT !.open = @ \cup {i}]
      [] log[i].type = "expire" -> sofar
      [] OTHER ->
            LET top == Pop(sofar.open, log[i].target) IN
            [open |-> sofar.open \ top, pairs |-> sofar.pairs \cup (top \X {i})]

ReplayOne(sofar, i) ==
    CASE log[i].type = "proposal" -> [sofar EXCEPT !.open = @ \cup {i}]
      [] log[i].type = "expire" ->
            [sofar EXCEPT !.open = {j \in @ : log[j].conv # log[i].conv}]
      [] OTHER ->
            LET top == Pop(sofar.open, log[i].target) IN
            [open |-> sofar.open \ top, pairs |-> sofar.pairs \cup (top \X {i})]

Replay ==
    LET upto[i \in 0..Len(log)] ==
            IF i = 0 THEN Nothing ELSE ReplayOne(upto[i - 1], i)
    IN  upto[Len(log)]

HasOpen(c) == \E i \in Replay.open : log[i].conv = c

\* The prompt and all that came of it are over.
Over(w) ==
    /\ pc' = [pc EXCEPT ![w] = "idle"]
    /\ target' = [target EXCEPT ![w] = NULL]
    /\ asked' = [asked EXCEPT ![w] = 0]

\* Another child, with a server that finds its session or does not.
NewChild(w) ==
    /\ \E c \in Convs : at' = [at EXCEPT ![w] = c]
    /\ \E found \in BOOLEAN : placed' = [placed EXCEPT ![w] = found]

WriteLog(event) == Len(log) < MaxLog /\ log' = Append(log, event)

-----------------------------------------------------------------------------
(* The hook *)

\* Mutant: the proposals of the conversation are left open.
PromptUnexpired(w) ==
    /\ pc[w] = "idle"
    /\ pc' = [pc EXCEPT ![w] = "hook"]
    /\ UNCHANGED <<log, at, target, asked, placed, pending, undo>>

\* run: before anything else, proposals of this conversation that are still
\* open are found, in the log as it is now ...
Prompt(w) ==
    /\ pc[w] = "idle"
    /\ pc' = [pc EXCEPT ![w] = IF HasOpen(at[w]) THEN "expire" ELSE "hook"]
    /\ UNCHANGED <<log, at, target, asked, placed, pending, undo>>

\* ... and closed by an event of their own.
Expire(w) ==
    /\ pc[w] = "expire"
    /\ WriteLog(Expiry(at[w]))
    /\ pc' = [pc EXCEPT ![w] = "hook"]
    /\ UNCHANGED <<at, target, asked, placed, pending, undo>>

\* A transition's trigger, a notice, a prefilter rule, no judge or no
\* verdict in time, or a hook cut short between its instruction to the
\* model and its record: the turn begins and no proposal is in the log.
PassThrough(w) ==
    /\ pc[w] \in {"hook", "judging", "record"}
    /\ pc' = [pc EXCEPT ![w] = "turn"]
    /\ target' = [target EXCEPT ![w] = NULL]
    /\ UNCHANGED <<log, at, asked, placed, pending, undo>>

AskJudge(w) ==
    /\ pc[w] = "hook"
    /\ pc' = [pc EXCEPT ![w] = "judging"]
    /\ UNCHANGED <<log, at, target, asked, placed, pending, undo>>

\* A verdict to switch: the hook gives the model its instruction.
SwitchVerdict(w, t) ==
    /\ pc[w] = "judging"
    /\ target' = [target EXCEPT ![w] = t]
    /\ pc' = [pc EXCEPT ![w] = "record"]
    /\ UNCHANGED <<log, at, asked, placed, pending, undo>>

\* Mutant: under the conversation of the last report, not of the prompt.
RecordElsewhere(w) ==
    /\ pc[w] = "record"
    /\ \E c \in Convs : WriteLog(Proposal(c, target[w]))
    /\ asked' = [asked EXCEPT ![w] = Len(log) + 1]
    /\ pc' = [pc EXCEPT ![w] = "turn"]
    /\ UNCHANGED <<at, target, placed, pending, undo>>

\* _route, after the instruction is out: append_proposal.
Record(w) ==
    /\ pc[w] = "record"
    /\ WriteLog(Proposal(at[w], target[w]))
    /\ asked' = [asked EXCEPT ![w] = Len(log) + 1]
    /\ pc' = [pc EXCEPT ![w] = "turn"]
    /\ UNCHANGED <<at, target, placed, pending, undo>>

-----------------------------------------------------------------------------
(* The turn, and the tools called in it *)

\* The answer is given without a tool, or no answer is given.
EndTurn(w) ==
    /\ pc[w] = "turn"
    /\ Over(w)
    /\ UNCHANGED <<log, at, placed, pending, undo>>

\* The proposal that a decision about t answers.
Answered(w, t) == IF asked[w] # 0 /\ target[w] = t THEN asked[w] ELSE 0

\* append_label: the decision, of the user or of the model's own accord.
LabelIt(w, t, how) ==
    /\ WriteLog(Label(t, how, at[w], Answered(w, t)))
    /\ IF Answered(w, t) # 0
       THEN /\ asked' = [asked EXCEPT ![w] = 0]
            /\ target' = [target EXCEPT ![w] = NULL]
       ELSE UNCHANGED <<asked, target>>

\* The wrapper registers the transition to t, or drops it: busy with
\* another, or no conversation to resume.  Without a session to come from
\* it will leave the undo record as it is.
Departs(w, t) ==
    \/ UNCHANGED pending
    \/ /\ pending[w] = NULL
       /\ pending' = [pending EXCEPT ![w] = [undo |-> IF placed[w] THEN t ELSE undo[w]]]

\* session_switch: the label, whatever becomes of the transition.
SwitchTool(w, t) ==
    /\ pc[w] = "turn"
    /\ LabelIt(w, t, "accept")
    /\ Departs(w, t)
    /\ placed' = [placed EXCEPT ![w] = TRUE]
    /\ UNCHANGED <<at, pc, undo>>

\* session_create labels nothing.
CreateTool(w, t) ==
    /\ pc[w] = "turn"
    /\ Departs(w, t)
    /\ placed' = [placed EXCEPT ![w] = TRUE]
    /\ UNCHANGED <<log, at, prompt, undo>>

\* session_register and session_end move the server's pointer.
PointerTool(w) ==
    /\ pc[w] = "turn"
    /\ \E found \in BOOLEAN : placed' = [placed EXCEPT ![w] = found]
    /\ UNCHANGED <<log, at, prompt, pending, undo>>

\* reject_switch; without a current session it does nothing.
RejectTool(w, t) ==
    /\ pc[w] = "turn" /\ placed[w]
    /\ LabelIt(w, t, "reject")
    /\ UNCHANGED <<at, pc, placed, pending, undo>>

\* session_back: where the last transition led is rejected, and the wrapper
\* returns.  The undo record goes when it has; a child that ends before
\* leaves it for another try.
BackTool(w) ==
    /\ pc[w] = "turn" /\ undo[w] # NULL /\ pending[w] = NULL
    /\ LabelIt(w, undo[w], "reject")
    /\ pending' = [pending EXCEPT ![w] = [undo |-> NULL]]
    /\ placed' = [placed EXCEPT ![w] = FALSE]
    /\ UNCHANGED <<at, pc, undo>>

-----------------------------------------------------------------------------
(* Between conversations *)

\* The registered transition is carried out, in the middle of anything.
Respawn(w) ==
    /\ pending[w] # NULL
    /\ undo' = [undo EXCEPT ![w] = pending[w].undo]
    /\ pending' = [pending EXCEPT ![w] = NULL]
    /\ Over(w) /\ NewChild(w)
    /\ UNCHANGED log

\* /resume and /clear: the server's pointer goes if the wrapper sees it.
Resume(w, c) ==
    /\ pc[w] = "idle" /\ c # at[w]
    /\ at' = [at EXCEPT ![w] = c]
    /\ \/ placed' = [placed EXCEPT ![w] = FALSE]
       \/ UNCHANGED placed
    /\ UNCHANGED <<log, prompt, pending, undo>>

\* A rollover's swap leaves no undo record.
RollOver(w) ==
    /\ pc[w] = "idle" /\ pending[w] = NULL
    /\ NewChild(w)
    /\ UNCHANGED <<log, prompt, pending, undo>>

\* The wrapper ends in the middle of anything and is started again.
Quit(w) ==
    /\ Over(w) /\ NewChild(w)
    /\ pending' = [pending EXCEPT ![w] = NULL]
    /\ UNCHANGED <<log, undo>>

Next ==
    \E w \in Wrappers :
        \/ Prompt(w) \/ Expire(w) \/ PassThrough(w) \/ AskJudge(w) \/ Record(w)
        \/ EndTurn(w) \/ PointerTool(w) \/ BackTool(w)
        \/ \E t \in Sessions : \/ SwitchVerdict(w, t) \/ SwitchTool(w, t)
                             \/ CreateTool(w, t) \/ RejectTool(w, t)
        \/ \E c \in Convs : Resume(w, c)
        \/ Respawn(w) \/ RollOver(w) \/ Quit(w)

Spec == Init /\ [][Next]_vars

-----------------------------------------------------------------------------
(* Properties, of a project with one wrapper *)

\* "ignored must not stay consumable": at most one proposal of a
\* conversation is open, the last one made there, whatever became of the
\* earlier ones: asked and ignored, answered with a switch elsewhere, cut
\* short by the end of the child.
OneOpenProposal ==
    \A i, j \in Replay.open : log[i].conv = log[j].conv => i = j

\* "a label consumes the most recent open proposal with the same target":
\* which proposal the user answered is not in the log, and yet the answer
\* to a proposal is paired with that one, however many are open for the
\* same target in other conversations.
AnswersArePaired ==
    \A k \in 1..Len(log) :
        (log[k].type \in {"accept", "reject"} /\ log[k].re # 0) =>
            {i \in 1..Len(log) : <<i, k>> \in Replay.pairs} = {log[k].re}

\* "Closing it keeps a later unrelated session_switch from consuming it":
\* within a conversation a proposal is paired only with its answer.  One
\* that was ignored, cut short or left behind is not, by a switch, a
\* reject_switch or a /back made there later, also after the user has been
\* elsewhere and has come back.  Across conversations the code does not
\* keep this: a proposal the user has walked away from is paired with a
\* later decision about its target in any other conversation.
IgnoredStaysIgnored ==
    \A pair \in Replay.pairs :
        log[pair[1]].conv = log[pair[2]].conv => log[pair[2]].re = pair[1]

=============================================================================
