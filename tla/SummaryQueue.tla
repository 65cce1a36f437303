---------------------------- MODULE SummaryQueue ----------------------------
(***************************************************************************)
(* The summary queue (summarizer.py): one file per task in a directory     *)
(* shared by every wrapper of the project, written by the wrappers' main   *)
(* threads and by their MCP servers, and drained by one worker thread per  *)
(* wrapper.  A file is claimed by renaming it, so a claim is one step; the *)
(* look for a duplicate and the write of a new file are two.               *)
(*                                                                         *)
(* A transcript is the amount of dialogue in it; of a summary only the     *)
(* baseline saved with it is kept.  Files are numbered by requested_at.    *)
(***************************************************************************)
EXTENDS Integers, FiniteSets, Sequences, Functions

CONSTANTS
    Wrappers,   \* wrapper processes sharing the project, one worker thread each
    Servers,    \* those whose Claude Code child runs an MCP server
    Convs,      \* conversations
    SessionOf,  \* the session a conversation is linked to
    Topics,     \* topics of rejected proposals
    Threshold,  \* EXCERPT_MAX_CHARS, in units of dialogue
    MaxFiles,   \* BOUND: how many queue files are ever written
    MaxTalk,    \* BOUND: how long a transcript grows
    MaxExits,   \* BOUND: how often a wrapper quits or is killed
    NULL        \* Python's None

Sessions == {SessionOf[c] : c \in Convs}
Files == 1..MaxFiles

Kinds == {"departed", "active", "rooting_check"}

Tasks == [conv : Convs, kind : Kinds, fromReject : BOOLEAN, topic : Topics \cup {NULL}]

ASSUME QueueAssumption ==
    /\ Servers \subseteq Wrappers
    /\ Threshold \in Nat \ {0}
    /\ MaxFiles \in Nat /\ MaxTalk \in Nat /\ MaxExits \in Nat
    /\ Convs = DOMAIN SessionOf
    /\ Convs \subseteq Nat /\ IsFiniteSet(Convs)   \* in the order they were linked
    /\ NULL \notin Convs \cup Topics \cup Tasks

VARIABLES
    task,      \* content of each queue file, NULL until it is written
    status,    \* where the file is: its name and its failed_at mark
    nextFile,  \* the next requested_at
    call,      \* the tasks each process still has to enqueue in its handler
    draft,     \* the file it has found no duplicate of and not yet written
    worker,    \* the worker thread's locals
    wakeup,    \* SummarizerWorker._wakeup
    dialogue,  \* length of each transcript
    stale,     \* the session's transcripts were written after its summary
    baseline,  \* summary_dialogue_conversation_id, summary_dialogue_chars
    score,     \* mixing_score
    exits      \* wrappers that have quit or died so far

queueVars == <<task, status, nextFile>>
callVars  == <<call, draft>>
storeVars == <<stale, baseline, score>>
vars == <<queueVars, callVars, worker, wakeup, dialogue, storeVars, exits>>

\* A wrapper's main thread and the MCP server of its Claude Code child.
Callers == (Wrappers \X {"wrapper"}) \cup (Servers \X {"server"})

SummaryTask(c, kind) ==
    [conv |-> c, kind |-> kind, fromReject |-> FALSE, topic |-> NULL]

IdleWorker(pc) ==
    [pc |-> pc, todo |-> {}, cur |-> 0, checks |-> {}, ride |-> 0,
     attempt |-> 1, failed |-> FALSE]

Running(w) == worker[w].pc \notin {"off", "boot"}

Pending(i) == status[i] = "pending"

\* Files are taken in the order of requested_at.
Oldest(files) == {i \in files : \A j \in files : i <= j}

Session(i) == SessionOf[task[i].conv]

IsCheck(i) == task[i] # NULL /\ task[i].kind = "rooting_check"

-----------------------------------------------------------------------------
(* Enqueueing. *)

\* The same (session, conversation, kind) among the pending files; claimed
\* and failed ones are not looked at.
Duplicate(t) ==
    \E i \in Files : Pending(i) /\ task[i].conv = t.conv /\ task[i].kind = t.kind

\* The caller is through with the first task of its list.
Enqueued(p) ==
    /\ call' = [call EXCEPT ![p] = Tail(@)]
    /\ wakeup' = IF p[2] = "wrapper" /\ Running(p[1])
                 THEN [wakeup EXCEPT ![p[1]] = TRUE] ELSE wakeup

SkipDuplicate(p) ==
    /\ call[p] # <<>> /\ draft[p] = 0
    /\ Duplicate(Head(call[p])) \/ nextFile > MaxFiles   \* BOUND
    /\ Enqueued(p)
    /\ UNCHANGED <<queueVars, draft, worker, dialogue, storeVars, exits>>

FindNoDuplicate(p) ==
    /\ call[p] # <<>> /\ draft[p] = 0
    /\ ~Duplicate(Head(call[p])) /\ nextFile <= MaxFiles
    /\ draft' = [draft EXCEPT ![p] = nextFile]
    /\ nextFile' = nextFile + 1
    /\ UNCHANGED <<task, status, call, worker, wakeup, dialogue, storeVars, exits>>

WriteFile(p) ==
    /\ draft[p] # 0
    /\ task' = [task EXCEPT ![draft[p]] = Head(call[p])]
    /\ status' = [status EXCEPT ![draft[p]] = "pending"]
    /\ draft' = [draft EXCEPT ![p] = 0]
    /\ Enqueued(p)
    /\ UNCHANGED <<nextFile, worker, dialogue, storeVars, exits>>

\* Files written, being written and asked for.
Ordered == FoldFunction(LAMBDA tasks, n : Len(tasks) + n, nextFile - 1, call)
               - Cardinality({p \in Callers : draft[p] # 0})

Request(p, tasks) ==
    /\ Running(p[1])
    /\ call[p] = <<>>
    /\ Ordered < MaxFiles   \* BOUND
    /\ call' = [call EXCEPT ![p] = tasks]
    /\ UNCHANGED <<queueVars, draft, worker, wakeup, dialogue, storeVars, exits>>

\* A session is being left by a switch or a new one.
EnqueueDeparted(w) ==
    \E c \in Convs : Request(<<w, "wrapper">>, <<SummaryTask(c, "departed")>>)

\* /clear, a move by hand, or the end of a rollover.
EnqueueActive(w) ==
    \E c \in Convs : Request(<<w, "wrapper">>, <<SummaryTask(c, "active")>>)

BaselineOf(c) ==
    LET b == baseline[SessionOf[c]] IN IF b.conv = c THEN b.chars ELSE 0

\* The check at every turn end.
CheckSummaryRefresh(w) ==
    \E c \in Convs :
        /\ dialogue[c] - BaselineOf(c) >= Threshold
        /\ Request(<<w, "wrapper">>, <<SummaryTask(c, "active")>>)

\* The server's reject_switch: a refresh that carries no check, and the check.
RejectSwitch(w) ==
    \E c \in Convs, t \in Topics :
        Request(<<w, "server">>,
                <<[SummaryTask(c, "active") EXCEPT !.fromReject = TRUE],
                  [SummaryTask(c, "rooting_check") EXCEPT !.topic = t]>>)

-----------------------------------------------------------------------------
(* The worker thread. *)

Quiet == UNCHANGED <<callVars, wakeup, dialogue, exits>>

Scan(w) ==
    /\ worker[w].pc = "scan"
    /\ worker' = [worker EXCEPT ![w].pc = "take",
                                ![w].todo = {i \in Files : Pending(i)}]
    /\ UNCHANGED <<queueVars, storeVars>> /\ Quiet

\* Mutant: claiming by a copy, which leaves the file to be claimed again.
ClaimableTwice(i) == status[i] \in {"pending", "claimed"}

\* The rename succeeds while the file still has its pending name.
Claimable(i) == Pending(i)

Claim(i) == status' = [status EXCEPT ![i] = "claimed"]

\* Rooting checks wait for a ride; a file taken by another worker is skipped.
SkipTask(w) ==
    /\ worker[w].pc = "take"
    /\ \E i \in Oldest(worker[w].todo) :
          /\ IsCheck(i) \/ ~Claimable(i)
          /\ worker' = [worker EXCEPT ![w].todo = @ \ {i}]
    /\ UNCHANGED <<queueVars, storeVars>> /\ Quiet

Rides(t) == t.kind = "active" /\ ~t.fromReject

TakeTask(w) ==
    /\ worker[w].pc = "take"
    /\ \E i \in Oldest(worker[w].todo) :
          /\ ~IsCheck(i) /\ Claimable(i)
          /\ Claim(i)
          /\ worker' = [worker EXCEPT ![w].cur = i,
                                      ![w].pc = IF Rides(task[i]) THEN "list" ELSE "read"]
    /\ UNCHANGED <<task, nextFile, storeVars>> /\ Quiet

ListChecks(w) ==
    /\ worker[w].pc = "list"
    /\ worker' = [worker EXCEPT
           ![w].pc = "ride",
           ![w].checks = {i \in Files : /\ Pending(i) /\ IsCheck(i)
                                        /\ Session(i) = Session(worker[w].cur)}]
    /\ UNCHANGED <<queueVars, storeVars>> /\ Quiet

\* The oldest check still there; none if other workers took them all.
ClaimCheck(w) ==
    /\ worker[w].pc = "ride"
    /\ LET left == {i \in worker[w].checks : Claimable(i)} IN
       \/ /\ left = {}
          /\ worker' = [worker EXCEPT ![w].pc = "read"]
          /\ UNCHANGED status
       \/ \E i \in Oldest(left) :
          /\ worker' = [worker EXCEPT ![w].pc = "read", ![w].ride = i]
          /\ Claim(i)
    /\ UNCHANGED <<task, nextFile, storeVars>> /\ Quiet

MaxAttempts == 2

\* Mutant: one attempt too many.
AfterFailureThrice(r) ==
    IF r.attempt <= MaxAttempts
    THEN [r EXCEPT !.pc = "read", !.attempt = @ + 1]
    ELSE [r EXCEPT !.pc = "finish", !.failed = TRUE]

\* The worker after an attempt that did not end in a save.
AfterFailure(r) ==
    IF r.attempt < MaxAttempts
    THEN [r EXCEPT !.pc = "read", !.attempt = @ + 1]
    ELSE [r EXCEPT !.pc = "finish", !.failed = TRUE]

ReadExcerpt(w) ==
    /\ worker[w].pc = "read"
    /\ worker' = [worker EXCEPT ![w] =
           IF dialogue[task[worker[w].cur].conv] = 0
           THEN AfterFailure(@) ELSE [@ EXCEPT !.pc = "ask"]]
    /\ UNCHANGED <<queueVars, storeVars>> /\ Quiet

\* The headless call fails or times out, its answer cannot be parsed, or the
\* session is gone.
AskFails(w) ==
    /\ worker[w].pc = "ask"
    /\ worker' = [worker EXCEPT ![w] = AfterFailure(@)]
    /\ UNCHANGED <<queueVars, storeVars>> /\ Quiet

\* The baseline is measured here, not where the excerpt was read: what was
\* said during the headless call counts as summarised.
MeasuredBaseline(w, c) == dialogue[c]

\* The locked save; the score moves only on an explicit rooted = true.
Save(w) ==
    /\ worker[w].pc = "ask"
    /\ \E rooted \in BOOLEAN :
          LET c == task[worker[w].cur].conv
              s == SessionOf[c]
          IN  /\ rooted => worker[w].ride # 0
              /\ score' = [score EXCEPT ![s] = IF rooted THEN @ + 1 ELSE @]
              /\ baseline' = [baseline EXCEPT ![s] =
                     [conv |-> c, chars |-> MeasuredBaseline(w, c)]]
              /\ stale' = [stale EXCEPT ![s] = FALSE]
    /\ worker' = [worker EXCEPT ![w].pc = "finish"]
    /\ UNCHANGED queueVars /\ Quiet

\* Where the task's own file and the check's file end up.  A file swept in the
\* meantime stays away, except that marking a failure writes it anew.
FileAfter(w) == IF worker[w].failed THEN "failed" ELSE "gone"

\* Mutant: the check is put back whether or not it was answered.
RideAfterAnyOutcome(w) == "pending"

\* Mutant: a failed refresh takes its check with it.
RideAfterIgnored(w) == "gone"

RideAfter(w) ==
    IF worker[w].failed /\ status[worker[w].ride] = "claimed" THEN "pending" ELSE "gone"

Finish(w) ==
    /\ worker[w].pc = "finish"
    /\ status' = [i \in Files |->
           CASE i = worker[w].cur  -> FileAfter(w)
             [] i = worker[w].ride -> RideAfter(w)
             [] OTHER              -> status[i]]
    /\ worker' = [worker EXCEPT ![w] = [IdleWorker("take") EXCEPT !.todo = worker[w].todo \ {worker[w].cur}]]
    /\ UNCHANGED <<task, nextFile, storeVars>> /\ Quiet

\* Something in the task raises: the pass is abandoned with its claims.
PassRaises(w) ==
    /\ worker[w].pc \in {"read", "ask"}
    /\ worker' = [worker EXCEPT ![w] = IdleWorker("wait")]
    /\ UNCHANGED <<queueVars, storeVars>> /\ Quiet

EndPass(w) ==
    /\ worker[w].pc = "take" /\ worker[w].todo = {}
    /\ worker' = [worker EXCEPT ![w].pc = "wait"]
    /\ UNCHANGED <<queueVars, storeVars>> /\ Quiet

\* wait(timeout) returns, then clear().
LeaveWait(w) ==
    /\ worker[w].pc = "wait"
    /\ wakeup' = [wakeup EXCEPT ![w] = FALSE]
    /\ worker' = [worker EXCEPT ![w].pc = "scan"]
    /\ UNCHANGED <<queueVars, callVars, dialogue, storeVars, exits>>

Woken(w) == wakeup[w] /\ LeaveWait(w)

\* Mutant: wait() without a timeout.
PollNever(w) == wakeup[w] /\ LeaveWait(w)

PollExpires(w) == ~wakeup[w] /\ LeaveWait(w)

-----------------------------------------------------------------------------
(* Wrappers that come and go, and the conversations. *)

\* The last conversations of the sessions that need a summary: those that
\* were written to (a transcript exists) since they had one.
StaleConvs ==
    {c \in Convs :
        /\ stale[SessionOf[c]]
        /\ \A d \in Convs : SessionOf[d] = SessionOf[c] => d <= c
        /\ \E d \in Convs : SessionOf[d] = SessionOf[c] /\ dialogue[d] > 0}

\* Start of a wrapper: files older than the retention period are removed,
\* whatever their state, then the stale sessions are queued.
Boot(w) ==
    /\ worker[w].pc = "off"
    /\ \E old \in 0..(nextFile - 1) :
          status' = [i \in Files |-> IF i <= old /\ status[i] # "none" THEN "gone" ELSE status[i]]
    /\ \E convs \in Bijection(1..Cardinality(StaleConvs), StaleConvs) :
          call' = [call EXCEPT ![<<w, "wrapper">>] =
                      [k \in 1..Cardinality(StaleConvs) |-> SummaryTask(convs[k], "departed")]]
    /\ worker' = [worker EXCEPT ![w].pc = "boot"]
    /\ UNCHANGED <<task, nextFile, draft, wakeup, dialogue, storeVars, exits>>

StartWorker(w) ==
    /\ worker[w].pc = "boot"
    /\ call[<<w, "wrapper">>] = <<>>
    /\ worker' = [worker EXCEPT ![w].pc = "scan"]
    /\ UNCHANGED <<queueVars, storeVars>> /\ Quiet

\* The wrapper quits or is killed with its daemon thread and its child.  stop()
\* waits five seconds, a headless call may last longer: a claim is left behind
\* either way.
Exit(w) ==
    /\ worker[w].pc # "off" /\ exits < MaxExits
    /\ exits' = exits + 1
    /\ worker' = [worker EXCEPT ![w] = IdleWorker("off")]
    /\ call' = [p \in Callers |-> IF p[1] = w THEN <<>> ELSE call[p]]
    /\ draft' = [p \in Callers |-> IF p[1] = w THEN 0 ELSE draft[p]]
    /\ wakeup' = [wakeup EXCEPT ![w] = FALSE]
    /\ UNCHANGED <<queueVars, dialogue, storeVars>>

\* The user and Claude talk.
Talk(c) ==
    /\ dialogue[c] < MaxTalk
    /\ dialogue' = [dialogue EXCEPT ![c] = @ + 1]
    /\ stale' = [stale EXCEPT ![SessionOf[c]] = TRUE]
    /\ UNCHANGED <<queueVars, callVars, worker, wakeup, baseline, score, exits>>

-----------------------------------------------------------------------------
Init ==
    /\ task = [i \in Files |-> NULL]
    /\ status = [i \in Files |-> "none"]
    /\ nextFile = 1
    /\ call = [p \in Callers |-> <<>>]
    /\ draft = [p \in Callers |-> 0]
    /\ worker = [w \in Wrappers |-> IdleWorker("off")]
    /\ wakeup = [w \in Wrappers |-> FALSE]
    /\ dialogue = [c \in Convs |-> 0]
    /\ stale = [s \in Sessions |-> TRUE]
    /\ baseline = [s \in Sessions |-> [conv |-> NULL, chars |-> 0]]
    /\ score = [s \in Sessions |-> 0]
    /\ exits = 0

EnqueueStep(p) == SkipDuplicate(p) \/ FindNoDuplicate(p) \/ WriteFile(p)

WorkerStep(w) ==
    \/ Scan(w) \/ SkipTask(w) \/ TakeTask(w) \/ ListChecks(w) \/ ClaimCheck(w)
    \/ ReadExcerpt(w) \/ AskFails(w) \/ Save(w) \/ Finish(w) \/ PassRaises(w)
    \/ EndPass(w) \/ Woken(w) \/ PollExpires(w) \/ StartWorker(w)

Next ==
    \/ \E p \in Callers : EnqueueStep(p)
    \/ \E w \in Wrappers :
          \/ EnqueueDeparted(w) \/ EnqueueActive(w) \/ CheckSummaryRefresh(w)
          \/ WorkerStep(w) \/ Boot(w) \/ Exit(w)
    \/ \E w \in Servers : RejectSwitch(w)
    \/ \E c \in Convs : Talk(c)

\* A handler that has begun to enqueue goes on, and a thread that is started
\* runs; nobody is obliged to talk, to start a wrapper or to quit one.
Fairness ==
    /\ \A p \in Callers : WF_vars(EnqueueStep(p))
    /\ \A w \in Wrappers : WF_vars(WorkerStep(w))

Spec == Init /\ [][Next]_vars /\ Fairness

-----------------------------------------------------------------------------
Statuses == {"none", "pending", "claimed", "failed", "gone"}

Workers ==
    [pc : {"off", "boot", "scan", "take", "list", "ride", "read", "ask", "finish", "wait"},
     todo : SUBSET Files, cur : 0..MaxFiles, checks : SUBSET Files, ride : 0..MaxFiles,
     attempt : 1..MaxAttempts, failed : BOOLEAN]

\* Type invariant: in particular no task is tried a third time in one pass
\* (process_queue).
TypeOK ==
    /\ task \in [Files -> Tasks \cup {NULL}]
    /\ status \in [Files -> Statuses]
    /\ nextFile \in 1..(MaxFiles + 1)
    /\ call \in [Callers -> Seq(Tasks)]
    /\ draft \in [Callers -> 0..MaxFiles]
    /\ worker \in [Wrappers -> Workers]
    /\ wakeup \in [Wrappers -> BOOLEAN]
    /\ dialogue \in [Convs -> 0..MaxTalk]
    /\ stale \in [Sessions -> BOOLEAN]
    /\ baseline \in [Sessions -> [conv : Convs \cup {NULL}, chars : 0..MaxTalk]]
    /\ score \in [Sessions -> Nat]
    /\ exits \in 0..MaxExits

Held(w) == {worker[w].cur, worker[w].ride} \ {0}

\* Two workers never hold the same file, neither as their task nor as the check
\* that rides on it: no summary is paid for twice (_claim).
OneWorkerPerFile ==
    \A v, w \in Wrappers : v # w => Held(v) \cap Held(w) = {}

\* A session's mixing score never exceeds the checks that have left the queue:
\* no check is counted twice, by a retry, by a second worker or by the one that
\* finds it again (_process_task, _claim_rooting_check, _restore_claimed).
ScoreIsBacked ==
    \A s \in Sessions :
        score[s] <= Cardinality({i \in Files : IsCheck(i) /\ Session(i) = s /\ ~Pending(i)})

\* A rooting check leaves the queue only after a refresh that carried it was
\* saved, or by the sweep of a starting wrapper: a failed refresh gives it back
\* (process_queue, _restore_claimed).
Answered(i) ==
    \E w \in Wrappers :
        worker[w].pc = "finish" /\ ~worker[w].failed /\ worker[w].ride = i

ChecksLeaveAnswered ==
    [][ \A i \in Files :
          IsCheck(i) /\ status[i] # status'[i] /\ status'[i] \in {"gone", "failed"}
              => \/ Answered(i)
                 \/ \E w \in Wrappers : worker[w].pc = "off" /\ worker'[w].pc = "boot" ]_vars

\* While a wrapper is up the queue keeps getting empty of work, also when nobody
\* woke the worker for it, as after the server's reject_switch
\* (SummarizerWorker._loop).  With MaxFiles files this says that each is taken.
QueueIsDrained ==
    []<>(\/ \A i \in Files : Pending(i) => IsCheck(i)
         \/ \A w \in Wrappers : worker[w].pc = "off")

=============================================================================
