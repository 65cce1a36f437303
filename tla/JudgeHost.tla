------------------------------ MODULE JudgeHost ------------------------------
(***************************************************************************)
(* The routing judge of a wrapper (wrapper/judge_host.py): the I/O loop    *)
(* hands a hook's connection to a worker thread through a queue of one     *)
(* slot, and the thread keeps one warmed `claude -p` process, gives it one *)
(* judgment and replaces it.  Composed with the socket the requests come   *)
(* through, and with the end of the wrapper (pty_wrapper.py start).        *)
(*                                                                         *)
(* The wrappers share the directory the judge processes run in.            *)
(***************************************************************************)
EXTENDS WrapperSocket

CONSTANT Procs    \* judge processes; one that has ended may be started again

ASSUME JudgeAssumption == NULL \notin Procs

VARIABLES
    slot,      \* JudgeHost._requests
    cur,       \* the connection the worker is serving
    hand,      \* the connection handle_request is about to claim
    ready,     \* JudgeHost._ready
    stopped,   \* JudgeHost._stop_event
    dead,      \* JudgeHost._dead
    proc,      \* JudgeHost._proc
    wpc,       \* where the worker thread is
    failures,  \* spawn_failures
    owner,     \* the wrapper that started each live process, NULL if none
    asked,     \* judgments each process has been asked for
    dying,     \* the process the worker is ending: proc in _retire_process
    leaving    \* the same of stop()

locals == <<dying, leaving>>
judgeVars == <<slot, cur, hand, ready, stopped, dead, proc, wpc, failures, owner, asked,
               locals>>
vars == <<peerVars, socketVars, judgeVars>>

WorkerStates == {"off", "head", "look", "spawn", "warming", "unwarmed", "warm", "get",
                 "serve", "judging", "retire", "ending", "over"}

TypeOK ==
    /\ SocketTypeOK
    /\ slot \in [Wrappers -> Judged \cup {NULL}]
    /\ cur \in [Wrappers -> Judged \cup {NULL}]
    /\ hand \in [Wrappers -> Judged \cup {NULL}]
    /\ ready \in [Wrappers -> BOOLEAN]
    /\ stopped \in [Wrappers -> BOOLEAN]
    /\ dead \in [Wrappers -> BOOLEAN]
    /\ proc \in [Wrappers -> Procs \cup {NULL}]
    /\ wpc \in [Wrappers -> WorkerStates]
    /\ failures \in [Wrappers -> 0..1]
    /\ owner \in [Procs -> Wrappers \cup {NULL}]
    /\ asked \in [Procs -> 0..2]
    /\ dying \in [Wrappers -> Procs \cup {NULL}]
    /\ leaving \in [Wrappers -> Procs \cup {NULL}]

Live == {p \in Procs : owner[p] # NULL}

\* Whether the worker runs at boot depends on the routing mode and on the
\* number of active sessions (_maybe_start_judge).
Init ==
    /\ SocketInit
    /\ slot = [w \in Wrappers |-> NULL]
    /\ cur = [w \in Wrappers |-> NULL]
    /\ hand = [w \in Wrappers |-> NULL]
    /\ ready = [w \in Wrappers |-> FALSE]
    /\ stopped = [w \in Wrappers |-> FALSE]
    /\ dead = [w \in Wrappers |-> FALSE]
    /\ proc = [w \in Wrappers |-> NULL]
    /\ wpc \in [Wrappers -> {"off", "head"}]
    /\ failures = [w \in Wrappers |-> 0]
    /\ owner = [p \in Procs |-> NULL]
    /\ asked = [p \in Procs |-> 0]
    /\ dying = [w \in Wrappers |-> NULL]
    /\ leaving = [w \in Wrappers |-> NULL]

-----------------------------------------------------------------------------
(* The I/O thread *)

\* ensure_started: a thread that has ended is started again, unless the
\* judge is stopped or dead.  Every signal of a resident or a notice runs it
\* when routing is possible then (_maybe_start_judge); which signals there
\* are is left open, so it may run at any pass of the loop.
EnsureStarted(w) ==
    /\ io[w] = "poll"
    /\ wpc[w] \in {"off", "over"} /\ ~stopped[w] /\ ~dead[w]
    /\ wpc' = [wpc EXCEPT ![w] = "head"]
    /\ failures' = [failures EXCEPT ![w] = 0]
    /\ UNCHANGED <<peerVars, socketVars, slot, cur, hand, ready, stopped, dead, proc, owner, asked, locals>>

Available(w) == ready[w] /\ ~stopped[w] /\ ~dead[w]

\* handle_request up to the claim: what becomes of the request.
Outcome(w) ==
    IF ~Available(w) THEN "unavailable"
    ELSE IF slot[w] # NULL THEN "busy"
    ELSE "taken"

SettleJudged(w, c) == Settling(w, c) /\ c \in wrote \cap Judged

\* Turned away at once; the connection counted as taken over and is closed.
Refuse(w, c) ==
    /\ SettleJudged(w, c)
    /\ Outcome(w) # "taken"
    /\ Answer(c, Outcome(w))
    /\ Close({c}) /\ Forget(w, c) /\ Handled(w, c)
    /\ UNCHANGED <<peerVars, client, lonely, turned, judgeVars>>

\* The request is in the queue; the judge still says it is ready, and the
\* server still lists the connection as pending.
PutRequest(w, c) ==
    /\ SettleJudged(w, c)
    /\ Outcome(w) = "taken"
    /\ slot' = [slot EXCEPT ![w] = c]
    /\ hand' = [hand EXCEPT ![w] = c]
    /\ io' = [io EXCEPT ![w] = "claim"]
    /\ UNCHANGED <<peerVars, reply, conn, pending, client, todo, lonely, turned,
                   cur, ready, stopped, dead, proc, wpc, failures, owner, asked, locals>>

\* Mutant: the judge stays available while it works on a request.
ClaimStaysReady(w) ==
    /\ io[w] = "claim"
    /\ Forget(w, hand[w]) /\ Handled(w, hand[w])
    /\ hand' = [hand EXCEPT ![w] = NULL]
    /\ UNCHANGED <<peerVars, reply, conn, client, lonely, turned, ready,
                   slot, cur, stopped, dead, proc, wpc, failures, owner, asked, locals>>

\* The rest of handle_request and of _settle_hook: unavailable from here
\* on, and the server forgets the connection.
Claim(w) ==
    /\ io[w] = "claim"
    /\ Forget(w, hand[w]) /\ Handled(w, hand[w])
    /\ hand' = [hand EXCEPT ![w] = NULL]
    /\ ready' = [ready EXCEPT ![w] = FALSE]
    /\ UNCHANGED <<peerVars, reply, conn, client, lonely, turned,
                   slot, cur, stopped, dead, proc, wpc, failures, owner, asked, locals>>

-----------------------------------------------------------------------------
(* The worker thread *)

\* _retire_process takes _proc away and then ends what it held: the process
\* still runs in between.  Only the worker gives _proc a process, so that its
\* own read and reset of _proc are one step.
TakeProcess(w) ==
    /\ dying' = [dying EXCEPT ![w] = proc[w]]
    /\ proc' = [proc EXCEPT ![w] = NULL]

\* stdin closed, terminated and waited for (killed, if it takes too long).
EndProcess(p) == owner' = [q \in Procs |-> IF q = p THEN NULL ELSE owner[q]]

\* Mutant: one more attempt than the code allows.
FailedThrice(w) ==
    /\ failures' = [failures EXCEPT ![w] = @ + 1]
    /\ dead' = [dead EXCEPT ![w] = @ \/ failures[w] = 2]
    /\ wpc' = [wpc EXCEPT ![w] = IF failures[w] = 2 THEN "over" ELSE "head"]

\* A failed attempt: the second in a row is the end of the judge.
Failed(w) ==
    /\ failures' = [failures EXCEPT ![w] = 1 - @]
    /\ dead' = [dead EXCEPT ![w] = @ \/ failures[w] = 1]
    /\ wpc' = [wpc EXCEPT ![w] = IF failures[w] = 1 THEN "over" ELSE "head"]

\* The head of _worker_loop, before it looks at _proc.
LoopHead(w) ==
    /\ wpc[w] = "head"
    /\ wpc' = [wpc EXCEPT ![w] = IF stopped[w] THEN "over" ELSE "look"]
    /\ UNCHANGED <<peerVars, socketVars, slot, cur, hand, ready, stopped, dead, proc, failures, owner, asked, locals>>

\* stop() may have come in between and taken _proc away.
LookAtProcess(w) ==
    /\ wpc[w] = "look"
    /\ wpc' = [wpc EXCEPT ![w] = IF proc[w] = NULL THEN "spawn" ELSE "get"]
    /\ UNCHANGED <<peerVars, socketVars, slot, cur, hand, ready, stopped, dead, proc, failures, owner, asked, locals>>

\* A process nobody runs and no wrapper remembers.
Startable == {p \in Procs \ Live : \A w \in Wrappers : p \notin {proc[w], dying[w], leaving[w]}}

\* _spawn_and_warm as far as Popen: the directory is swept, the process runs.
Spawn(w) ==
    /\ wpc[w] = "spawn"
    /\ Startable # {}
    /\ LET p == CHOOSE p \in Procs : p \in Startable IN
       /\ owner' = [owner EXCEPT ![p] = w]
       /\ asked' = [asked EXCEPT ![p] = 0]
       /\ proc' = [proc EXCEPT ![w] = p]
    /\ wpc' = [wpc EXCEPT ![w] = "warming"]
    /\ UNCHANGED <<peerVars, socketVars, slot, cur, hand, ready, stopped, dead, failures, locals>>

\* Popen raises.
SpawnFails(w) ==
    /\ wpc[w] = "spawn"
    /\ proc' = [proc EXCEPT ![w] = NULL]
    /\ Failed(w)
    /\ UNCHANGED <<peerVars, socketVars, slot, cur, hand, ready, stopped, owner, asked, locals>>

\* The directory cannot be made: the exception ends the thread, and the
\* next signal starts another.
SpawnRaises(w) ==
    /\ wpc[w] = "spawn"
    /\ wpc' = [wpc EXCEPT ![w] = "over"]
    /\ UNCHANGED <<peerVars, socketVars, slot, cur, hand, ready, stopped, dead, proc, failures, owner, asked, locals>>

\* The warmup round has its result line.
WarmupDone(w) ==
    /\ wpc[w] = "warming"
    /\ proc[w] \in Live
    /\ wpc' = [wpc EXCEPT ![w] = "warm"]
    /\ UNCHANGED <<peerVars, socketVars, slot, cur, hand, ready, stopped, dead, proc, failures, owner, asked, locals>>

\* Mutant: a process that could not be warmed is left behind.
WarmupFailsUnretired(w) ==
    /\ wpc[w] = "warming"
    /\ Failed(w)
    /\ proc' = [proc EXCEPT ![w] = NULL]
    /\ UNCHANGED <<peerVars, socketVars, slot, cur, hand, ready, stopped, asked, owner, locals>>

\* A timeout, an end of file, or stop() took the process away.
WarmupFails(w) ==
    /\ wpc[w] = "warming"
    /\ TakeProcess(w)
    /\ wpc' = [wpc EXCEPT ![w] = "unwarmed"]
    /\ UNCHANGED <<peerVars, socketVars, slot, cur, hand, ready, stopped, dead, failures, owner, asked, leaving>>

\* Mutant: a process that could not be warmed is left to itself.
ForgetUnwarmed(w) ==
    /\ wpc[w] = "unwarmed"
    /\ dying' = [dying EXCEPT ![w] = NULL]
    /\ Failed(w)
    /\ UNCHANGED <<peerVars, socketVars, slot, cur, hand, ready, stopped, proc, asked, leaving, owner>>

EndUnwarmed(w) ==
    /\ wpc[w] = "unwarmed"
    /\ EndProcess(dying[w])
    /\ dying' = [dying EXCEPT ![w] = NULL]
    /\ Failed(w)
    /\ UNCHANGED <<peerVars, socketVars, slot, cur, hand, ready, stopped, proc, asked, leaving>>

SetReady(w) ==
    /\ wpc[w] = "warm"
    /\ failures' = [failures EXCEPT ![w] = 0]
    /\ ready' = [ready EXCEPT ![w] = TRUE]
    /\ wpc' = [wpc EXCEPT ![w] = "get"]
    /\ UNCHANGED <<peerVars, socketVars, slot, cur, hand, stopped, dead, proc, owner, asked, locals>>

\* The queue is empty for 0.2 s.
GetTimesOut(w) ==
    /\ wpc[w] = "get" /\ slot[w] = NULL
    /\ wpc' = [wpc EXCEPT ![w] = "head"]
    /\ UNCHANGED <<peerVars, socketVars, slot, cur, hand, ready, stopped, dead, proc, failures, owner, asked, locals>>

GetRequest(w) ==
    /\ wpc[w] = "get" /\ slot[w] # NULL
    /\ cur' = [cur EXCEPT ![w] = slot[w]]
    /\ slot' = [slot EXCEPT ![w] = NULL]
    /\ wpc' = [wpc EXCEPT ![w] = "serve"]
    /\ UNCHANGED <<peerVars, socketVars, hand, ready, stopped, dead, proc, failures, owner, asked, locals>>

\* _serve_request puts the question to the process there is.
AskProcess(w) ==
    /\ wpc[w] = "serve"
    /\ asked' = [p \in Procs |-> IF p = proc[w] /\ asked[p] < 2 THEN asked[p] + 1 ELSE asked[p]]
    /\ wpc' = [wpc EXCEPT ![w] = "judging"]
    /\ UNCHANGED <<peerVars, socketVars, slot, cur, hand, ready, stopped, dead, proc, failures, owner, locals>>

\* Mutant: the reply is sent and the connection left open.
ReplyOnly(w) ==
    /\ wpc[w] = "judging"
    /\ \E r \in {"verdict", "error"} : Answer(cur[w], r)
    /\ cur' = [cur EXCEPT ![w] = NULL]
    /\ wpc' = [wpc EXCEPT ![w] = "retire"]
    /\ UNCHANGED <<peerVars, conn, pending, client, todo, io, lonely, turned, slot, hand, ready,
                   stopped, dead, proc, failures, owner, asked, locals>>

\* The round trip is over (a result, a timeout, an end of file, an exception)
\* and the hook is told.
ReplyAndClose(w) ==
    /\ wpc[w] = "judging"
    /\ \E r \in {"verdict", "error"} : Answer(cur[w], r)
    /\ Close({cur[w]})
    /\ cur' = [cur EXCEPT ![w] = NULL]
    /\ wpc' = [wpc EXCEPT ![w] = "retire"]
    /\ UNCHANGED <<peerVars, pending, client, todo, io, lonely, turned, slot, hand, ready, stopped,
                   dead, proc, failures, owner, asked, locals>>

\* Mutant: the process is kept for the next request.
KeepServed(w) ==
    /\ wpc[w] = "retire"
    /\ ready' = [ready EXCEPT ![w] = TRUE]
    /\ wpc' = [wpc EXCEPT ![w] = "head"]
    /\ UNCHANGED <<peerVars, socketVars, slot, cur, hand, stopped, dead, failures, asked, proc, owner, locals>>

RetireServed(w) ==
    /\ wpc[w] = "retire"
    /\ TakeProcess(w)
    /\ wpc' = [wpc EXCEPT ![w] = "ending"]
    /\ UNCHANGED <<peerVars, socketVars, slot, cur, hand, ready, stopped, dead, failures, owner, asked, leaving>>

EndServed(w) ==
    /\ wpc[w] = "ending"
    /\ EndProcess(dying[w])
    /\ dying' = [dying EXCEPT ![w] = NULL]
    /\ wpc' = [wpc EXCEPT ![w] = "head"]
    /\ UNCHANGED <<peerVars, socketVars, slot, cur, hand, ready, stopped, dead, proc, failures, asked, leaving>>

\* A judge process dies by itself; _proc still names it.
ProcessDies(p) ==
    /\ p \in Live
    /\ owner' = [owner EXCEPT ![p] = NULL]
    /\ UNCHANGED <<peerVars, socketVars, slot, cur, hand, ready, stopped, dead, proc, wpc, failures, asked, locals>>

-----------------------------------------------------------------------------
(* The end of the wrapper *)

\* The child has exited and nothing respawns it: JudgeHost.stop begins.
StopJudge(w) ==
    /\ io[w] = "poll"
    /\ io' = [io EXCEPT ![w] = "halt"]
    /\ stopped' = [stopped EXCEPT ![w] = TRUE]
    /\ ready' = [ready EXCEPT ![w] = FALSE]
    /\ UNCHANGED <<peerVars, reply, conn, pending, client, todo, lonely, turned,
                   slot, cur, hand, dead, proc, wpc, failures, owner, asked, locals>>

\* stop()'s _retire_process: what _proc holds is read, _proc is reset, and
\* what it held is ended, with the worker free to move in between.
StopReads(w) ==
    /\ io[w] = "halt"
    /\ leaving' = [leaving EXCEPT ![w] = proc[w]]
    /\ io' = [io EXCEPT ![w] = "clear"]
    /\ UNCHANGED <<peerVars, reply, conn, pending, client, todo, lonely, turned,
                   slot, cur, hand, ready, stopped, dead, proc, wpc, failures, owner, asked, dying>>

StopClears(w) ==
    /\ io[w] = "clear"
    /\ proc' = [proc EXCEPT ![w] = NULL]
    /\ io' = [io EXCEPT ![w] = "ending"]
    /\ UNCHANGED <<peerVars, reply, conn, pending, client, todo, lonely, turned,
                   slot, cur, hand, ready, stopped, dead, wpc, failures, owner, asked, locals>>

StopEnds(w) ==
    /\ io[w] = "ending"
    /\ EndProcess(leaving[w])
    /\ leaving' = [leaving EXCEPT ![w] = NULL]
    /\ io' = [io EXCEPT ![w] = "join"]
    /\ UNCHANGED <<peerVars, reply, conn, pending, client, todo, lonely, turned,
                   slot, cur, hand, ready, stopped, dead, proc, wpc, failures, asked, dying>>

\* Mutant: stop() does not drain the queue.
StopLeavesSlot(w) ==
    /\ io[w] = "join"
    /\ io' = [io EXCEPT ![w] = "closing"]
    /\ slot' = [slot EXCEPT ![w] = NULL]
    /\ UNCHANGED <<peerVars, reply, conn, pending, client, todo, lonely, turned,
                   cur, hand, ready, stopped, dead, proc, wpc, failures, owner, asked, locals>>

\* The thread has ended or two seconds are over; a queued request is told.
StopDrains(w) ==
    /\ io[w] = "join"
    /\ io' = [io EXCEPT ![w] = "closing"]
    /\ slot' = [slot EXCEPT ![w] = NULL]
    /\ IF slot[w] = NULL THEN UNCHANGED <<reply, conn>>
                         ELSE Answer(slot[w], "shutting_down") /\ Close({slot[w]})
    /\ UNCHANGED <<peerVars, pending, client, todo, lonely, turned,
                   cur, hand, ready, stopped, dead, proc, wpc, failures, owner, asked, locals>>

\* The process ends, with its threads.
Ends(w) ==
    /\ ProcessEnds(w)
    /\ slot' = [slot EXCEPT ![w] = NULL]
    /\ cur' = [cur EXCEPT ![w] = NULL]
    /\ hand' = [hand EXCEPT ![w] = NULL]
    /\ ready' = [ready EXCEPT ![w] = FALSE]
    /\ proc' = [proc EXCEPT ![w] = NULL]
    /\ wpc' = [wpc EXCEPT ![w] = "over"]
    /\ dying' = [dying EXCEPT ![w] = NULL]
    /\ leaving' = [leaving EXCEPT ![w] = NULL]
    /\ UNCHANGED <<stopped, dead, failures, owner, asked>>

Exit(w) == io[w] = "exiting" /\ Ends(w)

Killed(w) == io[w] \notin {"exiting", "exited"} /\ Ends(w)

-----------------------------------------------------------------------------
(* The system *)

\* What the wrapper's main thread does by itself.
Main(w) ==
    \/ (Serve(w) \/ PushFails(w)) /\ UNCHANGED judgeVars
    \/ \E c \in Judged : Refuse(w, c) \/ PutRequest(w, c)
    \/ Claim(w)
    \/ StopReads(w)
    \/ StopClears(w)
    \/ StopEnds(w)
    \/ StopDrains(w)
    \/ Exit(w)

Worker(w) ==
    \/ LoopHead(w)
    \/ LookAtProcess(w)
    \/ Spawn(w)
    \/ SpawnFails(w)
    \/ SpawnRaises(w)
    \/ WarmupDone(w)
    \/ WarmupFails(w)
    \/ EndUnwarmed(w)
    \/ SetReady(w)
    \/ GetTimesOut(w)
    \/ GetRequest(w)
    \/ AskProcess(w)
    \/ ReplyAndClose(w)
    \/ RetireServed(w)
    \/ EndServed(w)

Peer(c) == (Connect(c) \/ Write(c) \/ Say(c) \/ Leave(c)) /\ UNCHANGED judgeVars

Next ==
    \/ \E w \in Wrappers :
          \/ Main(w)
          \/ Worker(w)
          \/ EnsureStarted(w)
          \/ StopJudge(w)
          \/ Killed(w)
    \/ \E c \in Conns : Peer(c)
    \/ \E p \in Procs : ProcessDies(p)

\* Threads run, and a hook that has connected says what it has to say and
\* leaves (its own timeout sees to it).  Nothing makes a process connect,
\* leave or die, or the wrapper stop.
Fairness ==
    /\ \A w \in Wrappers : WF_vars(Main(w)) /\ WF_vars(Worker(w))
    /\ \A c \in Conns : WF_vars(Write(c) /\ UNCHANGED judgeVars)
    /\ \A c \in Hooks : WF_vars(Leave(c) /\ UNCHANGED judgeVars)

Spec == Init /\ [][Next]_vars /\ Fairness

-----------------------------------------------------------------------------
(* Safety *)

Open(w) == {c \in Conns : HomeOf[c] = w /\ conn[c] = "open"}

\* A connection is handed from the I/O thread to the worker thread by two
\* statements, in two modules, that the worker can overtake.  At any time
\* an open connection of the wrapper belongs to exactly one of: the pending
\* ones, the resident slot, the judge's queue, the judge's worker; and none
\* of them holds one that is closed (the one being handed over excepted).
SocketHasOneOwner ==
    \A w \in Wrappers :
        LET waiting == pending[w] \ {hand[w]}
            held == {client[w], slot[w], cur[w]} \ {NULL} IN
        /\ waiting \cup held = Open(w)
        /\ waiting \cap held = {}
        /\ slot[w] # NULL => slot[w] # cur[w]

\* A request is accepted only for a process that is warm and has not judged
\* yet: outside the hand-over, a judge that says it is ready is idle, with
\* its queue empty, so that nothing is ever queued behind a judgment (the
\* reason for the queue's single slot, and why "busy" is never answered).
ReadyMeansIdle ==
    \A w \in Wrappers :
        (ready[w] /\ ~stopped[w] /\ io[w] # "claim") =>
            /\ slot[w] = NULL /\ cur[w] = NULL
            /\ proc[w] # NULL /\ asked[proc[w]] = 0
            /\ wpc[w] \in {"head", "look", "get"}

\* "serve exactly ONE judgment": every judgment gets a clean context,
\* whatever stop() and the worker do to the process at the same time.
OneJudgmentPerProcess == \A p \in Procs : asked[p] <= 1

\* _sweep_junk_transcripts empties the judge's directory "right before each
\* spawn (no live process exists at that moment)": of the wrapper's own
\* processes, none is left behind by a failed warmup, a judgment or a
\* worker that ended; the one that may still run is the one stop() is about
\* to terminate, whose worker had passed the loop's test before.
SweepSparesOwnJudge ==
    \A w \in Wrappers : wpc[w] = "spawn" => \A p \in Procs : owner[p] = w => p = leaving[w]

-----------------------------------------------------------------------------
(* The judge as a service *)

Handed(c) == c \in Judged /\ \E w \in Wrappers : c \in {slot[w], cur[w]}

Service == INSTANCE JudgeService WITH
    Judges <- Wrappers,
    Requests <- Judged,
    JudgeOf <- HomeOf,
    warm <- [w \in Wrappers |-> Available(w) /\ io[w] # "claim"],
    phase <- [c \in Judged |-> IF conn[c] = "closed" THEN "over"
                               ELSE IF Handed(c) THEN "accepted" ELSE "new"]

\* Whatever the two threads, the hooks' timeouts and the wrapper's end do,
\* the judge is a service that judges one request at a time and warms up in
\* between.
JudgeIsAService == Service!Spec

-----------------------------------------------------------------------------
(* Liveness *)

\* "the new owner must eventually send its reply and close the socket": a
\* hook's connection, once accepted, is closed, whether it was acked, turned
\* away, judged, drained by stop() or never said a word.
HookIsReleased == \A c \in Hooks : conn[c] = "open" ~> conn[c] = "closed"

=============================================================================
