------------------------- MODULE SummaryQueueProofs -------------------------
(***************************************************************************)
(* Theorems of SummaryQueue, for any wrappers, conversations and bounds.   *)
(***************************************************************************)
EXTENDS SummaryQueue, FiniteSetTheorems, TLAPS

\* A queue file is written once, under a number of its own.
FilesAgree ==
    /\ \A i \in Files : task[i] = NULL <=> status[i] = "none"
    /\ \A i \in Files : i >= nextFile => task[i] = NULL
    /\ \A p \in Callers : draft[p] # 0 =>
          call[p] # <<>> /\ draft[p] < nextFile /\ task[draft[p]] = NULL
    /\ \A p, q \in Callers : draft[p] = draft[q] /\ draft[p] # 0 => p = q
    /\ \A p \in Callers : worker[p[1]].pc = "off" => call[p] = <<>>

\* A worker holds a task and perhaps a check of the same session, both
\* claimed (or swept since), while it works and no longer.
ClaimsAgree ==
    \A w \in Wrappers :
        /\ worker[w].cur # 0 <=> worker[w].pc \in {"list", "ride", "read", "ask", "finish"}
        /\ worker[w].cur # 0 => ~IsCheck(worker[w].cur)
        /\ \A i \in Held(w) : status[i] \in {"claimed", "gone"}
        /\ worker[w].pc = "ride" =>
              \A i \in worker[w].checks : IsCheck(i) /\ Session(i) = Session(worker[w].cur)
        /\ worker[w].ride # 0 =>
              /\ worker[w].pc \in {"read", "ask", "finish"}
              /\ IsCheck(worker[w].ride)
              /\ Session(worker[w].ride) = Session(worker[w].cur)
        /\ worker[w].failed => worker[w].pc = "finish"

\* The check of a worker that has not saved: it may go back to the queue.
Unsaved(w, i) == worker[w].ride = i /\ (worker[w].pc # "finish" \/ worker[w].failed)

\* Checks of a session that are out of the queue for good.
Spent(s) ==
    {i \in Files : /\ IsCheck(i) /\ Session(i) = s /\ ~Pending(i)
                   /\ \A w \in Wrappers : ~Unsaved(w, i)}

ScoreIsSpent == \A s \in Sessions : score[s] <= Cardinality(Spent(s))

IInv ==
    /\ TypeOK
    /\ FilesAgree
    /\ ClaimsAgree
    /\ OneWorkerPerFile
    /\ ScoreIsSpent

\* A request of a handler, whichever it is.
Requests(p) == \E tasks \in Seq(Tasks) : Request(p, tasks)

-----------------------------------------------------------------------------
(* Types *)

\* Tasks are typed.
LEMMA TaskType ==
    ASSUME NEW c \in Convs, NEW kind \in Kinds
    PROVE  /\ SummaryTask(c, kind) \in Tasks
           /\ [SummaryTask(c, kind) EXCEPT !.fromReject = TRUE] \in Tasks
           /\ \A t \in Topics : [SummaryTask(c, kind) EXCEPT !.topic = t] \in Tasks
BY DEF SummaryTask, Tasks

\* Every handler's request is a list of tasks.
LEMMA RequestsAreTasks ==
    ASSUME NEW w \in Wrappers,
           EnqueueDeparted(w) \/ EnqueueActive(w) \/ CheckSummaryRefresh(w)
             \/ (w \in Servers /\ RejectSwitch(w))
    PROVE  \E p \in Callers : Requests(p)
<1>1. <<w, "wrapper">> \in Callers /\ (w \in Servers => <<w, "server">> \in Callers)
  BY DEF Callers
<1>2. CASE EnqueueDeparted(w)
  <2>1. PICK c \in Convs : Request(<<w, "wrapper">>, <<SummaryTask(c, "departed")>>)
    BY <1>2 DEF EnqueueDeparted
  <2>2. SummaryTask(c, "departed") \in Tasks
    BY TaskType DEF Kinds
  <2>3. <<SummaryTask(c, "departed")>> \in Seq(Tasks)
    BY <2>2
  <2> QED
    BY <1>1, <2>1, <2>3 DEF Requests
<1>3. CASE EnqueueActive(w) \/ CheckSummaryRefresh(w)
  <2>1. PICK c \in Convs : Request(<<w, "wrapper">>, <<SummaryTask(c, "active")>>)
    BY <1>3 DEF EnqueueActive, CheckSummaryRefresh
  <2>2. SummaryTask(c, "active") \in Tasks
    BY TaskType DEF Kinds
  <2>3. <<SummaryTask(c, "active")>> \in Seq(Tasks)
    BY <2>2
  <2> QED
    BY <1>1, <2>1, <2>3 DEF Requests
<1>4. CASE w \in Servers /\ RejectSwitch(w)
  <2>1. PICK c \in Convs, t \in Topics :
            Request(<<w, "server">>,
                    <<[SummaryTask(c, "active") EXCEPT !.fromReject = TRUE],
                      [SummaryTask(c, "rooting_check") EXCEPT !.topic = t]>>)
    BY <1>4 DEF RejectSwitch
  <2>2. /\ [SummaryTask(c, "active") EXCEPT !.fromReject = TRUE] \in Tasks
        /\ [SummaryTask(c, "rooting_check") EXCEPT !.topic = t] \in Tasks
    BY TaskType DEF Kinds
  <2>3. <<[SummaryTask(c, "active") EXCEPT !.fromReject = TRUE],
          [SummaryTask(c, "rooting_check") EXCEPT !.topic = t]>> \in Seq(Tasks)
    BY <2>2
  <2> QED
    BY <1>1, <1>4, <2>1, <2>3 DEF Requests
<1> QED
  BY <1>2, <1>3, <1>4

\* The initial states are well typed.
LEMMA InitType == Init => TypeOK
BY QueueAssumption
   DEF Init, TypeOK, Statuses, Workers, MaxAttempts, IdleWorker, Files, Sessions

\* What becomes of a worker's locals is typed.
LEMMA WorkerType ==
    ASSUME TypeOK, NEW w \in Wrappers
    PROVE  /\ worker[w] \in Workers
           /\ AfterFailure(worker[w]) \in Workers
           /\ \A step \in {"off", "wait", "take"} : IdleWorker(step) \in Workers
<1>1. worker[w] \in Workers
  BY DEF TypeOK
<1>2. AfterFailure(worker[w]) \in Workers
  <2> DEFINE r == worker[w]
  <2>1. r.attempt < MaxAttempts => r.attempt + 1 \in 1..MaxAttempts
    BY <1>1 DEF Workers, MaxAttempts
  <2>2. ASSUME NEW n \in 1..MaxAttempts PROVE [r EXCEPT !.pc = "read", !.attempt = n] \in Workers
    BY <1>1 DEF Workers
  <2>3. [r EXCEPT !.pc = "finish", !.failed = TRUE] \in Workers
    BY <1>1 DEF Workers
  <2> HIDE DEF r
  <2> QED
    BY <2>1, <2>2, <2>3 DEF AfterFailure, r
<1>3. \A step \in {"off", "wait", "take"} : IdleWorker(step) \in Workers
  BY QueueAssumption DEF Workers, IdleWorker, MaxAttempts
<1> QED
  BY <1>1, <1>2, <1>3

\* Enqueueing keeps the types.
LEMMA EnqueueType ==
    ASSUME TypeOK, FilesAgree, NEW p \in Callers, EnqueueStep(p) \/ Requests(p)
    PROVE  TypeOK'
<1> USE DEF TypeOK, queueVars, callVars, storeVars
<1>1. CASE Requests(p)
  BY <1>1 DEF Requests, Request
<1>2. ASSUME Enqueued(p), call[p] # <<>>
      PROVE  call' \in [Callers -> Seq(Tasks)] /\ wakeup' \in [Wrappers -> BOOLEAN]
  <2>1. Tail(call[p]) \in Seq(Tasks)
    BY <1>2
  <2>2. call' \in [Callers -> Seq(Tasks)]
    BY <1>2, <2>1 DEF Enqueued
  <2>3. wakeup' \in [Wrappers -> BOOLEAN]
    BY <1>2 DEF Enqueued
  <2> QED
    BY <2>2, <2>3
<1>3. CASE SkipDuplicate(p)
  BY <1>2, <1>3 DEF SkipDuplicate
<1>4. CASE FindNoDuplicate(p)
  BY <1>4, QueueAssumption DEF FindNoDuplicate
<1>5. CASE WriteFile(p)
  <2>1. Head(call[p]) \in Tasks
    BY <1>5 DEF WriteFile, FilesAgree
  <2>2. task' \in [Files -> Tasks \cup {NULL}]
    BY <1>5, <2>1 DEF WriteFile
  <2>3. status' \in [Files -> Statuses]
    BY <1>5 DEF WriteFile, Statuses
  <2>4. draft' \in [Callers -> 0..MaxFiles]
    BY <1>5, QueueAssumption DEF WriteFile
  <2> QED
    BY <1>2, <1>5, <2>2, <2>3, <2>4 DEF WriteFile, FilesAgree
<1> QED
  BY <1>1, <1>3, <1>4, <1>5 DEF EnqueueStep

\* So does the worker.
LEMMA WorkerStepType ==
    ASSUME TypeOK, FilesAgree, ClaimsAgree, NEW w \in Wrappers, WorkerStep(w)
    PROVE  TypeOK'
<1> USE QueueAssumption DEF TypeOK, Quiet, queueVars, callVars, storeVars
<1>0. worker[w] \in Workers /\ AfterFailure(worker[w]) \in Workers
        /\ \A step \in {"off", "wait", "take"} : IdleWorker(step) \in Workers
  BY WorkerType
<1>1. CASE Scan(w)
  BY <1>0, <1>1 DEF Scan, Workers
<1>2. CASE SkipTask(w)
  <2>1. PICK i : worker' = [worker EXCEPT ![w].todo = @ \ {i}]
    BY <1>2 DEF SkipTask
  <2>2. [worker[w] EXCEPT !.todo = @ \ {i}] \in Workers
    BY <1>0 DEF Workers
  <2> QED
    BY <1>2, <2>1, <2>2 DEF SkipTask
<1>3. CASE TakeTask(w)
  <2>1. PICK i \in worker[w].todo :
           /\ Claim(i)
           /\ worker' = [worker EXCEPT ![w].cur = i,
                                       ![w].pc = IF Rides(task[i]) THEN "list" ELSE "read"]
    BY <1>3 DEF TakeTask, Oldest
  <2>2. i \in Files
    BY <1>0 DEF Workers
  <2>3. [worker[w] EXCEPT !.cur = i, !.pc = IF Rides(task[i]) THEN "list" ELSE "read"] \in Workers
    <3>1. i \in 0..MaxFiles
      BY <2>2 DEF Files
    <3>2. (IF Rides(task[i]) THEN "list" ELSE "read") \in {"list", "read"}
      OBVIOUS
    <3> QED
      BY <1>0, <3>1, <3>2 DEF Workers
  <2>4. status' \in [Files -> Statuses]
    BY <2>1 DEF Claim, Statuses
  <2> QED
    BY <1>3, <2>1, <2>3, <2>4 DEF TakeTask
<1>4. CASE ListChecks(w)
  BY <1>0, <1>4 DEF ListChecks, Workers
<1>5. CASE ClaimCheck(w)
  <2>1. CASE worker' = [worker EXCEPT ![w].pc = "read"] /\ UNCHANGED status
    BY <1>0, <1>5, <2>1 DEF ClaimCheck, Workers
  <2>2. ASSUME NEW i \in worker[w].checks, Claim(i),
               worker' = [worker EXCEPT ![w].pc = "read", ![w].ride = i]
        PROVE  TypeOK'
    <3>1. [worker[w] EXCEPT !.pc = "read", !.ride = i] \in Workers
      <4>1. i \in Files /\ i \in 0..MaxFiles
        BY <1>0 DEF Workers, Files
      <4> QED
        BY <1>0, <4>1 DEF Workers
    <3>2. status' \in [Files -> Statuses]
      BY <2>2 DEF Claim, Statuses
    <3> QED
      BY <1>5, <2>2, <3>1, <3>2 DEF ClaimCheck
  <2> QED
    BY <1>5, <2>1, <2>2 DEF ClaimCheck, Oldest
<1>6. CASE ReadExcerpt(w)
  BY <1>0, <1>6 DEF ReadExcerpt, Workers
<1>7. CASE AskFails(w)
  BY <1>0, <1>7 DEF AskFails
<1>8. CASE Save(w)
  <2>1. PICK rooted \in BOOLEAN :
           LET c == task[worker[w].cur].conv
               s == SessionOf[c]
           IN  /\ score' = [score EXCEPT ![s] = IF rooted THEN @ + 1 ELSE @]
               /\ baseline' = [baseline EXCEPT ![s] =
                      [conv |-> c, chars |-> MeasuredBaseline(w, c)]]
               /\ stale' = [stale EXCEPT ![s] = FALSE]
    BY <1>8 DEF Save
  <2>2. worker[w].pc = "ask" /\ worker[w].cur \in 0..MaxFiles
    BY <1>0, <1>8 DEF Save, Workers
  <2>a. worker[w].cur # 0
    BY <2>2 DEF ClaimsAgree
  <2>b. worker[w].cur \in Files /\ worker[w].cur \in Held(w)
    BY <2>2, <2>a DEF Held, Files
  <2>3. task[worker[w].cur] \in Tasks
    BY <2>b DEF ClaimsAgree, FilesAgree
  <2>4. task[worker[w].cur].conv \in Convs
    BY <2>3 DEF Tasks
  <2>5. /\ score' \in [Sessions -> Nat]
        /\ stale' \in [Sessions -> BOOLEAN]
    <3>1. stale' \in [Sessions -> BOOLEAN]
      BY <2>1
    <3>2. \A s \in Sessions : score[s] + 1 \in Nat
      OBVIOUS
    <3>3. score' \in [Sessions -> Nat]
      BY <2>1, <3>2
    <3> QED
      BY <3>1, <3>3
  <2>6. baseline' \in [Sessions -> [conv : Convs \cup {NULL}, chars : 0..MaxTalk]]
    BY <2>1, <2>4 DEF MeasuredBaseline
  <2>7. worker' \in [Wrappers -> Workers]
    BY <1>0, <1>8 DEF Save, Workers
  <2> QED
    BY <1>8, <2>5, <2>6, <2>7 DEF Save
<1>9. CASE Finish(w)
  <2>1. status' \in [Files -> Statuses]
    BY <1>9 DEF Finish, FileAfter, RideAfter, Statuses
  <2>2. [IdleWorker("take") EXCEPT !.todo = worker[w].todo \ {worker[w].cur}] \in Workers
    BY <1>0 DEF Workers
  <2> QED
    BY <1>9, <2>1, <2>2 DEF Finish
<1>10. CASE PassRaises(w)
  BY <1>0, <1>10 DEF PassRaises
<1>11. CASE EndPass(w)
  BY <1>0, <1>11 DEF EndPass, Workers
<1>12. CASE Woken(w) \/ PollExpires(w)
  <2>1. [worker[w] EXCEPT !.pc = "scan"] \in Workers
    BY <1>0 DEF Workers
  <2>2. LeaveWait(w)
    BY <1>12 DEF Woken, PollExpires
  <2> QED
    BY <2>1, <2>2 DEF LeaveWait
<1>13. CASE StartWorker(w)
  BY <1>0, <1>13 DEF StartWorker, Workers
<1> QED
  BY <1>1, <1>2, <1>3, <1>4, <1>5, <1>6, <1>7, <1>8, <1>9, <1>10, <1>11, <1>12, <1>13
     DEF WorkerStep

\* So do starts, ends and talk.
LEMMA RestType ==
    ASSUME TypeOK,
           (\E w \in Wrappers : Boot(w) \/ Exit(w)) \/ (\E c \in Convs : Talk(c))
    PROVE  TypeOK'
<1> USE QueueAssumption DEF TypeOK, queueVars, callVars, storeVars
<1>1. ASSUME NEW w \in Wrappers, Boot(w) PROVE TypeOK'
  <2>1. status' \in [Files -> Statuses]
    BY <1>1 DEF Boot, Statuses
  <2>2. worker' \in [Wrappers -> Workers]
    <3>1. [worker[w] EXCEPT !.pc = "boot"] \in Workers
      BY WorkerType DEF Workers
    <3> QED
      BY <1>1, <3>1 DEF Boot
  <2>3. call' \in [Callers -> Seq(Tasks)]
    <3>1. PICK convs \in Bijection(1..Cardinality(StaleConvs), StaleConvs) :
             call' = [call EXCEPT ![<<w, "wrapper">>] =
                 [k \in 1..Cardinality(StaleConvs) |-> SummaryTask(convs[k], "departed")]]
      BY <1>1 DEF Boot
    <3>2. convs \in [1..Cardinality(StaleConvs) -> StaleConvs]
      BY DEF Bijection, Injection
    <3>3. \A k \in 1..Cardinality(StaleConvs) : SummaryTask(convs[k], "departed") \in Tasks
      BY <3>2, TaskType DEF StaleConvs, Kinds
    <3>4. Cardinality(StaleConvs) \in Nat
      BY QueueAssumption, FS_Subset, FS_CardinalityType DEF StaleConvs
    <3> DEFINE T(k) == SummaryTask(convs[k], "departed")
               n == Cardinality(StaleConvs)
    <3>5. [k \in 1..n |-> T(k)] \in Seq(Tasks)
      <4> HIDE DEF T, n
      <4>1. n \in Nat /\ \A k \in 1..n : T(k) \in Tasks
        BY <3>3, <3>4 DEF T, n
      <4> QED
        BY <4>1
    <3> QED
      BY <3>1, <3>5
  <2> QED
    BY <1>1, <2>1, <2>2, <2>3 DEF Boot
<1>2. ASSUME NEW w \in Wrappers, Exit(w) PROVE TypeOK'
  <2>1. call' \in [Callers -> Seq(Tasks)] /\ draft' \in [Callers -> 0..MaxFiles]
    BY <1>2 DEF Exit
  <2> QED
    BY <1>2, <2>1, WorkerType DEF Exit
<1>3. ASSUME NEW c \in Convs, Talk(c) PROVE TypeOK'
  <2>1. dialogue' \in [Convs -> 0..MaxTalk]
    BY <1>3 DEF Talk
  <2> QED
    BY <1>3, <2>1 DEF Talk
<1> QED
  BY <1>1, <1>2, <1>3

-----------------------------------------------------------------------------
(* Files and claims *)

\* What a worker's step may do to the queue: it claims a pending file or
\* lets go of one it holds.
LEMMA WorkerMoves ==
    ASSUME TypeOK, FilesAgree, ClaimsAgree, NEW w \in Wrappers, WorkerStep(w)
    PROVE  /\ UNCHANGED <<task, nextFile, call, draft>>
           /\ worker'[w].pc # "off" /\ \A v \in Wrappers \ {w} : worker'[v] = worker[v]
           /\ \A i \in Files :
                 /\ status'[i] = "none" <=> status[i] = "none"
                 /\ status'[i] # status[i] =>
                       \/ status[i] = "pending" /\ status'[i] = "claimed"
                       \/ i \in Held(w)
                 /\ i \in Held(w)' => i \in Held(w) \/ status[i] = "pending"
<1> USE DEF TypeOK, Quiet, queueVars, callVars, storeVars, Held, Statuses, Workers, Files
<1>1. CASE Scan(w)
  BY <1>1 DEF Scan
<1>2. CASE SkipTask(w)
  BY <1>2 DEF SkipTask
<1>3. CASE TakeTask(w)
  BY <1>3 DEF TakeTask, Oldest, Claim, Claimable, Pending
<1>4. CASE ListChecks(w)
  BY <1>4 DEF ListChecks
<1>5. CASE ClaimCheck(w)
  <2>1. worker[w].pc = "ride" /\ UNCHANGED <<task, nextFile, call, draft>>
    BY <1>5 DEF ClaimCheck
  <2>2. CASE worker' = [worker EXCEPT ![w].pc = "read"] /\ UNCHANGED status
    BY <2>1, <2>2
  <2>3. ASSUME NEW i \in worker[w].checks, status[i] = "pending",
               status' = [status EXCEPT ![i] = "claimed"],
               worker' = [worker EXCEPT ![w].pc = "read", ![w].ride = i]
        PROVE  /\ \A v \in Wrappers \ {w} : worker'[v] = worker[v]
               /\ worker'[w].pc # "off"
               /\ \A j \in Files :
                     /\ status'[j] = "none" <=> status[j] = "none"
                     /\ status'[j] # status[j] =>
                           \/ status[j] = "pending" /\ status'[j] = "claimed"
                           \/ j \in Held(w)
                     /\ j \in Held(w)' => j \in Held(w) \/ status[j] = "pending"
    <3>1. i \in Files /\ worker[w] \in Workers
      OBVIOUS
    <3>2. worker'[w] = [worker[w] EXCEPT !.pc = "read", !.ride = i]
      BY <2>3
    <3>3. worker'[w].pc = "read" /\ worker'[w].ride = i /\ worker'[w].cur = worker[w].cur
            /\ worker'[w].failed = worker[w].failed
      BY <3>1, <3>2
    <3> QED
      BY <2>1, <2>3, <3>1, <3>3
  <2> QED
    BY <1>5, <2>2, <2>3 DEF ClaimCheck, Oldest, Claim, Claimable, Pending
<1>6. CASE ReadExcerpt(w)
  BY <1>6 DEF ReadExcerpt, AfterFailure, MaxAttempts
<1>7. CASE AskFails(w)
  BY <1>7 DEF AskFails, AfterFailure, MaxAttempts
<1>8. CASE Save(w)
  BY <1>8 DEF Save
<1>9. CASE Finish(w)
  <2>1. /\ worker' = [worker EXCEPT ![w] = [IdleWorker("take") EXCEPT
                                                !.todo = worker[w].todo \ {worker[w].cur}]]
        /\ UNCHANGED <<task, nextFile, call, draft>>
    BY <1>9 DEF Finish
  <2>2. worker'[w].pc = "take" /\ worker'[w].cur = 0 /\ worker'[w].ride = 0
    BY <2>1 DEF IdleWorker
  <2>3. \A i \in Files : status'[i] = CASE i = worker[w].cur  -> FileAfter(w)
                                        [] i = worker[w].ride -> RideAfter(w)
                                        [] OTHER              -> status[i]
    BY <1>9 DEF Finish
  <2>4. \A i \in Files : status'[i] # status[i] => i \in Held(w)
    BY <2>3
  <2>5. \A i \in Files : i \in Held(w) => status[i] # "none" /\ status'[i] # "none"
    BY <2>3 DEF ClaimsAgree, FileAfter, RideAfter
  <2> QED
    BY <2>1, <2>2, <2>4, <2>5
<1>10. CASE PassRaises(w)
  BY <1>10 DEF PassRaises, IdleWorker
<1>11. CASE EndPass(w)
  BY <1>11 DEF EndPass
<1>12. CASE Woken(w) \/ PollExpires(w)
  <2>1. LeaveWait(w)
    BY <1>12 DEF Woken, PollExpires
  <2>2. /\ worker[w].pc = "wait" /\ UNCHANGED <<task, status, nextFile, call, draft>>
        /\ worker' = [worker EXCEPT ![w].pc = "scan"]
    BY <2>1 DEF LeaveWait
  <2> QED
    BY <2>2
<1>13. CASE StartWorker(w)
  BY <1>13 DEF StartWorker
<1> QED
  BY <1>1, <1>2, <1>3, <1>4, <1>5, <1>6, <1>7, <1>8, <1>9, <1>10, <1>11, <1>12, <1>13
     DEF WorkerStep

\* Files stay in agreement.
LEMMA WorkerFiles ==
    ASSUME TypeOK, FilesAgree, ClaimsAgree, NEW w \in Wrappers, WorkerStep(w)
    PROVE  FilesAgree'
<1>1. \A p \in Callers : p[1] \in Wrappers
  BY QueueAssumption DEF Callers
<1>2. \A p \in Callers : worker'[p[1]].pc = "off" => worker[p[1]].pc = "off"
  BY <1>1, WorkerMoves
<1> QED
  BY <1>2, WorkerMoves DEF FilesAgree

\* No file gets a second holder.
LEMMA WorkerHolds ==
    ASSUME TypeOK, FilesAgree, ClaimsAgree, OneWorkerPerFile, NEW w \in Wrappers, WorkerStep(w)
    PROVE  OneWorkerPerFile'
<1>1. \A v \in Wrappers : Held(v) \subseteq Files
  BY DEF TypeOK, Workers, Held, Files
<1>2. TypeOK'
  BY WorkerStepType
<1>3. \A v \in Wrappers : Held(v)' \subseteq Files
  BY <1>2 DEF TypeOK, Workers, Held, Files
<1>4. \A v \in Wrappers \ {w} : Held(v)' = Held(v)
  BY WorkerMoves DEF Held
<1>5. \A v \in Wrappers \ {w} : Held(v)' \cap Held(w)' = {}
  <2> SUFFICES ASSUME NEW v \in Wrappers \ {w}, NEW i \in Files, i \in Held(v), i \in Held(w)'
               PROVE  FALSE
    BY <1>3, <1>4
  <2>1. status[i] # "pending"
    BY DEF ClaimsAgree
  <2>2. i \in Held(w)
    BY <2>1, WorkerMoves
  <2> QED
    BY <2>2 DEF OneWorkerPerFile
<1> QED
  BY <1>4, <1>5 DEF OneWorkerPerFile

\* The claims of the worker that moves, and those of the others.
LEMMA WorkerClaims ==
    ASSUME TypeOK, FilesAgree, ClaimsAgree, OneWorkerPerFile, NEW w \in Wrappers, WorkerStep(w)
    PROVE  ClaimsAgree'
<1>1. SUFFICES ASSUME NEW v \in Wrappers
               PROVE  /\ worker'[v].cur # 0 <=>
                            worker'[v].pc \in {"list", "ride", "read", "ask", "finish"}
                      /\ worker'[v].cur # 0 => ~IsCheck(worker'[v].cur)
                      /\ \A i \in Held(v)' : status'[i] \in {"claimed", "gone"}
                      /\ worker'[v].pc = "ride" =>
                            \A i \in worker'[v].checks :
                                IsCheck(i) /\ Session(i) = Session(worker'[v].cur)
                      /\ worker'[v].ride # 0 =>
                            /\ worker'[v].pc \in {"read", "ask", "finish"}
                            /\ IsCheck(worker'[v].ride)
                            /\ Session(worker'[v].ride) = Session(worker'[v].cur)
                      /\ worker'[v].failed => worker'[v].pc = "finish"
  <2>1. task' = task
    BY WorkerMoves
  <2> QED
    BY <1>1, <2>1 DEF ClaimsAgree, IsCheck, Session
<1>2. CASE v # w
  <2>1. worker'[v] = worker[v] /\ Held(v)' = Held(v)
    BY <1>2, WorkerMoves DEF Held
  <2>2. Held(v) \subseteq Files
    BY DEF TypeOK, Workers, Held, Files
  <2>3. ASSUME NEW i \in Held(v) PROVE status'[i] = status[i]
    <3>1. status[i] # "pending" /\ i \notin Held(w)
      BY <1>2 DEF ClaimsAgree, OneWorkerPerFile
    <3> QED
      BY <2>2, <3>1, WorkerMoves
  <2> QED
    BY <2>1, <2>3 DEF ClaimsAgree
<1>3. CASE v = w
  <2> USE <1>3 DEF TypeOK, ClaimsAgree, Quiet, queueVars, callVars, storeVars, Held, Workers, Files
  <2>1. CASE Scan(w)
    BY <2>1 DEF Scan
  <2>2. CASE SkipTask(w)
    BY <2>2 DEF SkipTask
  <2>3. CASE TakeTask(w)
    BY <2>3 DEF TakeTask, Oldest, Claim, Claimable, Pending
  <2>4. CASE ListChecks(w)
    <3>1. /\ worker[w].pc = "list" /\ UNCHANGED <<task, status>>
          /\ worker' = [worker EXCEPT
               ![w].pc = "ride",
               ![w].checks = {i \in Files : /\ Pending(i) /\ IsCheck(i)
                                            /\ Session(i) = Session(worker[w].cur)}]
      BY <2>4 DEF ListChecks
    <3>2. worker'[w].pc = "ride" /\ worker'[w].cur = worker[w].cur /\ worker'[w].ride = worker[w].ride
            /\ worker'[w].failed = worker[w].failed
            /\ \A i \in worker'[w].checks : IsCheck(i) /\ Session(i) = Session(worker[w].cur)
      BY <3>1
    <3>3. \A j : (IsCheck(j)' <=> IsCheck(j)) /\ Session(j)' = Session(j)
      BY <3>1 DEF IsCheck, Session
    <3> QED
      BY <3>1, <3>2, <3>3
  <2>5. CASE ClaimCheck(w)
    <3>1. worker[w].pc = "ride" /\ UNCHANGED <<task, nextFile, call, draft>>
      BY <2>5 DEF ClaimCheck
    <3>2. CASE worker' = [worker EXCEPT ![w].pc = "read"] /\ UNCHANGED status
      BY <3>1, <3>2
    <3>3. ASSUME NEW i \in worker[w].checks, status[i] = "pending",
                 status' = [status EXCEPT ![i] = "claimed"],
                 worker' = [worker EXCEPT ![w].pc = "read", ![w].ride = i]
          PROVE  /\ worker'[v].cur # 0 /\ ~IsCheck(worker'[v].cur)
                   /\ \A j \in Held(v)' : status'[j] \in {"claimed", "gone"}
                   /\ IsCheck(worker'[v].ride)
                   /\ Session(worker'[v].ride) = Session(worker'[v].cur)
                   /\ worker'[v].pc = "read" /\ ~worker'[v].failed
      <4>1. i \in Files /\ worker[w] \in Workers
        OBVIOUS
      <4>2. worker'[w] = [worker[w] EXCEPT !.pc = "read", !.ride = i]
        BY <3>3
      <4>3. worker'[w].pc = "read" /\ worker'[w].ride = i /\ worker'[w].cur = worker[w].cur
              /\ worker'[w].failed = worker[w].failed
        BY <4>1, <4>2
      <4>4. /\ worker[w].cur # 0 /\ ~IsCheck(worker[w].cur) /\ ~worker[w].failed
            /\ IsCheck(i) /\ Session(i) = Session(worker[w].cur)
        BY <3>1
      <4>5. \A j : (IsCheck(j)' <=> IsCheck(j)) /\ Session(j)' = Session(j)
        BY <3>1 DEF IsCheck, Session
      <4>6. \A j \in Held(w)' : status'[j] \in {"claimed", "gone"}
        BY <3>3, <4>1, <4>3
      <4> QED
        BY <3>1, <4>3, <4>4, <4>5, <4>6
    <3> QED
      BY <2>5, <3>2, <3>3 DEF ClaimCheck, Oldest, Claim, Claimable, Pending
  <2>6. CASE ReadExcerpt(w)
    BY <2>6 DEF ReadExcerpt, AfterFailure, MaxAttempts
  <2>7. CASE AskFails(w)
    BY <2>7 DEF AskFails, AfterFailure, MaxAttempts
  <2>8. CASE Save(w)
    BY <2>8 DEF Save
  <2>9. CASE Finish(w)
    BY <2>9 DEF Finish, FileAfter, RideAfter, IdleWorker
  <2>10. CASE PassRaises(w)
    BY <2>10 DEF PassRaises, IdleWorker
  <2>11. CASE EndPass(w)
    <3>1. /\ worker[w].pc = "take" /\ UNCHANGED <<task, status>>
          /\ worker' = [worker EXCEPT ![w].pc = "wait"]
      BY <2>11 DEF EndPass
    <3> QED
      BY <3>1
  <2>12. CASE Woken(w) \/ PollExpires(w)
    <3>1. LeaveWait(w)
      BY <2>12 DEF Woken, PollExpires
    <3>2. /\ worker[w].pc = "wait" /\ UNCHANGED <<task, status, nextFile, call, draft>>
          /\ worker' = [worker EXCEPT ![w].pc = "scan"]
      BY <3>1 DEF LeaveWait
    <3> QED
      BY <3>2
  <2>13. CASE StartWorker(w)
    BY <2>13 DEF StartWorker
  <2> QED
    BY <2>1, <2>2, <2>3, <2>4, <2>5, <2>6, <2>7, <2>8, <2>9, <2>10, <2>11, <2>12, <2>13
       DEF WorkerStep
<1> QED
  BY <1>2, <1>3

\* What a handler does to the queue: it writes one new file, or none.
LEMMA EnqueueMoves ==
    ASSUME TypeOK, FilesAgree, NEW p \in Callers, EnqueueStep(p) \/ Requests(p)
    PROVE  /\ UNCHANGED <<worker, score>>
           /\ \A i \in Files : task[i] # NULL => task'[i] = task[i] /\ status'[i] = status[i]
           /\ \A i \in Files : status'[i] # status[i] => status'[i] = "pending"
<1> USE DEF queueVars, callVars, storeVars
<1>1. CASE Requests(p)
  BY <1>1 DEF Requests, Request
<1>2. CASE SkipDuplicate(p) \/ FindNoDuplicate(p)
  BY <1>2 DEF SkipDuplicate, FindNoDuplicate, Enqueued
<1>3. CASE WriteFile(p)
  BY <1>3 DEF WriteFile, FilesAgree, TypeOK
<1> QED
  BY <1>1, <1>2, <1>3 DEF EnqueueStep

\* Handlers keep the files in agreement.
LEMMA EnqueueFiles ==
    ASSUME TypeOK, FilesAgree, NEW p \in Callers, EnqueueStep(p) \/ Requests(p)
    PROVE  FilesAgree'
<1> USE QueueAssumption DEF TypeOK, FilesAgree, queueVars, callVars, storeVars
<1>1. CASE Requests(p)
  <2>1. PICK tasks \in Seq(Tasks) : Request(p, tasks)
    BY <1>1 DEF Requests
  <2>2. /\ worker[p[1]].pc # "off" /\ call[p] = <<>>
        /\ call' = [call EXCEPT ![p] = tasks]
        /\ UNCHANGED <<task, status, nextFile, draft, worker>>
    BY <2>1 DEF Request, Running
  <2> QED
    BY <2>2
<1>2. CASE SkipDuplicate(p)
  <2>1. /\ call[p] # <<>> /\ draft[p] = 0 /\ call' = [call EXCEPT ![p] = Tail(@)]
        /\ UNCHANGED <<task, status, nextFile, draft, worker>>
    BY <1>2 DEF SkipDuplicate, Enqueued
  <2> QED
    BY <2>1
<1>3. CASE FindNoDuplicate(p)
  <2>1. /\ call[p] # <<>> /\ nextFile <= MaxFiles
        /\ draft' = [draft EXCEPT ![p] = nextFile]
        /\ nextFile' = nextFile + 1
        /\ UNCHANGED <<task, status, call, worker>>
    BY <1>3 DEF FindNoDuplicate
  <2>2. nextFile \in Files /\ task[nextFile] = NULL
    BY <2>1 DEF Files
  <2>3. \A i \in Files : i >= nextFile' => task'[i] = NULL
    BY <2>1 DEF Files
  <2>4. \A q \in Callers : draft'[q] # 0 =>
           call'[q] # <<>> /\ draft'[q] < nextFile' /\ task'[draft'[q]] = NULL
    BY <2>1, <2>2
  <2>5. \A q \in Callers \ {p} : draft'[q] = draft[q] /\ (draft[q] # 0 => draft[q] < nextFile)
    BY <2>1
  <2>6. draft'[p] = nextFile
    BY <2>1
  <2>7. \A q, r \in Callers : draft'[q] = draft'[r] /\ draft'[q] # 0 => q = r
    <3>1. \A q \in Callers \ {p} : draft'[q] # 0 => draft'[q] # nextFile
      BY <2>5
    <3>2. \A q, r \in Callers \ {p} : draft'[q] = draft'[r] /\ draft'[q] # 0 => q = r
      BY <2>5
    <3> QED
      BY <2>6, <3>1, <3>2
  <2> QED
    BY <2>1, <2>3, <2>4, <2>7
<1>4. CASE WriteFile(p)
  <2>1. /\ draft[p] # 0
        /\ task' = [task EXCEPT ![draft[p]] = Head(call[p])]
        /\ status' = [status EXCEPT ![draft[p]] = "pending"]
        /\ draft' = [draft EXCEPT ![p] = 0]
        /\ call' = [call EXCEPT ![p] = Tail(@)]
        /\ UNCHANGED <<nextFile, worker>>
    BY <1>4 DEF WriteFile, Enqueued
  <2>2. draft[p] \in Files /\ draft[p] < nextFile /\ task[draft[p]] = NULL /\ call[p] # <<>>
    BY <2>1 DEF Files
  <2>3. Head(call[p]) \in Tasks /\ Head(call[p]) # NULL
    BY <2>2
  <2>4. \A i \in Files : task'[i] = NULL <=> status'[i] = "none"
    BY <2>1, <2>3
  <2>5. \A i \in Files : i >= nextFile => task'[i] = NULL
    BY <2>1, <2>2 DEF Files
  <2>6. \A q \in Callers : draft'[q] # 0 =>
           call'[q] # <<>> /\ draft'[q] < nextFile /\ task'[draft'[q]] = NULL
    BY <2>1, <2>2 DEF Files
  <2>7. \A q, r \in Callers : draft'[q] = draft'[r] /\ draft'[q] # 0 => q = r
    BY <2>1
  <2>8. \A q \in Callers : worker'[q[1]].pc = "off" => call'[q] = <<>>
    BY <2>1, <2>2
  <2> QED
    BY <2>1, <2>4, <2>5, <2>6, <2>7, <2>8
<1> QED
  BY <1>1, <1>2, <1>3, <1>4 DEF EnqueueStep

\* A file that has its content, and stays where it is or goes away, is as
\* good for its holder.
LEMMA OthersClaims ==
    ASSUME TypeOK, FilesAgree, ClaimsAgree, OneWorkerPerFile, UNCHANGED worker,
           \A i \in Files : task[i] # NULL =>
               task'[i] = task[i] /\ status'[i] \in {status[i], "gone"}
    PROVE  ClaimsAgree' /\ OneWorkerPerFile'
<1>1. \A w \in Wrappers : Held(w)' = Held(w) /\ Held(w) \subseteq Files
  BY DEF Held, TypeOK, Workers, Files
<1>2. OneWorkerPerFile'
  BY <1>1 DEF OneWorkerPerFile
<1>3. \A i \in Files : task[i] # NULL => (IsCheck(i)' <=> IsCheck(i)) /\ Session(i)' = Session(i)
  BY DEF IsCheck, Session
<1>4. ASSUME NEW w \in Wrappers, NEW i \in Held(w)
      PROVE  /\ i \in Files /\ task[i] # NULL /\ status'[i] \in {"claimed", "gone"}
             /\ (IsCheck(i)' <=> IsCheck(i)) /\ Session(i)' = Session(i)
  <2>1. i \in Files /\ status[i] \in {"claimed", "gone"}
    BY <1>1 DEF ClaimsAgree
  <2>2. task[i] # NULL
    BY <2>1 DEF FilesAgree
  <2> QED
    BY <1>3, <2>1, <2>2
<1>5. \A w \in Wrappers :
         /\ worker[w].cur # 0 => worker[w].cur \in Held(w)
         /\ worker[w].ride # 0 => worker[w].ride \in Held(w)
         /\ worker[w].checks \subseteq Files
  BY DEF Held, TypeOK, Workers
<1>6. \A w \in Wrappers : \A i \in worker[w].checks : IsCheck(i) =>
         IsCheck(i)' /\ Session(i)' = Session(i)
  BY <1>3, <1>5 DEF IsCheck
<1>7. SUFFICES ASSUME NEW w \in Wrappers
               PROVE  /\ worker[w].cur # 0 <=>
                            worker[w].pc \in {"list", "ride", "read", "ask", "finish"}
                      /\ worker[w].cur # 0 => ~IsCheck(worker[w].cur)'
                      /\ \A i \in Held(w) : status'[i] \in {"claimed", "gone"}
                      /\ worker[w].pc = "ride" =>
                            \A i \in worker[w].checks :
                                IsCheck(i)' /\ Session(i)' = Session(worker[w].cur)'
                      /\ worker[w].ride # 0 =>
                            /\ worker[w].pc \in {"read", "ask", "finish"}
                            /\ IsCheck(worker[w].ride)'
                            /\ Session(worker[w].ride)' = Session(worker[w].cur)'
                      /\ worker[w].failed => worker[w].pc = "finish"
  BY <1>1, <1>2 DEF ClaimsAgree, IsCheck, Session
<1> QED
  BY <1>4, <1>5, <1>6 DEF ClaimsAgree

\* Handlers keep the claims in agreement.
LEMMA EnqueueClaims ==
    ASSUME TypeOK, FilesAgree, ClaimsAgree, OneWorkerPerFile,
           NEW p \in Callers, EnqueueStep(p) \/ Requests(p)
    PROVE  ClaimsAgree' /\ OneWorkerPerFile'
BY EnqueueMoves, OthersClaims

\* A wrapper starts, ends, or somebody talks.
LEMMA RestInv ==
    ASSUME TypeOK, FilesAgree, ClaimsAgree, OneWorkerPerFile,
           (\E w \in Wrappers : Boot(w) \/ Exit(w)) \/ (\E c \in Convs : Talk(c))
    PROVE  FilesAgree' /\ ClaimsAgree' /\ OneWorkerPerFile'
<1> USE DEF queueVars, callVars, storeVars
<1>1. ASSUME NEW w \in Wrappers, Boot(w) PROVE FilesAgree' /\ ClaimsAgree' /\ OneWorkerPerFile'
  <2>1. /\ worker[w].pc = "off" /\ worker' = [worker EXCEPT ![w].pc = "boot"]
        /\ UNCHANGED <<task, nextFile, draft>>
        /\ \A p \in Callers \ {<<w, "wrapper">>} : call'[p] = call[p]
    BY <1>1 DEF Boot, TypeOK
  <2>2. \A i \in Files : /\ status'[i] \in {status[i], "gone"}
                         /\ status'[i] = "none" <=> status[i] = "none"
    BY <1>1 DEF Boot, TypeOK
  <2>3. worker[w].cur = 0 /\ worker[w].ride = 0 /\ ~worker[w].failed
    BY <2>1 DEF ClaimsAgree, TypeOK, Workers
  <2>4. worker'[w].cur = 0 /\ worker'[w].ride = 0 /\ ~worker'[w].failed /\ worker'[w].pc = "boot"
    BY <2>1, <2>3 DEF TypeOK, Workers
  <2>5. \A v \in Wrappers \ {w} : worker'[v] = worker[v]
    BY <2>1 DEF TypeOK
  <2>6. FilesAgree'
    <3>1. \A p \in Callers : p[1] \in Wrappers /\ (p[1] = w => draft[p] = 0)
      BY <2>1, QueueAssumption DEF Callers, FilesAgree
    <3>2. <<w, "wrapper">>[1] = w
      OBVIOUS
    <3>3. \A p \in Callers : draft'[p] # 0 => call'[p] = call[p]
      BY <2>1, <3>1, <3>2
    <3>4. \A p \in Callers : worker'[p[1]].pc = "off" => call'[p] = <<>>
      BY <2>1, <2>4, <2>5, <3>1, <3>2 DEF FilesAgree
    <3> QED
      BY <2>1, <2>2, <3>3, <3>4 DEF FilesAgree
  <2>7. \A v \in Wrappers : Held(v)' = Held(v) /\ Held(v) \subseteq Files
    <3>1. Held(w)' = {} /\ Held(w) = {}
      BY <2>3, <2>4 DEF Held
    <3>2. \A v \in Wrappers \ {w} : Held(v)' = Held(v)
      BY <2>5 DEF Held
    <3>3. \A v \in Wrappers : Held(v) \subseteq Files
      BY DEF Held, TypeOK, Workers, Files
    <3> QED
      BY <3>1, <3>2, <3>3
  <2>8. \A j : (IsCheck(j)' <=> IsCheck(j)) /\ Session(j)' = Session(j)
    BY <2>1 DEF IsCheck, Session
  <2>9. OneWorkerPerFile'
    BY <2>7 DEF OneWorkerPerFile
  <2>10. \A v \in Wrappers, i \in Files : i \in Held(v) => status'[i] \in {"claimed", "gone"}
    BY <2>2 DEF ClaimsAgree
  <2>11. ClaimsAgree'
    <3> SUFFICES ASSUME NEW v \in Wrappers
                 PROVE  /\ worker'[v].cur # 0 <=>
                              worker'[v].pc \in {"list", "ride", "read", "ask", "finish"}
                        /\ worker'[v].cur # 0 => ~IsCheck(worker[v].cur)'
                        /\ \A i \in Held(v)' : status'[i] \in {"claimed", "gone"}
                        /\ worker'[v].pc = "ride" =>
                              \A i \in worker'[v].checks :
                                  IsCheck(i)' /\ Session(i)' = Session(worker[v].cur)'
                        /\ worker'[v].ride # 0 =>
                              /\ worker'[v].pc \in {"read", "ask", "finish"}
                              /\ IsCheck(worker[v].ride)'
                              /\ Session(worker[v].ride)' = Session(worker[v].cur)'
                        /\ worker'[v].failed => worker'[v].pc = "finish"
      BY DEF ClaimsAgree, IsCheck, Session
    <3>1. CASE v = w
      BY <2>4, <2>7, <2>10, <3>1
    <3>2. CASE v # w
      BY <2>5, <2>7, <2>8, <2>10, <3>2 DEF ClaimsAgree
    <3> QED
      BY <3>1, <3>2
  <2> QED
    BY <2>6, <2>9, <2>11
<1>2. ASSUME NEW w \in Wrappers, Exit(w) PROVE FilesAgree' /\ ClaimsAgree' /\ OneWorkerPerFile'
  <2>1. /\ worker' = [worker EXCEPT ![w] = IdleWorker("off")]
        /\ call' = [p \in Callers |-> IF p[1] = w THEN <<>> ELSE call[p]]
        /\ draft' = [p \in Callers |-> IF p[1] = w THEN 0 ELSE draft[p]]
        /\ UNCHANGED <<task, status, nextFile>>
    BY <1>2 DEF Exit
  <2>2. /\ worker'[w].pc = "off" /\ worker'[w].cur = 0 /\ worker'[w].ride = 0 /\ ~worker'[w].failed
        /\ \A v \in Wrappers \ {w} : worker'[v] = worker[v]
    BY <2>1 DEF TypeOK, IdleWorker
  <2>3. FilesAgree'
    <3>1. \A p \in Callers : p[1] \in Wrappers
      BY QueueAssumption DEF Callers
    <3> QED
      BY <2>1, <2>2, <3>1 DEF FilesAgree
  <2>4. Held(w)' = {} /\ \A v \in Wrappers \ {w} : Held(v)' = Held(v)
    BY <2>2 DEF Held
  <2>5. OneWorkerPerFile'
    BY <2>4 DEF OneWorkerPerFile
  <2>6. ClaimsAgree'
    BY <2>1, <2>2, <2>4 DEF ClaimsAgree, IsCheck, Session
  <2> QED
    BY <2>3, <2>5, <2>6
<1>3. ASSUME NEW c \in Convs, Talk(c) PROVE FilesAgree' /\ ClaimsAgree' /\ OneWorkerPerFile'
  <2>1. UNCHANGED <<task, status, nextFile, call, draft, worker>>
    BY <1>3 DEF Talk
  <2>2. FilesAgree'
    BY <2>1 DEF FilesAgree
  <2> QED
    BY <2>1, <2>2, OthersClaims
<1> QED
  BY <1>1, <1>2, <1>3

-----------------------------------------------------------------------------
(* The score *)

\* The check a worker carries is one of the files, and no other carries it.
LEMMA RideIsAFile ==
    ASSUME TypeOK, NEW w \in Wrappers, worker[w].ride # 0
    PROVE  worker[w].ride \in Files /\ worker[w].ride \in Held(w)
BY DEF TypeOK, Workers, Files, Held

\* A check that is spent stays so, whatever a worker does.
LEMMA WorkerSpends ==
    ASSUME TypeOK, FilesAgree, ClaimsAgree, NEW w \in Wrappers, WorkerStep(w),
           NEW s, NEW i \in Spent(s)
    PROVE  i \in Spent(s)'
<1>1. i \in Files /\ i # 0 /\ IsCheck(i) /\ Session(i) = s /\ status[i] # "pending"
        /\ \A v \in Wrappers : ~Unsaved(v, i)
  BY DEF Spent, Pending, Files
<1>2. IsCheck(i)' /\ Session(i)' = s
  BY <1>1, WorkerMoves DEF IsCheck, Session
<1>3. \A v \in Wrappers \ {w} : ~Unsaved(v, i)'
  BY <1>1, WorkerMoves DEF Unsaved
<1>4. worker[w].cur # i
  BY <1>1 DEF ClaimsAgree
<1>5. SUFFICES status'[i] # "pending" /\ ~Unsaved(w, i)'
  BY <1>1, <1>2, <1>3 DEF Spent, Pending
<1>6. worker[w].ride = i => worker[w].pc = "finish" /\ ~worker[w].failed
  BY <1>1 DEF Unsaved
<1> USE <1>1, <1>4, <1>6 DEF TypeOK, Workers, Quiet, queueVars, callVars, storeVars, Unsaved
<1>8. CASE Scan(w)
  BY <1>8 DEF Scan
<1>9. CASE SkipTask(w)
  BY <1>9 DEF SkipTask
<1>10. CASE TakeTask(w)
  BY <1>10 DEF TakeTask, Oldest, Claim, Claimable, Pending
<1>11. CASE ListChecks(w)
  BY <1>11 DEF ListChecks
<1>12. CASE ClaimCheck(w)
  <2>1. worker[w].pc = "ride"
    BY <1>12 DEF ClaimCheck
  <2>2. CASE worker' = [worker EXCEPT ![w].pc = "read"] /\ UNCHANGED status
    BY <2>1, <2>2
  <2>3. ASSUME NEW j \in worker[w].checks, status[j] = "pending",
               status' = [status EXCEPT ![j] = "claimed"],
               worker' = [worker EXCEPT ![w].pc = "read", ![w].ride = j]
        PROVE  status'[i] # "pending" /\ ~Unsaved(w, i)'
    <3>1. worker'[w].ride = j /\ j # i
      BY <2>3
    <3> QED
      BY <2>3, <3>1
  <2> QED
    BY <1>12, <2>2, <2>3 DEF ClaimCheck, Oldest, Claim, Claimable, Pending
<1>13. CASE ReadExcerpt(w)
  BY <1>13 DEF ReadExcerpt, AfterFailure, MaxAttempts
<1>14. CASE AskFails(w)
  BY <1>14 DEF AskFails, AfterFailure, MaxAttempts
<1>15. CASE Save(w)
  BY <1>15 DEF Save
<1>16. CASE Finish(w)
  BY <1>16 DEF Finish, FileAfter, RideAfter, IdleWorker
<1>17. CASE PassRaises(w)
  BY <1>17 DEF PassRaises, IdleWorker
<1>18. CASE EndPass(w)
  <2>1. /\ worker[w].pc = "take" /\ UNCHANGED <<task, status>>
        /\ worker' = [worker EXCEPT ![w].pc = "wait"]
    BY <1>18 DEF EndPass
  <2> QED
    BY <2>1
<1>19. CASE Woken(w) \/ PollExpires(w)
  <2>1. LeaveWait(w)
    BY <1>19 DEF Woken, PollExpires
  <2>2. /\ worker[w].pc = "wait" /\ UNCHANGED <<task, status, nextFile, call, draft>>
        /\ worker' = [worker EXCEPT ![w].pc = "scan"]
    BY <2>1 DEF LeaveWait
  <2> QED
    BY <2>2
<1>20. CASE StartWorker(w)
  BY <1>20 DEF StartWorker
<1> QED
  BY <1>8, <1>9, <1>10, <1>11, <1>12, <1>13, <1>14, <1>15, <1>16, <1>17, <1>18, <1>19, <1>20
     DEF WorkerStep

\* Nor does anybody else put a spent check back.
LEMMA OthersSpend ==
    ASSUME TypeOK, FilesAgree, ClaimsAgree,
           \/ \E p \in Callers : EnqueueStep(p) \/ Requests(p)
           \/ \E w \in Wrappers : Boot(w) \/ Exit(w)
           \/ \E c \in Convs : Talk(c),
           NEW s, NEW i \in Spent(s)
    PROVE  i \in Spent(s)' /\ score' = score
<1> USE DEF queueVars, callVars, storeVars
<1>1. i \in Files /\ i # 0 /\ IsCheck(i) /\ Session(i) = s /\ status[i] # "pending"
        /\ task[i] # NULL /\ \A v \in Wrappers : ~Unsaved(v, i)
  BY DEF Spent, Pending, Files, IsCheck
<1>2. CASE \E p \in Callers : EnqueueStep(p) \/ Requests(p)
  <2>1. task'[i] = task[i] /\ status'[i] = status[i] /\ UNCHANGED <<worker, score>>
    BY <1>1, <1>2, EnqueueMoves
  <2> QED
    BY <1>1, <2>1 DEF Spent, Pending, IsCheck, Session, Unsaved
<1>3. ASSUME NEW w \in Wrappers, Boot(w) PROVE i \in Spent(s)' /\ score' = score
  <2>1. /\ worker[w].pc = "off" /\ worker' = [worker EXCEPT ![w].pc = "boot"]
        /\ UNCHANGED <<task, score>>
    BY <1>3 DEF Boot
  <2>2. status'[i] # "pending"
    BY <1>1, <1>3 DEF Boot, TypeOK
  <2>3. worker[w].ride = 0 /\ worker'[w].ride = worker[w].ride
    BY <2>1 DEF ClaimsAgree, TypeOK, Workers
  <2>4. \A v \in Wrappers \ {w} : worker'[v] = worker[v]
    BY <2>1 DEF TypeOK
  <2>5. \A v \in Wrappers : ~Unsaved(v, i)'
    BY <1>1, <2>3, <2>4 DEF Unsaved
  <2> QED
    BY <1>1, <2>1, <2>2, <2>5 DEF Spent, Pending, IsCheck, Session
<1>4. ASSUME NEW w \in Wrappers, Exit(w) PROVE i \in Spent(s)' /\ score' = score
  <2>1. worker' = [worker EXCEPT ![w] = IdleWorker("off")] /\ UNCHANGED <<task, status, score>>
    BY <1>4 DEF Exit
  <2>2. worker'[w].ride = 0 /\ \A v \in Wrappers \ {w} : worker'[v] = worker[v]
    BY <2>1 DEF TypeOK, IdleWorker
  <2>3. \A v \in Wrappers : ~Unsaved(v, i)'
    BY <1>1, <2>2 DEF Unsaved
  <2> QED
    BY <1>1, <2>1, <2>3 DEF Spent, Pending, IsCheck, Session
<1>5. ASSUME NEW c \in Convs, Talk(c) PROVE i \in Spent(s)' /\ score' = score
  BY <1>1, <1>5 DEF Talk, Spent, Pending, IsCheck, Session, Unsaved
<1> QED
  BY <1>2, <1>3, <1>4, <1>5

\* Only a save counts, and only for the session of its task.
LEMMA OnlySavesScore ==
    ASSUME NEW w \in Wrappers, WorkerStep(w)
    PROVE  Save(w) \/ score' = score
<1> USE DEF storeVars
<1>1. CASE Scan(w)
  BY <1>1 DEF Scan
<1>2. CASE SkipTask(w)
  BY <1>2 DEF SkipTask
<1>3. CASE TakeTask(w)
  BY <1>3 DEF TakeTask, Oldest, Claim, Claimable, Pending
<1>4. CASE ListChecks(w)
  BY <1>4 DEF ListChecks
<1>5. CASE ClaimCheck(w)
  BY <1>5 DEF ClaimCheck, Oldest, Claim, Claimable, Pending
<1>6. CASE ReadExcerpt(w)
  BY <1>6 DEF ReadExcerpt, AfterFailure, MaxAttempts
<1>7. CASE AskFails(w)
  BY <1>7 DEF AskFails, AfterFailure, MaxAttempts
<1>8. CASE Finish(w)
  BY <1>8 DEF Finish, FileAfter, RideAfter, IdleWorker
<1>9. CASE PassRaises(w)
  BY <1>9 DEF PassRaises, IdleWorker
<1>10. CASE EndPass(w)
  BY <1>10 DEF EndPass
<1>11. CASE Woken(w) \/ PollExpires(w)
  BY <1>11 DEF Woken, PollExpires, LeaveWait
<1>12. CASE StartWorker(w)
  BY <1>12 DEF StartWorker
<1> QED
  BY <1>1, <1>2, <1>3, <1>4, <1>5, <1>6, <1>7, <1>8, <1>9, <1>10, <1>11, <1>12
     DEF WorkerStep

\* Spent checks are a finite set.
LEMMA SpentIsFinite ==
    ASSUME NEW s
    PROVE  /\ IsFiniteSet(Spent(s)) /\ Cardinality(Spent(s)) \in Nat
           /\ IsFiniteSet(Spent(s)') /\ Cardinality(Spent(s)') \in Nat
<1>1. IsFiniteSet(Files)
  BY QueueAssumption, FS_Interval DEF Files
<1>2. Spent(s) \subseteq Files /\ Spent(s)' \subseteq Files
  BY DEF Spent
<1> QED
  BY <1>1, <1>2, FS_Subset, FS_CardinalityType

\* A set that grows does not get smaller.
LEMMA ScoreKept ==
    ASSUME TypeOK, ScoreIsSpent, score' = score, \A s \in Sessions : Spent(s) \subseteq Spent(s)'
    PROVE  ScoreIsSpent'
<1> SUFFICES ASSUME NEW s \in Sessions PROVE score[s] <= Cardinality(Spent(s)')
  BY DEF ScoreIsSpent
<1>1. Cardinality(Spent(s)) <= Cardinality(Spent(s)')
  BY SpentIsFinite, FS_Subset
<1>2. score[s] \in Nat /\ score[s] <= Cardinality(Spent(s))
  BY DEF TypeOK, ScoreIsSpent
<1> QED
  BY <1>1, <1>2, SpentIsFinite

\* A save that counts spends the check it carried.
LEMMA SaveScores ==
    ASSUME IInv, NEW w \in Wrappers, Save(w)
    PROVE  ScoreIsSpent'
<1> USE DEF IInv
<1>0. PICK r, t : r = worker[w].ride /\ t = SessionOf[task[worker[w].cur].conv]
  OBVIOUS
<1>1. WorkerStep(w) /\ \A s \in Sessions : Spent(s) \subseteq Spent(s)'
  BY WorkerSpends DEF WorkerStep
<1>2. PICK rooted \in BOOLEAN :
         (rooted => r # 0) /\ score' = [score EXCEPT ![t] = IF rooted THEN @ + 1 ELSE @]
  BY <1>0 DEF Save
<1>3. CASE ~rooted
  <2>1. score' = score
    BY <1>2, <1>3 DEF TypeOK
  <2> QED
    BY <1>1, <2>1, ScoreKept
<1>4. CASE rooted
  <2>1. worker[w].pc = "ask" /\ worker' = [worker EXCEPT ![w].pc = "finish"]
          /\ UNCHANGED <<task, status>>
    BY DEF Save, queueVars
  <2>2. r \in Files /\ r \in Held(w) /\ IsCheck(r) /\ Session(r) = t
    BY <1>0, <1>2, <1>4, RideIsAFile DEF ClaimsAgree, Session
  <2>3. status[r] # "pending" /\ ~worker[w].failed
    BY <1>0, <2>1, <2>2 DEF ClaimsAgree
  <2>4. worker'[w].pc = "finish" /\ ~worker'[w].failed
          /\ \A v \in Wrappers \ {w} : worker'[v] = worker[v]
    BY <2>1, <2>3 DEF TypeOK, Workers
  <2>5. \A v \in Wrappers \ {w} : worker[v].ride # r
    BY <2>2, RideIsAFile DEF OneWorkerPerFile, Files
  <2>6. \A v \in Wrappers : ~Unsaved(v, r)'
    BY <2>4, <2>5 DEF Unsaved
  <2>7. r \in Spent(t)' /\ r \notin Spent(t)
    <3>1. r \in Spent(t)'
      BY <2>1, <2>2, <2>3, <2>6 DEF Spent, Pending, IsCheck, Session
    <3>2. Unsaved(w, r)
      BY <1>0, <2>1 DEF Unsaved
    <3> QED
      BY <3>1, <3>2 DEF Spent
  <2>8. t \in Sessions => Cardinality(Spent(t)) + 1 <= Cardinality(Spent(t)')
    <3> SUFFICES ASSUME t \in Sessions PROVE Cardinality(Spent(t)) + 1 <= Cardinality(Spent(t)')
      OBVIOUS
    <3>1. Spent(t) \cup {r} \subseteq Spent(t)'
      BY <1>1, <2>7
    <3>2. Cardinality(Spent(t) \cup {r}) = Cardinality(Spent(t)) + 1
      BY <2>7, SpentIsFinite, FS_AddElement
    <3>3. Cardinality(Spent(t) \cup {r}) <= Cardinality(Spent(t)')
      BY <3>1, SpentIsFinite, FS_Subset
    <3> QED
      BY <3>2, <3>3
  <2> SUFFICES ASSUME NEW s \in Sessions PROVE score'[s] <= Cardinality(Spent(s)')
    BY DEF ScoreIsSpent
  <2>9. score[s] \in Nat /\ score[s] <= Cardinality(Spent(s))
    BY DEF TypeOK, ScoreIsSpent
  <2>10. score'[s] = IF s = t THEN score[s] + 1 ELSE score[s]
    BY <1>2, <1>4 DEF TypeOK
  <2>11. Cardinality(Spent(s)) <= Cardinality(Spent(s)')
    BY <1>1, SpentIsFinite, FS_Subset
  <2>12. /\ Cardinality(Spent(s)) \in Nat /\ Cardinality(Spent(s)') \in Nat
         /\ s = t => Cardinality(Spent(s)) + 1 <= Cardinality(Spent(s)')
    BY <2>8, SpentIsFinite
  <2> QED
    BY <2>9, <2>10, <2>11, <2>12
<1> QED
  BY <1>3, <1>4

-----------------------------------------------------------------------------
(* The invariant *)

\* It holds initially.
LEMMA InitInv == Init => IInv
<1> SUFFICES ASSUME Init PROVE IInv
  OBVIOUS
<1>1. TypeOK
  BY InitType
<1>2. \A w \in Wrappers : worker[w] = IdleWorker("off") /\ Held(w) = {}
  BY DEF Init, IdleWorker, Held
<1>3. FilesAgree
  BY QueueAssumption DEF Init, FilesAgree, Callers
<1>4. ClaimsAgree /\ OneWorkerPerFile
  BY <1>2 DEF ClaimsAgree, OneWorkerPerFile, IdleWorker
<1>5. ScoreIsSpent
  <2> SUFFICES ASSUME NEW s \in Sessions PROVE score[s] <= Cardinality(Spent(s))
    BY DEF ScoreIsSpent
  <2>1. score[s] = 0
    BY DEF Init
  <2> QED
    BY <2>1, SpentIsFinite
<1> QED
  BY <1>1, <1>3, <1>4, <1>5 DEF IInv

\* A step is a handler's, a worker's, or a wrapper's or a user's coming and
\* going.
LEMMA StepKinds ==
    ASSUME Next
    PROVE  \/ \E p \in Callers : EnqueueStep(p) \/ Requests(p)
           \/ \E w \in Wrappers : WorkerStep(w)
           \/ (\E w \in Wrappers : Boot(w) \/ Exit(w)) \/ (\E c \in Convs : Talk(c))
BY QueueAssumption, RequestsAreTasks DEF Next

\* Every step keeps it.
LEMMA NextInv == IInv /\ [Next]_vars => IInv'
<1> SUFFICES ASSUME IInv, [Next]_vars PROVE IInv'
  OBVIOUS
<1> USE DEF IInv
<1>1. ASSUME NEW p \in Callers, EnqueueStep(p) \/ Requests(p) PROVE IInv'
  <2>1. score' = score /\ \A s \in Sessions : Spent(s) \subseteq Spent(s)'
    BY <1>1, EnqueueMoves, OthersSpend
  <2> QED
    BY <1>1, <2>1, EnqueueType, EnqueueFiles, EnqueueClaims, ScoreKept
<1>2. ASSUME NEW w \in Wrappers, WorkerStep(w) PROVE IInv'
  <2>1. TypeOK' /\ FilesAgree' /\ ClaimsAgree' /\ OneWorkerPerFile'
    BY <1>2, WorkerStepType, WorkerFiles, WorkerClaims, WorkerHolds
  <2>2. \A s \in Sessions : Spent(s) \subseteq Spent(s)'
    BY <1>2, WorkerSpends
  <2>3. CASE score' = score
    BY <2>1, <2>2, <2>3, ScoreKept
  <2>4. CASE Save(w)
    BY <2>1, <2>4, SaveScores
  <2> QED
    BY <1>2, <2>3, <2>4, OnlySavesScore
<1>3. ASSUME (\E w \in Wrappers : Boot(w) \/ Exit(w)) \/ (\E c \in Convs : Talk(c)) PROVE IInv'
  <2>1. \A s \in Sessions : Spent(s) \subseteq Spent(s)'
    BY <1>3, OthersSpend
  <2>2. score' = score
    BY <1>3 DEF Boot, Exit, Talk, storeVars
  <2> QED
    BY <1>3, <2>1, <2>2, RestType, RestInv, ScoreKept
<1>4. CASE UNCHANGED vars
  <2> USE <1>4 DEF vars, queueVars, callVars, storeVars
  <2>1. TypeOK'
    BY DEF TypeOK
  <2>2. FilesAgree'
    BY DEF FilesAgree
  <2>3. ClaimsAgree' /\ OneWorkerPerFile'
    BY OthersClaims DEF TypeOK
  <2>4. \A s \in Sessions : Spent(s) \subseteq Spent(s)'
    BY DEF Spent, Pending, IsCheck, Session, Unsaved
  <2> QED
    BY <2>1, <2>2, <2>3, <2>4, ScoreKept
<1> QED
  BY <1>1, <1>2, <1>3, <1>4, StepKinds

\* So it always holds.
LEMMA Invariance == Spec => []IInv
BY InitInv, NextInv, PTL DEF Spec

-----------------------------------------------------------------------------
(* The theorems *)

\* Whatever the instance, the queue is well typed: no task is tried a third
\* time in one pass.
THEOREM TypeCorrect == Spec => []TypeOK
<1>1. IInv => TypeOK
  BY DEF IInv
<1> QED
  BY <1>1, Invariance, PTL

\* However many wrappers drain the queue, no two of their workers hold the
\* same file, as a task or as the check that rides on one.
THEOREM OneHolder == Spec => []OneWorkerPerFile
<1>1. IInv => OneWorkerPerFile
  BY DEF IInv
<1> QED
  BY <1>1, Invariance, PTL

\* The mixing score of a session never exceeds the number of its checks that
\* have left the queue, through any retries, crashes and sweeps.
THEOREM ScoreBacked == Spec => []ScoreIsBacked
<1>1. IInv => ScoreIsBacked
  <2> SUFFICES ASSUME IInv, NEW s \in Sessions
               PROVE  score[s] <= Cardinality({i \in Files :
                                      IsCheck(i) /\ Session(i) = s /\ ~Pending(i)})
    BY DEF ScoreIsBacked
  <2> DEFINE Left == {i \in Files : IsCheck(i) /\ Session(i) = s /\ ~Pending(i)}
  <2>1. Spent(s) \subseteq Left /\ Left \subseteq Files
    BY DEF Spent
  <2>2. IsFiniteSet(Files)
    BY QueueAssumption, FS_Interval DEF Files
  <2> HIDE DEF Left
  <2>3. IsFiniteSet(Left) /\ Cardinality(Left) \in Nat
    BY <2>1, <2>2, FS_Subset, FS_CardinalityType
  <2>4. Cardinality(Spent(s)) <= Cardinality(Left)
    BY <2>1, <2>3, FS_Subset
  <2>5. score[s] \in Nat /\ score[s] <= Cardinality(Spent(s))
    BY DEF IInv, TypeOK, ScoreIsSpent
  <2>6. score[s] <= Cardinality(Left)
    BY <2>3, <2>4, <2>5, SpentIsFinite
  <2> QED
    BY <2>6 DEF Left
<1> QED
  BY <1>1, Invariance, PTL

\* What a step may do to a rooting check: it is put away only by the worker
\* that saved the refresh it rode on, or swept.
LEMMA ChecksStep ==
    ASSUME IInv, [Next]_vars, NEW i \in Files, IsCheck(i), status[i] # status'[i],
           status'[i] \in {"gone", "failed"}
    PROVE  Answered(i) \/ \E w \in Wrappers : worker[w].pc = "off" /\ worker'[w].pc = "boot"
<1> USE DEF IInv, queueVars, callVars, storeVars
<1>1. ASSUME NEW p \in Callers, EnqueueStep(p) \/ Requests(p) PROVE FALSE
  BY <1>1, EnqueueMoves
<1>2. ASSUME NEW w \in Wrappers, WorkerStep(w) PROVE Answered(i)
  <2>1. i \in Held(w)
    BY <1>2, WorkerMoves
  <2>2. i # worker[w].cur /\ i = worker[w].ride /\ i # 0 /\ status[i] \in {"claimed", "gone"}
    BY <2>1 DEF ClaimsAgree, Held
  <2>3. worker[w].pc \in {"read", "ask", "finish"}
    BY <2>2 DEF ClaimsAgree
  <2>4. Finish(w)
    BY <1>2, <2>3 DEF WorkerStep, Scan, SkipTask, TakeTask, ListChecks, ClaimCheck, ReadExcerpt,
                      AskFails, Save, PassRaises, EndPass, Woken, PollExpires, LeaveWait,
                      StartWorker
  <2>5. worker[w].pc = "finish" /\ status'[i] = RideAfter(w)
    BY <2>2, <2>4 DEF Finish, TypeOK
  <2>6. ~worker[w].failed
    BY <2>2, <2>5 DEF RideAfter
  <2> QED
    BY <2>2, <2>5, <2>6 DEF Answered
<1>3. ASSUME NEW w \in Wrappers, Boot(w)
      PROVE  worker[w].pc = "off" /\ worker'[w].pc = "boot"
  BY <1>3 DEF Boot, TypeOK, Workers
<1>4. CASE (\E w \in Wrappers : Exit(w)) \/ (\E c \in Convs : Talk(c)) \/ UNCHANGED vars
  BY <1>4 DEF Exit, Talk, vars
<1> QED
  BY <1>1, <1>2, <1>3, <1>4, StepKinds

\* No rooting check is lost: it leaves the queue only after a refresh that
\* carried it was saved, or with the sweep of old files at a wrapper's start.
THEOREM NoCheckIsLost == Spec => ChecksLeaveAnswered
<1>1. IInv /\ [Next]_vars =>
         [ \A i \in Files :
          IsCheck(i) /\ status[i] # status'[i] /\ status'[i] \in {"gone", "failed"}
              => \/ Answered(i)
                 \/ \E w \in Wrappers : worker[w].pc = "off" /\ worker'[w].pc = "boot" ]_vars
  BY ChecksStep
<1> QED
  BY <1>1, Invariance, PTL DEF Spec, ChecksLeaveAnswered

=============================================================================
