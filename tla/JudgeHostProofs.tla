--------------------------- MODULE JudgeHostProofs ---------------------------
(***************************************************************************)
(* Theorems of JudgeHost, for any wrappers, connections and processes.     *)
(***************************************************************************)
EXTENDS JudgeHost, TLAPS

\* What the two threads of a wrapper know of each other: where the worker is
\* tells what it holds, and a judge that may be asked is idle and warm.
ThreadsAgree ==
    \A w \in Wrappers :
        /\ io[w] = "exited" => wpc[w] = "over"
        /\ io[w] \in {"halt", "clear", "ending", "join"} => stopped[w]
        /\ wpc[w] \in {"serve", "judging"} <=> cur[w] # NULL
        /\ wpc[w] = "spawn" => proc[w] = NULL
        /\ wpc[w] \in {"warming", "warm"} /\ ~stopped[w] => proc[w] # NULL
        /\ slot[w] # NULL => wpc[w] \in {"head", "look", "get"} \/ stopped[w]
        /\ ~stopped[w] /\ slot[w] # NULL => proc[w] # NULL
        /\ ~stopped[w] /\ ready[w] /\ io[w] # "claim" =>
              slot[w] = NULL /\ wpc[w] \in {"head", "look", "get"} /\ proc[w] # NULL
        /\ dying[w] # NULL => wpc[w] \in {"unwarmed", "ending"}
        /\ leaving[w] # NULL => io[w] \in {"clear", "ending"}

\* Until stop() can interfere, a running process is the one its wrapper
\* remembers or is ending; a worker that is about to spawn has forgotten none
\* either, for what stop() loses is spawned after that.
Remembered(w, p) == p \in {proc[w], dying[w], leaving[w]}

NoneForgotten(w) == \A p \in Procs : owner[p] = w => Remembered(w, p)

MayForget(w) == io[w] = "exited" \/ (stopped[w] /\ wpc[w] \notin {"look", "spawn"})

\* No two wrappers remember the same process, and it is fresh unless its
\* judgment is being served.
ProcsAgree ==
    /\ \A w \in Wrappers : MayForget(w) \/ NoneForgotten(w)
    /\ \A w \in Wrappers : io[w] = "clear" /\ wpc[w] \in {"look", "spawn"} =>
          proc[w] \in {leaving[w], NULL}
    /\ \A v, w \in Wrappers : proc[v] = proc[w] /\ proc[w] # NULL => v = w
    /\ \A w \in Wrappers :
          proc[w] # NULL /\ wpc[w] \notin {"judging", "retire"} => asked[proc[w]] = 0
    /\ OneJudgmentPerProcess

\* The I/O thread hands over one of the connections it is handling, and a
\* judge that is shut down has no queue left.
LoopAgrees ==
    \A w \in Wrappers :
        /\ hand[w] # NULL <=> io[w] = "claim"
        /\ hand[w] # NULL => hand[w] \in todo[w]
        /\ todo[w] \subseteq pending[w]
        /\ io[w] \in {"closing", "exiting", "exited"} => slot[w] = NULL

Owned(w, c) == (c \in pending[w] /\ c # hand[w]) \/ c \in {client[w], slot[w], cur[w]}

\* SocketHasOneOwner, connection by connection.
OwnersAgree ==
    /\ \A w \in Wrappers, c \in Conns :
          /\ Owned(w, c) <=> HomeOf[c] = w /\ conn[c] = "open"
          /\ c \in pending[w] => HomeOf[c] = w
          /\ c \in pending[w] /\ c # hand[w] => c \notin {client[w], slot[w], cur[w]}
    /\ \A w \in Wrappers : slot[w] # NULL => slot[w] # cur[w]
    /\ \A c \in Conns \ begun : conn[c] = "none"

IInv == TypeOK /\ ThreadsAgree /\ ProcsAgree /\ LoopAgrees /\ OwnersAgree

\* The steps of one wrapper.
Step(w) == Main(w) \/ Worker(w) \/ EnsureStarted(w) \/ StopJudge(w) \/ Killed(w)

-----------------------------------------------------------------------------
(* The socket *)

\* A step that only serves the socket is taken and ends outside the judge's
\* hand-over and outside the shutdown's part that concerns the judge.
LEMMA ServeLeavesJudge ==
    ASSUME TypeOK, NEW w \in Wrappers, Serve(w) \/ PushFails(w)
    PROVE  /\ io[w] \in {"poll", "settle", "closing"}
           /\ io'[w] \in {"poll", "settle", "exiting"}
           /\ \A v \in Wrappers \ {w} :
                 /\ io'[v] = io[v] /\ pending'[v] = pending[v]
                 /\ client'[v] = client[v] /\ todo'[v] = todo[v]
<1> USE DEF TypeOK, SocketTypeOK, peerVars
<1>1. CASE PushFails(w)
  BY <1>1 DEF PushFails, Close
<1>2. CASE \E new \in SUBSET Backlog(w) : Tick(w, new)
  BY <1>2 DEF Tick, ReadablePending, Backlog, ClientEnded
<1>3. CASE \E c \in Conns : SettleEof(w, c)
  BY <1>3 DEF SettleEof, Settling, Handled, Forget, Close
<1>4. CASE \E c \in Conns : SettleNotice(w, c)
  BY <1>4 DEF SettleNotice, Settling, Handled, Forget, Close, Answer
<1>5. CASE \E c \in Conns : SettlePromote(w, c)
  BY <1>5 DEF SettlePromote, Settling, Handled, Forget, Close, Answer
<1>6. CASE \E c \in Conns : SettleReject(w, c)
  BY <1>6 DEF SettleReject, Settling, Handled, Forget, Close
<1>7. CASE StopSocket(w)
  BY <1>7 DEF StopSocket, Close, Backlog
<1> QED
  BY <1>1, <1>2, <1>3, <1>4, <1>5, <1>6, <1>7 DEF Serve

\* Answers and closed ends are typed.
LEMMA AnswerType ==
    ASSUME SocketTypeOK, NEW c, NEW r \in Replies, Answer(c, r)
    PROVE  reply' \in [Conns -> Replies \cup {NULL}]
BY DEF SocketTypeOK, Answer

LEMMA CloseType ==
    ASSUME SocketTypeOK, NEW C, Close(C)
    PROVE  conn' \in [Conns -> {"none", "backlog", "open", "closed"}]
BY DEF SocketTypeOK, Close

\* A pass over the socket keeps the socket's types.
LEMMA ServeType ==
    ASSUME SocketTypeOK, NEW w \in Wrappers, Serve(w) \/ PushFails(w)
    PROVE  SocketTypeOK'
<1> USE SocketAssumption DEF SocketTypeOK, IoStates, peerVars
<1>1. CASE PushFails(w)
  BY <1>1, CloseType DEF PushFails
<1>2. CASE \E new \in SUBSET Backlog(w) : Tick(w, new)
  <2>1. PICK new \in SUBSET Backlog(w) : Tick(w, new)
    BY <1>2
  <2>2. unread' \in [Residents -> 0..MaxUnread]
    BY <2>1 DEF Tick, ClientTalks
  <2>3. conn' \in [Conns -> {"none", "backlog", "open", "closed"}]
    BY <2>1 DEF Tick
  <2>4. pending' \in [Wrappers -> SUBSET Conns] /\ todo' \in [Wrappers -> SUBSET Conns]
    BY <2>1 DEF Tick, Backlog, ReadablePending
  <2>5. client' \in [Wrappers -> Residents \cup {NULL}] /\ io' \in [Wrappers -> IoStates]
    BY <2>1 DEF Tick
  <2> QED
    BY <2>1, <2>2, <2>3, <2>4, <2>5 DEF Tick
<1>3. CASE \E c \in Conns : SettleEof(w, c)
  BY <1>3, CloseType DEF SettleEof, Handled, Forget
<1>4. CASE \E c \in Conns : SettleNotice(w, c)
  BY <1>4, CloseType, AnswerType DEF SettleNotice, Handled, Forget, Replies
<1>5. CASE \E c \in Conns : SettlePromote(w, c)
  BY <1>5, CloseType, AnswerType DEF SettlePromote, Handled, Forget, Replies
<1>6. CASE \E c \in Conns : SettleReject(w, c)
  BY <1>6, CloseType DEF SettleReject, Handled, Forget
<1>7. CASE StopSocket(w)
  BY <1>7, CloseType DEF StopSocket
<1> QED
  BY <1>1, <1>2, <1>3, <1>4, <1>5, <1>6, <1>7 DEF Serve

\* Spawn takes a process that nobody runs and nobody remembers.
LEMMA SpawnTakes ==
    ASSUME NEW w \in Wrappers, Spawn(w)
    PROVE  \E p \in Procs :
              /\ owner[p] = NULL /\ \A v \in Wrappers : ~Remembered(v, p)
              /\ owner' = [owner EXCEPT ![p] = w]
              /\ asked' = [asked EXCEPT ![p] = 0]
              /\ proc' = [proc EXCEPT ![w] = p]
              /\ wpc[w] = "spawn" /\ wpc' = [wpc EXCEPT ![w] = "warming"]
              /\ UNCHANGED <<peerVars, socketVars, slot, cur, hand, ready, stopped, dead, failures,
                              dying, leaving>>
<1> DEFINE q == CHOOSE p \in Procs : p \in Startable
<1>1. q \in Procs /\ q \in Startable
  BY DEF Spawn, Startable
<1>2. owner[q] = NULL /\ \A v \in Wrappers : ~Remembered(v, q)
  BY <1>1 DEF Startable, Live, Remembered
<1> QED
  BY <1>1, <1>2 DEF Spawn, locals

-----------------------------------------------------------------------------
(* Types *)

\* The initial states are well typed.
LEMMA InitType == Init => TypeOK
BY SocketAssumption, JudgeAssumption
   DEF Init, TypeOK, SocketInit, SocketTypeOK, WorkerStates, IoStates

\* A step of a wrapper keeps the types.
LEMMA StepType ==
    ASSUME TypeOK, NEW w \in Wrappers, Step(w)
    PROVE  TypeOK'
<1> USE SocketAssumption, JudgeAssumption
    DEF TypeOK, WorkerStates, peerVars, socketVars, judgeVars, locals
<1>1. CASE (Serve(w) \/ PushFails(w)) /\ UNCHANGED judgeVars
  BY <1>1, ServeType
<1>2. CASE \E c \in Judged : Refuse(w, c)
  <2>1. PICK c \in Judged : Refuse(w, c)
    BY <1>2
  <2>2. Outcome(w) \in Replies
    BY <2>1 DEF Refuse, Outcome, Replies
  <2>3. SocketTypeOK'
    BY <2>1, <2>2, CloseType, AnswerType DEF Refuse, Forget, Handled, SocketTypeOK, IoStates
  <2> QED
    BY <2>1, <2>3 DEF Refuse
<1>3. CASE \E c \in Judged : PutRequest(w, c)
  BY <1>3 DEF PutRequest, SettleJudged, Settling, Outcome, Available, SocketTypeOK, Conns, Hooks,
     Replies, IoStates
<1>4. CASE Claim(w)
  BY <1>4 DEF Claim, Handled, Forget, SocketTypeOK, Conns, Hooks, Replies, IoStates
<1>5. CASE StopReads(w)
  BY <1>5 DEF StopReads, SocketTypeOK, Conns, Hooks, Replies, IoStates
<1>6. CASE StopDrains(w)
  <2>1. SocketTypeOK'
    BY <1>6, CloseType, AnswerType DEF StopDrains, SocketTypeOK, Replies, IoStates
  <2> QED
    BY <1>6, <2>1 DEF StopDrains
<1>7. CASE Exit(w)
  BY <1>7 DEF Exit, Ends, ProcessEnds, SocketTypeOK, Conns, Hooks, Replies, IoStates
<1>8. CASE Killed(w)
  BY <1>8 DEF Killed, Ends, ProcessEnds, SocketTypeOK, Conns, Hooks, Replies, IoStates
<1>9. CASE StopJudge(w)
  BY <1>9 DEF StopJudge, SocketTypeOK, Conns, Hooks, Replies, IoStates
<1>10. CASE EnsureStarted(w)
  BY <1>10 DEF EnsureStarted, SocketTypeOK, Conns, Hooks, Replies, IoStates
<1>11. CASE LoopHead(w)
  BY <1>11 DEF LoopHead, SocketTypeOK, Conns, Hooks, Replies, IoStates
<1>12. CASE Spawn(w)
  <2>1. PICK p \in Procs : owner' = [owner EXCEPT ![p] = w] /\ asked' = [asked EXCEPT ![p] =
     0]
                       /\ proc' = [proc EXCEPT ![w] = p]
    BY <1>12, SpawnTakes
  <2>2. /\ owner' \in [Procs -> Wrappers \cup {NULL}] /\ asked' \in [Procs -> 0..2]
        /\ proc' \in [Wrappers -> Procs \cup {NULL}]
    BY <2>1
  <2> QED
    BY <1>12, <2>2, SpawnTakes DEF SocketTypeOK
<1>13. CASE SpawnFails(w)
  BY <1>13 DEF SpawnFails, Failed, SocketTypeOK, Conns, Hooks, Replies, IoStates
<1>14. CASE SpawnRaises(w)
  BY <1>14 DEF SpawnRaises, SocketTypeOK, Conns, Hooks, Replies, IoStates
<1>15. CASE WarmupDone(w)
  BY <1>15 DEF WarmupDone, SocketTypeOK, Conns, Hooks, Replies, IoStates
<1>16. CASE WarmupFails(w)
  BY <1>16 DEF WarmupFails, TakeProcess, SocketTypeOK, Conns, Hooks,
     Replies, IoStates
<1>17. CASE SetReady(w)
  BY <1>17 DEF SetReady, SocketTypeOK, Conns, Hooks, Replies, IoStates
<1>18. CASE GetTimesOut(w)
  BY <1>18 DEF GetTimesOut, SocketTypeOK, Conns, Hooks, Replies, IoStates
<1>19. CASE GetRequest(w)
  BY <1>19 DEF GetRequest, SocketTypeOK, Conns, Hooks, Replies, IoStates
<1>20. CASE AskProcess(w)
  <2>1. asked' \in [Procs -> 0..2]
    BY <1>20 DEF AskProcess
  <2> QED
    BY <1>20, <2>1 DEF AskProcess, SocketTypeOK
<1>21. CASE ReplyAndClose(w)
  <2>1. SocketTypeOK'
    BY <1>21, CloseType, AnswerType DEF ReplyAndClose, SocketTypeOK, Replies
  <2> QED
    BY <1>21, <2>1 DEF ReplyAndClose
<1>22. CASE RetireServed(w)
  BY <1>22 DEF RetireServed, TakeProcess, SocketTypeOK
<1>31. CASE LookAtProcess(w)
  BY <1>31 DEF LookAtProcess, SocketTypeOK, Conns, Hooks,
     Replies, IoStates
<1>32. CASE StopClears(w)
  BY <1>32 DEF StopClears, SocketTypeOK, Conns, Hooks,
     Replies, IoStates
<1>33. CASE StopEnds(w)
  BY <1>33 DEF StopEnds, EndProcess, SocketTypeOK, Conns, Hooks,
     Replies, IoStates
<1>34. CASE EndUnwarmed(w)
  BY <1>34 DEF EndUnwarmed, EndProcess, Failed, SocketTypeOK, Conns, Hooks,
     Replies, IoStates
<1>35. CASE EndServed(w)
  BY <1>35 DEF EndServed, EndProcess, SocketTypeOK, Conns, Hooks,
     Replies, IoStates
<1> QED
  BY <1>1, <1>2, <1>3, <1>4, <1>5, <1>6, <1>7, <1>8, <1>9, <1>10, <1>11, <1>12, <1>13,
     <1>14, <1>15, <1>16, <1>17, <1>18, <1>19, <1>20, <1>21, <1>22,
     <1>31, <1>32, <1>33, <1>34, <1>35 DEF Step, Main, Worker

\* So do the peers and the deaths of processes.
LEMMA RestType ==
    ASSUME TypeOK, (\E c \in Conns : Peer(c)) \/ (\E p \in Procs : ProcessDies(p))
    PROVE  TypeOK'
<1> USE SocketAssumption DEF TypeOK, SocketTypeOK, peerVars, socketVars, judgeVars, locals
<1>1. CASE \E c \in Conns : Peer(c)
  <2>1. PICK c \in Conns : Peer(c)
    BY <1>1
  <2>2. CASE Connect(c)
    <3>1. lonely' \in SUBSET Residents
      BY <2>2 DEF Connect
    <3> QED
      BY <2>1, <2>2, <3>1 DEF Peer, Connect
  <2>3. CASE Write(c) \/ Leave(c)
    BY <2>1, <2>3 DEF Peer, Write, Leave
  <2>4. CASE Say(c)
    BY <2>1, <2>4 DEF Peer, Say
  <2> QED
    BY <2>1, <2>2, <2>3, <2>4 DEF Peer
<1>2. CASE \E p \in Procs : ProcessDies(p)
  BY <1>2 DEF ProcessDies
<1> QED
  BY <1>1, <1>2

-----------------------------------------------------------------------------
(* The threads *)

\* A step of one wrapper leaves the others alone.
LEMMA OthersWait ==
    ASSUME TypeOK, NEW w \in Wrappers, Step(w)
    PROVE  \A v \in Wrappers \ {w} :
              /\ slot'[v] = slot[v] /\ cur'[v] = cur[v] /\ hand'[v] = hand[v]
              /\ ready'[v] = ready[v] /\ stopped'[v] = stopped[v] /\ dead'[v] = dead[v]
              /\ proc'[v] = proc[v] /\ wpc'[v] = wpc[v] /\ io'[v] = io[v]
              /\ dying'[v] = dying[v] /\ leaving'[v] = leaving[v]
              /\ pending'[v] = pending[v] /\ client'[v] = client[v] /\ todo'[v] = todo[v]
<1> USE DEF TypeOK, SocketTypeOK, peerVars, socketVars, judgeVars, locals
<1>1. CASE (Serve(w) \/ PushFails(w)) /\ UNCHANGED judgeVars
  BY <1>1, ServeLeavesJudge
<1>2. CASE \E c \in Judged : Refuse(w, c)
  BY <1>2 DEF Refuse, SettleJudged, Settling, Handled, Forget, Close, Answer
<1>3. CASE \E c \in Judged : PutRequest(w, c)
  BY <1>3 DEF PutRequest, SettleJudged, Settling, Outcome, Available
<1>4. CASE Claim(w)
  BY <1>4 DEF Claim, Handled, Forget
<1>5. CASE StopReads(w)
  BY <1>5 DEF StopReads
<1>6. CASE StopDrains(w)
  BY <1>6 DEF StopDrains, Answer, Close
<1>7. CASE Exit(w)
  BY <1>7 DEF Exit, Ends, ProcessEnds
<1>8. CASE Killed(w)
  BY <1>8 DEF Killed, Ends, ProcessEnds
<1>9. CASE StopJudge(w)
  BY <1>9 DEF StopJudge
<1>10. CASE EnsureStarted(w)
  BY <1>10 DEF EnsureStarted
<1>11. CASE LoopHead(w)
  BY <1>11 DEF LoopHead
<1>12. CASE Spawn(w)
  BY <1>12, SpawnTakes
<1>13. CASE SpawnFails(w)
  BY <1>13 DEF SpawnFails, Failed
<1>14. CASE SpawnRaises(w)
  BY <1>14 DEF SpawnRaises
<1>15. CASE WarmupDone(w)
  BY <1>15 DEF WarmupDone
<1>16. CASE WarmupFails(w)
  BY <1>16 DEF WarmupFails, TakeProcess
<1>17. CASE SetReady(w)
  BY <1>17 DEF SetReady
<1>18. CASE GetTimesOut(w)
  BY <1>18 DEF GetTimesOut
<1>19. CASE GetRequest(w)
  BY <1>19 DEF GetRequest
<1>20. CASE AskProcess(w)
  BY <1>20 DEF AskProcess
<1>21. CASE ReplyAndClose(w)
  BY <1>21 DEF ReplyAndClose, Answer, Close
<1>22. CASE RetireServed(w)
  BY <1>22 DEF RetireServed, TakeProcess
<1>31. CASE LookAtProcess(w)
  BY <1>31 DEF LookAtProcess
<1>32. CASE StopClears(w)
  BY <1>32 DEF StopClears
<1>33. CASE StopEnds(w)
  BY <1>33 DEF StopEnds, EndProcess
<1>34. CASE EndUnwarmed(w)
  BY <1>34 DEF EndUnwarmed, EndProcess, Failed
<1>35. CASE EndServed(w)
  BY <1>35 DEF EndServed, EndProcess
<1> QED
  BY <1>1, <1>2, <1>3, <1>4, <1>5, <1>6, <1>7, <1>8, <1>9, <1>10, <1>11, <1>12, <1>13,
     <1>14, <1>15, <1>16, <1>17, <1>18, <1>19, <1>20, <1>21, <1>22,
     <1>31, <1>32, <1>33, <1>34, <1>35 DEF Step, Main, Worker

\* A step of a wrapper keeps its threads in agreement.
LEMMA StepThreads ==
    ASSUME TypeOK, ThreadsAgree, NEW w \in Wrappers, Step(w)
    PROVE  ThreadsAgree'
<1>1. SUFFICES ASSUME NEW v \in Wrappers
               PROVE  /\ io'[v] = "exited" => wpc'[v] = "over"
                      /\ io'[v] \in {"halt", "clear", "ending", "join"} => stopped'[v]
                      /\ wpc'[v] \in {"serve", "judging"} <=> cur'[v] # NULL
                      /\ wpc'[v] = "spawn" => proc'[v] = NULL
                      /\ wpc'[v] \in {"warming", "warm"} /\ ~stopped'[v] => proc'[v] # NULL
                      /\ slot'[v] # NULL => wpc'[v] \in {"head", "look", "get"} \/ stopped'[v]
                      /\ ~stopped'[v] /\ slot'[v] # NULL => proc'[v] # NULL
                      /\ ~stopped'[v] /\ ready'[v] /\ io'[v] # "claim" =>
                            /\ slot'[v] = NULL /\ proc'[v] # NULL
                            /\ wpc'[v] \in {"head", "look", "get"}
                      /\ dying'[v] # NULL => wpc'[v] \in {"unwarmed", "ending"}
                      /\ leaving'[v] # NULL => io'[v] \in {"clear", "ending"}
  BY DEF ThreadsAgree
<1>2. CASE v # w
  BY <1>2, OthersWait DEF ThreadsAgree
<1>3. CASE v = w
  <2> USE <1>3, SocketAssumption, JudgeAssumption
      DEF TypeOK, SocketTypeOK, ThreadsAgree, WorkerStates, peerVars, socketVars, judgeVars, locals
  <2>1. CASE (Serve(w) \/ PushFails(w)) /\ UNCHANGED judgeVars
    BY <2>1, ServeLeavesJudge
  <2>2. CASE \E c \in Judged : Refuse(w, c)
    BY <2>2 DEF Refuse, SettleJudged, Settling, Handled, Forget, Close, Answer
  <2>3. CASE \E c \in Judged : PutRequest(w, c)
    <3>1. /\ ready[w] /\ ~stopped[w] /\ io[w] = "settle" /\ io' = [io EXCEPT ![w] = "claim"]
          /\ UNCHANGED <<ready, stopped, proc, wpc, cur, dying, leaving>>
      BY <2>3 DEF PutRequest, SettleJudged, Settling, Outcome, Available
    <3>2. wpc[w] \in {"head", "look", "get"} /\ proc[w] # NULL
      BY <3>1
    <3> QED
      BY <3>1, <3>2
  <2>4. CASE Claim(w)
    BY <2>4 DEF Claim, Handled, Forget
  <2>5. CASE StopReads(w)
    BY <2>5 DEF StopReads
  <2>6. CASE StopDrains(w)
    BY <2>6 DEF StopDrains, Answer, Close
  <2>7. CASE Exit(w)
    BY <2>7 DEF Exit, Ends, ProcessEnds
  <2>8. CASE Killed(w)
    BY <2>8 DEF Killed, Ends, ProcessEnds
  <2>9. CASE StopJudge(w)
    BY <2>9 DEF StopJudge
  <2>10. CASE EnsureStarted(w)
    BY <2>10 DEF EnsureStarted
  <2>11. CASE LoopHead(w)
    BY <2>11 DEF LoopHead
  <2>12. CASE Spawn(w)
    <3>1. /\ wpc[w] = "spawn" /\ wpc'[w] = "warming" /\ proc'[w] # NULL
          /\ UNCHANGED <<io, slot, cur, ready, stopped, dying, leaving>>
      BY <2>12, SpawnTakes
    <3>2. dying[w] = NULL
      BY <3>1
    <3> QED
      BY <3>1, <3>2
  <2>13. CASE SpawnFails(w)
    BY <2>13 DEF SpawnFails, Failed
  <2>14. CASE SpawnRaises(w)
    BY <2>14 DEF SpawnRaises
  <2>15. CASE WarmupDone(w)
    BY <2>15 DEF WarmupDone
  <2>16. CASE WarmupFails(w)
    BY <2>16 DEF WarmupFails, TakeProcess
  <2>17. CASE SetReady(w)
    BY <2>17 DEF SetReady
  <2>18. CASE GetTimesOut(w)
    BY <2>18 DEF GetTimesOut
  <2>19. CASE GetRequest(w)
    BY <2>19 DEF GetRequest
  <2>20. CASE AskProcess(w)
    BY <2>20 DEF AskProcess
  <2>21. CASE ReplyAndClose(w)
    BY <2>21 DEF ReplyAndClose
  <2>22. CASE RetireServed(w)
    BY <2>22 DEF RetireServed, TakeProcess
  <2>31. CASE LookAtProcess(w)
    BY <2>31 DEF LookAtProcess
  <2>32. CASE StopClears(w)
    BY <2>32 DEF StopClears
  <2>33. CASE StopEnds(w)
    BY <2>33 DEF StopEnds, EndProcess
  <2>34. CASE EndUnwarmed(w)
    BY <2>34 DEF EndUnwarmed, EndProcess, Failed
  <2>35. CASE EndServed(w)
    BY <2>35 DEF EndServed, EndProcess
  <2> QED
    BY <2>1, <2>2, <2>3, <2>4, <2>5, <2>6, <2>7, <2>8, <2>9, <2>10, <2>11, <2>12, <2>13,
       <2>14, <2>15, <2>16, <2>17, <2>18, <2>19, <2>20, <2>21, <2>22,
       <2>31, <2>32, <2>33, <2>34, <2>35 DEF Step, Main, Worker
<1> QED
  BY <1>2, <1>3

-----------------------------------------------------------------------------
(* The processes *)

\* A step of a wrapper keeps the processes in agreement.
LEMMA StepProcs ==
    ASSUME TypeOK, ThreadsAgree, ProcsAgree, NEW w \in Wrappers, Step(w)
    PROVE  ProcsAgree'
<1> USE SocketAssumption, JudgeAssumption
    DEF TypeOK, SocketTypeOK, ProcsAgree, MayForget, NoneForgotten, Remembered,
        OneJudgmentPerProcess, peerVars, socketVars, judgeVars, locals
<1>1. CASE (Serve(w) \/ PushFails(w)) /\ UNCHANGED judgeVars
  <2>1. /\ UNCHANGED judgeVars
        /\ \A v \in Wrappers : io'[v] = io[v] \/ (io'[v] # "clear" /\ io[v] # "exited")
    BY <1>1, ServeLeavesJudge
  <2> QED
    BY <2>1
<1>2. CASE \E c \in Judged : Refuse(w, c)
  BY <1>2 DEF Refuse, SettleJudged, Settling, Handled, Forget, Close, Answer
<1>3. CASE \E c \in Judged : PutRequest(w, c)
  BY <1>3 DEF PutRequest, SettleJudged, Settling, Outcome, Available
<1>4. CASE Claim(w)
  BY <1>4 DEF Claim, Handled, Forget
<1>5. CASE StopDrains(w)
  BY <1>5 DEF StopDrains, Answer, Close
<1>6. CASE Exit(w)
  BY <1>6 DEF Exit, Ends, ProcessEnds
<1>7. CASE Killed(w)
  BY <1>7 DEF Killed, Ends, ProcessEnds
<1>8. CASE StopJudge(w)
  BY <1>8 DEF StopJudge
<1>9. CASE EnsureStarted(w)
  BY <1>9 DEF EnsureStarted, ThreadsAgree
<1>10. CASE LoopHead(w)
  BY <1>10 DEF LoopHead, ThreadsAgree
<1>11. CASE LookAtProcess(w)
  BY <1>11 DEF LookAtProcess
<1>12. CASE SpawnFails(w)
  BY <1>12 DEF SpawnFails, Failed, ThreadsAgree
<1>13. CASE SpawnRaises(w)
  BY <1>13 DEF SpawnRaises
<1>14. CASE WarmupDone(w)
  BY <1>14 DEF WarmupDone
<1>15. CASE SetReady(w)
  BY <1>15 DEF SetReady
<1>16. CASE GetTimesOut(w)
  BY <1>16 DEF GetTimesOut
<1>17. CASE GetRequest(w)
  BY <1>17 DEF GetRequest
<1>18. CASE ReplyAndClose(w)
  BY <1>18 DEF ReplyAndClose, Answer, Close
<1>19. CASE StopReads(w)
  BY <1>19 DEF StopReads, ThreadsAgree
<1>20. CASE StopClears(w)
  BY <1>20 DEF StopClears, ThreadsAgree
<1>21. CASE StopEnds(w)
  BY <1>21 DEF StopEnds, EndProcess, ThreadsAgree
<1>22. CASE WarmupFails(w)
  BY <1>22 DEF WarmupFails, TakeProcess, ThreadsAgree
<1>23. CASE EndUnwarmed(w)
  BY <1>23 DEF EndUnwarmed, EndProcess, Failed, ThreadsAgree
<1>24. CASE RetireServed(w)
  <2>1. /\ wpc[w] = "retire" /\ wpc' = [wpc EXCEPT ![w] = "ending"] /\ dying[w] = NULL
        /\ dying' = [dying EXCEPT ![w] = proc[w]] /\ proc' = [proc EXCEPT ![w] = NULL]
        /\ UNCHANGED <<io, stopped, owner, asked, leaving>>
    BY <1>24 DEF RetireServed, TakeProcess, ThreadsAgree
  <2>2. \A v \in Wrappers : MayForget(v)' \/ NoneForgotten(v)'
    BY <2>1
  <2> QED
    BY <2>1, <2>2
<1>25. CASE EndServed(w)
  BY <1>25 DEF EndServed, EndProcess, ThreadsAgree
<1>30. CASE Spawn(w)
  <2>1. PICK p \in Procs : /\ owner[p] = NULL /\ \A v \in Wrappers : ~Remembered(v, p)
                           /\ owner' = [owner EXCEPT ![p] = w]
                           /\ asked' = [asked EXCEPT ![p] = 0]
                           /\ proc' = [proc EXCEPT ![w] = p]
    BY <1>30, SpawnTakes
  <2>2. /\ wpc[w] = "spawn" /\ wpc' = [wpc EXCEPT ![w] = "warming"]
        /\ UNCHANGED <<io, stopped, dying, leaving>> /\ proc[w] = NULL
    BY <1>30, SpawnTakes DEF ThreadsAgree
  <2>3. ASSUME NEW v \in Wrappers, ~MayForget(v)', NEW q \in Procs, owner'[q] = v
        PROVE  Remembered(v, q)'
    BY <2>1, <2>2, <2>3
  <2>4. \A u, v \in Wrappers : proc'[u] = proc'[v] /\ proc'[v] # NULL => u = v
    BY <2>1
  <2>5. \A v \in Wrappers :
           proc'[v] # NULL /\ wpc'[v] \notin {"judging", "retire"} => asked'[proc'[v]] = 0
    BY <2>1, <2>2
  <2>6. \A v \in Wrappers : io'[v] = "clear" /\ wpc'[v] \in {"look", "spawn"} =>
           proc'[v] \in {leaving'[v], NULL}
    BY <2>1, <2>2
  <2>7. \A q \in Procs : asked'[q] <= 1
    BY <2>1
  <2> QED
    BY <2>3, <2>4, <2>5, <2>6, <2>7
<1>31. CASE AskProcess(w)
  <2>1. /\ wpc[w] = "serve" /\ wpc' = [wpc EXCEPT ![w] = "judging"]
        /\ UNCHANGED <<io, stopped, proc, owner, dying, leaving>>
        /\ \A p \in Procs : asked'[p] = IF p = proc[w] /\ asked[p] < 2 THEN asked[p] + 1
                                        ELSE asked[p]
    BY <1>31 DEF AskProcess
  <2>2. \A p \in Procs : asked'[p] <= 1
    BY <2>1
  <2> QED
    BY <2>1, <2>2
<1> QED
  BY <1>1, <1>2, <1>3, <1>4, <1>5, <1>6, <1>7, <1>8, <1>9, <1>10, <1>11, <1>12, <1>13, <1>14,
     <1>15, <1>16, <1>17, <1>18, <1>19, <1>20, <1>21, <1>22, <1>23, <1>24, <1>25, <1>30,
     <1>31 DEF Step, Main, Worker

\* What the peers do, and the death of a process, concerns no thread.
LEMMA RestInv ==
    ASSUME TypeOK, ThreadsAgree, ProcsAgree, LoopAgrees, OwnersAgree,
           (\E c \in Conns : Peer(c)) \/ (\E p \in Procs : ProcessDies(p))
    PROVE  ThreadsAgree' /\ ProcsAgree' /\ LoopAgrees' /\ OwnersAgree'
<1> USE SocketAssumption DEF TypeOK, SocketTypeOK, peerVars, socketVars, judgeVars, locals
<1>1. CASE \E c \in Conns : Peer(c)
  <2>1. UNCHANGED <<io, pending, todo, client, judgeVars>>
    BY <1>1 DEF Peer, Connect, Write, Say, Leave
  <2>2. /\ begun \subseteq begun'
        /\ \A c \in Conns : conn'[c] # conn[c] =>
               c \in begun' \ begun /\ conn'[c] = "backlog"
    BY <1>1 DEF Peer, Connect, Write, Say, Leave
  <2>3. ThreadsAgree' /\ ProcsAgree' /\ LoopAgrees'
    BY <2>1 DEF ThreadsAgree, ProcsAgree, MayForget, NoneForgotten, Remembered,
                OneJudgmentPerProcess, LoopAgrees
  <2>4. OwnersAgree'
    BY <2>1, <2>2 DEF OwnersAgree, Owned
  <2> QED
    BY <2>3, <2>4
<1>2. CASE \E p \in Procs : ProcessDies(p)
  <2>1. ThreadsAgree'
    BY <1>2 DEF ProcessDies, ThreadsAgree
  <2>2. ProcsAgree'
    BY <1>2 DEF ProcessDies, ProcsAgree, MayForget, NoneForgotten, Remembered,
                OneJudgmentPerProcess
  <2>3. LoopAgrees' /\ OwnersAgree'
    BY <1>2 DEF ProcessDies, LoopAgrees, OwnersAgree, Owned
  <2> QED
    BY <2>1, <2>2, <2>3
<1> QED
  BY <1>1, <1>2

-----------------------------------------------------------------------------
(* The connections *)

\* A step of a wrapper keeps its loop in agreement.
LEMMA StepLoop ==
    ASSUME TypeOK, LoopAgrees, NEW w \in Wrappers, Step(w)
    PROVE  LoopAgrees'
<1>1. SUFFICES ASSUME NEW v \in Wrappers
               PROVE  /\ hand'[v] # NULL <=> io'[v] = "claim"
                      /\ hand'[v] # NULL => hand'[v] \in todo'[v]
                      /\ todo'[v] \subseteq pending'[v]
                      /\ io'[v] \in {"closing", "exiting", "exited"} => slot'[v] = NULL
  BY DEF LoopAgrees
<1>2. CASE v # w
  BY <1>2, OthersWait DEF LoopAgrees
<1>3. CASE v = w
  <2> USE <1>3, SocketAssumption
      DEF TypeOK, SocketTypeOK, LoopAgrees, IoStates, Conns, Hooks, peerVars, socketVars, judgeVars, locals
  <2>1. CASE (Serve(w) \/ PushFails(w)) /\ UNCHANGED judgeVars
    <3>1. todo'[w] \subseteq pending'[w] /\ (io'[w] = "exiting" => io[w] = "closing")
      <4>1. CASE PushFails(w)
        BY <4>1 DEF PushFails, Close
      <4>2. CASE \E new \in SUBSET Backlog(w) : Tick(w, new)
        BY <4>2 DEF Tick, ReadablePending, Backlog, ClientEnded
      <4>3. CASE \E c \in Conns : SettleEof(w, c)
        BY <4>3 DEF SettleEof, Settling, Handled, Forget, Close
      <4>4. CASE \E c \in Conns : SettleNotice(w, c)
        BY <4>4 DEF SettleNotice, Settling, Handled, Forget, Close, Answer
      <4>5. CASE \E c \in Conns : SettlePromote(w, c)
        BY <4>5 DEF SettlePromote, Settling, Handled, Forget, Close, Answer
      <4>6. CASE \E c \in Conns : SettleReject(w, c)
        BY <4>6 DEF SettleReject, Settling, Handled, Forget, Close
      <4>7. CASE StopSocket(w)
        BY <4>7 DEF StopSocket, Close, Backlog
      <4> QED
        BY <2>1, <4>1, <4>2, <4>3, <4>4, <4>5, <4>6, <4>7 DEF Serve
    <3> QED
      BY <2>1, <3>1, ServeLeavesJudge
  <2>2. CASE \E c \in Judged : Refuse(w, c)
    BY <2>2 DEF Refuse, SettleJudged, Settling, Handled, Forget
  <2>3. CASE \E c \in Judged : PutRequest(w, c)
    BY <2>3 DEF PutRequest, SettleJudged, Settling, Outcome, Available
  <2>4. CASE Claim(w)
    BY <2>4 DEF Claim, Handled, Forget
  <2>5. CASE StopReads(w)
    BY <2>5 DEF StopReads
  <2>6. CASE StopDrains(w)
    BY <2>6 DEF StopDrains
  <2>7. CASE Exit(w)
    BY <2>7 DEF Exit, Ends, ProcessEnds
  <2>8. CASE Killed(w)
    BY <2>8 DEF Killed, Ends, ProcessEnds
  <2>9. CASE StopJudge(w)
    BY <2>9 DEF StopJudge
  <2>10. CASE EnsureStarted(w)
    BY <2>10 DEF EnsureStarted
  <2>11. CASE LoopHead(w)
    BY <2>11 DEF LoopHead
  <2>12. CASE Spawn(w)
    BY <2>12, SpawnTakes
  <2>13. CASE SpawnFails(w)
    BY <2>13 DEF SpawnFails, Failed
  <2>14. CASE SpawnRaises(w)
    BY <2>14 DEF SpawnRaises
  <2>15. CASE WarmupDone(w)
    BY <2>15 DEF WarmupDone
  <2>16. CASE WarmupFails(w)
    BY <2>16 DEF WarmupFails, TakeProcess
  <2>17. CASE SetReady(w)
    BY <2>17 DEF SetReady
  <2>18. CASE GetTimesOut(w)
    BY <2>18 DEF GetTimesOut
  <2>19. CASE GetRequest(w)
    BY <2>19 DEF GetRequest
  <2>20. CASE AskProcess(w)
    BY <2>20 DEF AskProcess
  <2>21. CASE ReplyAndClose(w)
    BY <2>21 DEF ReplyAndClose
  <2>22. CASE RetireServed(w)
    BY <2>22 DEF RetireServed, TakeProcess
  <2>31. CASE LookAtProcess(w)
    BY <2>31 DEF LookAtProcess
  <2>32. CASE StopClears(w)
    BY <2>32 DEF StopClears
  <2>33. CASE StopEnds(w)
    BY <2>33 DEF StopEnds, EndProcess
  <2>34. CASE EndUnwarmed(w)
    BY <2>34 DEF EndUnwarmed, EndProcess, Failed
  <2>35. CASE EndServed(w)
    BY <2>35 DEF EndServed, EndProcess
  <2> QED
    BY <2>1, <2>2, <2>3, <2>4, <2>5, <2>6, <2>7, <2>8, <2>9, <2>10, <2>11, <2>12, <2>13,
       <2>14, <2>15, <2>16, <2>17, <2>18, <2>19, <2>20, <2>21, <2>22,
       <2>31, <2>32, <2>33, <2>34, <2>35 DEF Step, Main, Worker
<1> QED
  BY <1>2, <1>3

\* A step of a wrapper touches its own connections only, and none that does
\* not exist yet.
LEMMA StepConn ==
    ASSUME TypeOK, ThreadsAgree, LoopAgrees, OwnersAgree, NEW w \in Wrappers, Step(w)
    PROVE  /\ begun' = begun
           /\ \A c \in Conns : /\ HomeOf[c] # w => conn'[c] = conn[c]
                               /\ conn[c] = "none" => conn'[c] = "none"
<1> USE SocketAssumption
    DEF TypeOK, SocketTypeOK, ThreadsAgree, LoopAgrees, OwnersAgree, Owned, Conns, Hooks,
        peerVars, socketVars, judgeVars, locals
<1>1. CASE (Serve(w) \/ PushFails(w)) /\ UNCHANGED judgeVars
  <2>1. CASE PushFails(w)
    BY <2>1, <1>1 DEF PushFails, Close
  <2>2. CASE \E new \in SUBSET Backlog(w) : Tick(w, new)
    BY <2>2, <1>1 DEF Tick, ReadablePending, Backlog, ClientEnded
  <2>3. CASE \E c \in Conns : SettleEof(w, c)
    <3>1. PICK d \in Conns : SettleEof(w, d)
      BY <2>3
    <3>2. HomeOf[d] = w /\ conn[d] = "open"
      BY <3>1 DEF SettleEof, Settling
    <3>3. begun' = begun /\ conn' = [c \in Conns |-> IF c \in {d} THEN "closed" ELSE conn[c]]
      BY <3>1 DEF SettleEof, Close
    <3> QED
      BY <3>2, <3>3
  <2>4. CASE \E c \in Conns : SettleNotice(w, c)
    BY <2>4, <1>1 DEF SettleNotice, Settling, Handled, Forget, Close, Answer
  <2>5. CASE \E c \in Conns : SettlePromote(w, c)
    <3>1. PICK d \in Conns : SettlePromote(w, d)
      BY <2>5
    <3>2. HomeOf[d] = w /\ conn[d] = "open"
      BY <3>1 DEF SettlePromote, Settling
    <3>3. begun' = begun
      BY <3>1 DEF SettlePromote
    <3>4. conn' = [c \in Conns |-> IF c \in (IF d \in left THEN {d} ELSE {}) THEN "closed"
                                   ELSE conn[c]]
      BY <3>1 DEF SettlePromote, Close
    <3> QED
      BY <3>2, <3>3, <3>4
  <2>6. CASE \E c \in Conns : SettleReject(w, c)
    BY <2>6, <1>1 DEF SettleReject, Settling, Handled, Forget, Close
  <2>7. CASE StopSocket(w)
    BY <2>7, <1>1 DEF StopSocket, Close, Backlog
  <2> QED
    BY <1>1, <2>1, <2>2, <2>3, <2>4, <2>5, <2>6, <2>7 DEF Serve

<1>2. CASE \E c \in Judged : Refuse(w, c)
  BY <1>2 DEF Refuse, SettleJudged, Settling, Handled, Forget, Close, Answer
<1>3. CASE \E c \in Judged : PutRequest(w, c)
  BY <1>3 DEF PutRequest, SettleJudged, Settling, Outcome, Available
<1>4. CASE Claim(w)
  BY <1>4 DEF Claim, Handled, Forget
<1>5. CASE StopReads(w)
  BY <1>5 DEF StopReads
<1>6. CASE StopDrains(w)
  BY <1>6 DEF StopDrains, Answer, Close
<1>7. CASE Exit(w)
  BY <1>7 DEF Exit, Ends, ProcessEnds
<1>8. CASE Killed(w)
  BY <1>8 DEF Killed, Ends, ProcessEnds
<1>9. CASE StopJudge(w)
  BY <1>9 DEF StopJudge
<1>10. CASE EnsureStarted(w)
  BY <1>10 DEF EnsureStarted
<1>11. CASE LoopHead(w)
  BY <1>11 DEF LoopHead
<1>12. CASE Spawn(w)
  BY <1>12, SpawnTakes
<1>13. CASE SpawnFails(w)
  BY <1>13 DEF SpawnFails, Failed
<1>14. CASE SpawnRaises(w)
  BY <1>14 DEF SpawnRaises
<1>15. CASE WarmupDone(w)
  BY <1>15 DEF WarmupDone
<1>16. CASE WarmupFails(w)
  BY <1>16 DEF WarmupFails, TakeProcess
<1>17. CASE SetReady(w)
  BY <1>17 DEF SetReady
<1>18. CASE GetTimesOut(w)
  BY <1>18 DEF GetTimesOut
<1>19. CASE GetRequest(w)
  BY <1>19 DEF GetRequest
<1>20. CASE AskProcess(w)
  BY <1>20 DEF AskProcess
<1>21. CASE ReplyAndClose(w)
  BY <1>21 DEF ReplyAndClose, Answer, Close
<1>22. CASE RetireServed(w)
  BY <1>22 DEF RetireServed, TakeProcess
<1>31. CASE LookAtProcess(w)
  BY <1>31 DEF LookAtProcess
<1>32. CASE StopClears(w)
  BY <1>32 DEF StopClears
<1>33. CASE StopEnds(w)
  BY <1>33 DEF StopEnds, EndProcess
<1>34. CASE EndUnwarmed(w)
  BY <1>34 DEF EndUnwarmed, EndProcess, Failed
<1>35. CASE EndServed(w)
  BY <1>35 DEF EndServed, EndProcess
<1> QED
  BY <1>1, <1>2, <1>3, <1>4, <1>5, <1>6, <1>7, <1>8, <1>9, <1>10, <1>11, <1>12, <1>13,
     <1>14, <1>15, <1>16, <1>17, <1>18, <1>19, <1>20, <1>21, <1>22,
     <1>31, <1>32, <1>33, <1>34, <1>35 DEF Step, Main, Worker

\* A step of a wrapper keeps every open connection with one owner.
LEMMA StepOwners ==
    ASSUME TypeOK, ThreadsAgree, LoopAgrees, OwnersAgree, NEW w \in Wrappers, Step(w)
    PROVE  OwnersAgree'
<1>1. /\ begun' = begun
      /\ \A c \in Conns : /\ HomeOf[c] # w => conn'[c] = conn[c]
                          /\ conn[c] = "none" => conn'[c] = "none"
  BY StepConn
<1>2. \A v \in Wrappers \ {w} :
         /\ pending'[v] = pending[v] /\ hand'[v] = hand[v] /\ client'[v] = client[v]
         /\ slot'[v] = slot[v] /\ cur'[v] = cur[v]
  BY OthersWait
<1>3. SUFFICES ASSUME NEW c \in Conns
               PROVE  /\ Owned(w, c)' <=> HomeOf[c] = w /\ conn'[c] = "open"
                      /\ c \in pending'[w] => HomeOf[c] = w
                      /\ c \in pending'[w] /\ c # hand'[w] =>
                            c \notin {client'[w], slot'[w], cur'[w]}
                      /\ c = slot'[w] => c # cur'[w]
  <2>1. ASSUME NEW v \in Wrappers \ {w}, NEW d \in Conns
        PROVE  /\ Owned(v, d)' <=> HomeOf[d] = v /\ conn'[d] = "open"
               /\ d \in pending'[v] => HomeOf[d] = v
               /\ d \in pending'[v] /\ d # hand'[v] => d \notin {client'[v], slot'[v], cur'[v]}
    BY <1>1, <1>2 DEF OwnersAgree, Owned
  <2>2. \A v \in Wrappers \ {w} : slot'[v] # NULL => slot'[v] # cur'[v]
    BY <1>2 DEF OwnersAgree
  <2>3. slot'[w] # NULL => slot'[w] \in Conns
    BY StepType DEF TypeOK, Conns, Hooks
  <2>4. \A d \in Conns \ begun' : conn'[d] = "none"
    BY <1>1 DEF OwnersAgree
  <2> QED
    BY <2>1, <2>2, <2>3, <2>4 DEF OwnersAgree
<1> USE SocketAssumption
    DEF TypeOK, SocketTypeOK, ThreadsAgree, LoopAgrees, OwnersAgree, Owned, Conns, Hooks,
        peerVars, socketVars, judgeVars, locals
<1>4. CASE (Serve(w) \/ PushFails(w)) /\ UNCHANGED judgeVars
  <2>1. CASE PushFails(w)
    BY <2>1, <1>4 DEF PushFails, Close
  <2>2. CASE \E new \in SUBSET Backlog(w) : Tick(w, new)
    BY <2>2, <1>4 DEF Tick, ReadablePending, Backlog, ClientEnded
  <2>3. CASE \E d \in Conns : SettleEof(w, d)
    BY <2>3, <1>4 DEF SettleEof, Settling, Handled, Forget, Close
  <2>4. CASE \E d \in Conns : SettleNotice(w, d)
    BY <2>4, <1>4 DEF SettleNotice, Settling, Handled, Forget, Close, Answer
  <2>5. CASE \E d \in Conns : SettlePromote(w, d)
    BY <2>5, <1>4 DEF SettlePromote, Settling, Handled, Forget, Close, Answer
  <2>6. CASE \E d \in Conns : SettleReject(w, d)
    BY <2>6, <1>4 DEF SettleReject, Settling, Handled, Forget, Close
  <2>7. CASE StopSocket(w)
    BY <2>7, <1>4 DEF StopSocket, Close, Backlog
  <2> QED
    BY <1>4, <2>1, <2>2, <2>3, <2>4, <2>5, <2>6, <2>7 DEF Serve

<1>5. CASE \E d \in Judged : Refuse(w, d)
  BY <1>5 DEF Refuse, SettleJudged, Settling, Handled, Forget, Close, Answer
<1>6. CASE \E d \in Judged : PutRequest(w, d)
  BY <1>6 DEF PutRequest, SettleJudged, Settling, Outcome, Available
<1>7. CASE Claim(w)
  BY <1>7 DEF Claim, Handled, Forget
<1>8. CASE StopReads(w)
  BY <1>8 DEF StopReads
<1>9. CASE StopDrains(w)
  BY <1>9 DEF StopDrains, Answer, Close
<1>10. CASE Exit(w)
  BY <1>10 DEF Exit, Ends, ProcessEnds
<1>11. CASE Killed(w)
  BY <1>11 DEF Killed, Ends, ProcessEnds
<1>12. CASE StopJudge(w)
  BY <1>12 DEF StopJudge
<1>13. CASE EnsureStarted(w)
  BY <1>13 DEF EnsureStarted
<1>14. CASE LoopHead(w)
  BY <1>14 DEF LoopHead
<1>15. CASE Spawn(w)
  BY <1>15, SpawnTakes
<1>16. CASE SpawnFails(w)
  BY <1>16 DEF SpawnFails, Failed
<1>17. CASE SpawnRaises(w)
  BY <1>17 DEF SpawnRaises
<1>18. CASE WarmupDone(w)
  BY <1>18 DEF WarmupDone
<1>19. CASE WarmupFails(w)
  BY <1>19 DEF WarmupFails, TakeProcess
<1>20. CASE SetReady(w)
  BY <1>20 DEF SetReady
<1>21. CASE GetTimesOut(w)
  BY <1>21 DEF GetTimesOut
<1>22. CASE GetRequest(w)
  BY <1>22 DEF GetRequest
<1>23. CASE AskProcess(w)
  BY <1>23 DEF AskProcess
<1>24. CASE ReplyAndClose(w)
  BY <1>24 DEF ReplyAndClose, Answer, Close
<1>25. CASE RetireServed(w)
  BY <1>25 DEF RetireServed, TakeProcess
<1>31. CASE LookAtProcess(w)
  BY <1>31 DEF LookAtProcess
<1>32. CASE StopClears(w)
  BY <1>32 DEF StopClears
<1>33. CASE StopEnds(w)
  BY <1>33 DEF StopEnds, EndProcess
<1>34. CASE EndUnwarmed(w)
  BY <1>34 DEF EndUnwarmed, EndProcess, Failed
<1>35. CASE EndServed(w)
  BY <1>35 DEF EndServed, EndProcess
<1> QED
  BY <1>4, <1>5, <1>6, <1>7, <1>8, <1>9, <1>10, <1>11, <1>12, <1>13, <1>14, <1>15, <1>16,
     <1>17, <1>18, <1>19, <1>20, <1>21, <1>22, <1>23, <1>24, <1>25,
     <1>31, <1>32, <1>33, <1>34, <1>35 DEF Step, Main, Worker

-----------------------------------------------------------------------------
(* The judge as a service *)

Warmed(w) == Available(w) /\ io[w] # "claim"

PhaseOf(c) == IF conn[c] = "closed" THEN "over"
              ELSE IF Handed(c) THEN "accepted" ELSE "new"

\* What is handed to the judge of a wrapper is an open connection of it.
LEMMA HandedIsOpen ==
    ASSUME OwnersAgree, NEW c \in Judged, NEW w \in Wrappers, c \in {slot[w], cur[w]}
    PROVE  HomeOf[c] = w /\ conn[c] = "open"
BY DEF OwnersAgree, Owned, Conns, Hooks

\* A request is handed to the judge of its own wrapper.
LEMMA HandedAtHome ==
    ASSUME OwnersAgree, NEW c \in Judged
    PROVE  Handed(c) <=> c \in {slot[HomeOf[c]], cur[HomeOf[c]]}
BY HandedIsOpen, SocketAssumption DEF Handed, Conns, Hooks

LEMMA HandedAtHomeNext ==
    ASSUME OwnersAgree', NEW c \in Judged
    PROVE  Handed(c)' <=> c \in {slot'[HomeOf[c]], cur'[HomeOf[c]]}
<1>1. \A w \in Wrappers : c \in {slot'[w], cur'[w]} => HomeOf[c] = w
  BY DEF OwnersAgree, Owned, Conns, Hooks
<1> QED
  BY <1>1, SocketAssumption DEF Handed, Conns, Hooks

\* An idle judge has accepted nothing.
LEMMA IdleIsNotBusy ==
    ASSUME OwnersAgree, NEW w \in Wrappers, slot[w] = NULL, cur[w] = NULL
    PROVE  ~Service!Busy(w)
<1> SUFFICES ASSUME NEW c \in Judged, HomeOf[c] = w, PhaseOf(c) = "accepted" PROVE FALSE
  BY DEF Service!Busy, Service!Mine, PhaseOf
<1>1. PICK v \in Wrappers : c \in {slot[v], cur[v]}
  BY DEF PhaseOf, Handed
<1>2. v = w
  BY <1>1, HandedIsOpen
<1> QED
  BY <1>1, <1>2, SocketAssumption DEF Conns, Hooks

\* Nothing but the end of a warmup makes a judge warm.
LEMMA WarmthIsWon ==
    ASSUME TypeOK, NEW w \in Wrappers, Step(w), SetReady(w) => ~Warmed(w)'
    PROVE  Warmed(w)' => Warmed(w)
<1> USE DEF Warmed, Available, TypeOK, SocketTypeOK, peerVars, socketVars, judgeVars, locals
<1>1. CASE (Serve(w) \/ PushFails(w)) /\ UNCHANGED judgeVars
  BY <1>1, ServeLeavesJudge
<1>2. CASE \E c \in Judged : Refuse(w, c)
  BY <1>2 DEF Refuse, SettleJudged, Settling, Handled, Forget, Close, Answer
<1>3. CASE \E c \in Judged : PutRequest(w, c)
  BY <1>3 DEF PutRequest, SettleJudged, Settling, Outcome, Available
<1>4. CASE Claim(w)
  BY <1>4 DEF Claim, Handled, Forget
<1>5. CASE StopReads(w)
  BY <1>5 DEF StopReads
<1>6. CASE StopDrains(w)
  BY <1>6 DEF StopDrains, Answer, Close
<1>7. CASE Exit(w)
  BY <1>7 DEF Exit, Ends, ProcessEnds
<1>8. CASE Killed(w)
  BY <1>8 DEF Killed, Ends, ProcessEnds
<1>9. CASE StopJudge(w)
  BY <1>9 DEF StopJudge
<1>10. CASE EnsureStarted(w)
  BY <1>10 DEF EnsureStarted
<1>11. CASE LoopHead(w)
  BY <1>11 DEF LoopHead
<1>12. CASE Spawn(w)
  BY <1>12, SpawnTakes
<1>13. CASE SpawnFails(w)
  BY <1>13 DEF SpawnFails, Failed
<1>14. CASE SpawnRaises(w)
  BY <1>14 DEF SpawnRaises
<1>15. CASE WarmupDone(w)
  BY <1>15 DEF WarmupDone
<1>16. CASE WarmupFails(w)
  BY <1>16 DEF WarmupFails, TakeProcess
<1>17. CASE SetReady(w)
  BY <1>17 DEF SetReady
<1>18. CASE GetTimesOut(w)
  BY <1>18 DEF GetTimesOut
<1>19. CASE GetRequest(w)
  BY <1>19 DEF GetRequest
<1>20. CASE AskProcess(w)
  BY <1>20 DEF AskProcess
<1>21. CASE ReplyAndClose(w)
  BY <1>21 DEF ReplyAndClose, Answer, Close
<1>22. CASE RetireServed(w)
  BY <1>22 DEF RetireServed, TakeProcess
<1>31. CASE LookAtProcess(w)
  BY <1>31 DEF LookAtProcess
<1>32. CASE StopClears(w)
  BY <1>32 DEF StopClears
<1>33. CASE StopEnds(w)
  BY <1>33 DEF StopEnds, EndProcess
<1>34. CASE EndUnwarmed(w)
  BY <1>34 DEF EndUnwarmed, EndProcess, Failed
<1>35. CASE EndServed(w)
  BY <1>35 DEF EndServed, EndProcess
<1> QED
  BY <1>1, <1>2, <1>3, <1>4, <1>5, <1>6, <1>7, <1>8, <1>9, <1>10, <1>11, <1>12, <1>13,
     <1>14, <1>15, <1>16, <1>17, <1>18, <1>19, <1>20, <1>21, <1>22,
     <1>31, <1>32, <1>33, <1>34, <1>35 DEF Step, Main, Worker

\* Every step but an acceptance leaves the requests as they are, or ends
\* some of the wrapper's.
LEMMA OtherStepsFinish ==
    ASSUME TypeOK, ThreadsAgree, LoopAgrees, OwnersAgree, NEW w \in Wrappers, Step(w),
           ~\E d \in Judged : PutRequest(w, d), NEW c \in Judged
    PROVE  PhaseOf(c)' = PhaseOf(c) \/ (HomeOf[c] = w /\ PhaseOf(c)' = "over")
<1>2. SUFFICES PhaseOf(c)' = PhaseOf(c) \/ (HomeOf[c] = w /\ conn'[c] = "closed")
  BY DEF PhaseOf
<1>3. UNCHANGED <<slot, cur>> /\ (conn'[c] = "closed" <=> conn[c] = "closed") =>
          PhaseOf(c)' = PhaseOf(c)
  BY DEF PhaseOf, Handed
<1>4. c \in Conns /\ c # NULL
  BY SocketAssumption DEF Conns, Hooks
<1>0. HomeOf[c] # w => PhaseOf(c)' = PhaseOf(c)
  BY <1>4, OthersWait, StepConn, StepOwners, HandedAtHome, HandedAtHomeNext, SocketAssumption
     DEF PhaseOf
<1>a. HomeOf[c] = w /\ conn'[c] # "closed"
        /\ (conn'[c] = "closed" <=> conn[c] = "closed")
        /\ (c \in {slot'[w], cur'[w]} <=> c \in {slot[w], cur[w]}) => PhaseOf(c)' = PhaseOf(c)
  BY StepOwners, HandedAtHome, HandedAtHomeNext DEF PhaseOf
<1> USE SocketAssumption, <1>3, <1>4
    DEF TypeOK, SocketTypeOK, ThreadsAgree, LoopAgrees, OwnersAgree, Owned, Conns, Hooks,
        peerVars, socketVars, judgeVars, locals
<1>5. CASE (Serve(w) \/ PushFails(w)) /\ UNCHANGED judgeVars
  <2>1. CASE PushFails(w)
    BY <2>1, <1>5 DEF PushFails, Close
  <2>2. CASE \E new \in SUBSET Backlog(w) : Tick(w, new)
    BY <2>2, <1>5 DEF Tick, ReadablePending, Backlog, ClientEnded
  <2>3. CASE \E d \in Conns : SettleEof(w, d)
    BY <2>3, <1>5 DEF SettleEof, Settling, Handled, Forget, Close
  <2>4. CASE \E d \in Conns : SettleNotice(w, d)
    BY <2>4, <1>5 DEF SettleNotice, Settling, Handled, Forget, Close, Answer
  <2>5. CASE \E d \in Conns : SettlePromote(w, d)
    BY <2>5, <1>5 DEF SettlePromote, Settling, Handled, Forget, Close, Answer
  <2>6. CASE \E d \in Conns : SettleReject(w, d)
    BY <2>6, <1>5 DEF SettleReject, Settling, Handled, Forget, Close
  <2>7. CASE StopSocket(w)
    BY <2>7, <1>5 DEF StopSocket, Close, Backlog
  <2> QED
    BY <1>5, <2>1, <2>2, <2>3, <2>4, <2>5, <2>6, <2>7 DEF Serve

<1>6. CASE \E d \in Judged : Refuse(w, d)
  BY <1>6 DEF Refuse, SettleJudged, Settling, Handled, Forget, Close, Answer
<1>7. CASE \E d \in Judged : PutRequest(w, d)
  BY <1>7
<1>8. CASE Claim(w)
  BY <1>8 DEF Claim, Handled, Forget
<1>9. CASE StopReads(w)
  BY <1>9 DEF StopReads
<1>10. CASE StopDrains(w)
  BY <1>10, <1>0, <1>a DEF StopDrains, Answer, Close
<1>11. CASE Exit(w)
  BY <1>11, <1>0, <1>a DEF Exit, Ends, ProcessEnds
<1>12. CASE Killed(w)
  BY <1>12, <1>0, <1>a DEF Killed, Ends, ProcessEnds
<1>13. CASE StopJudge(w)
  BY <1>13 DEF StopJudge
<1>14. CASE EnsureStarted(w)
  BY <1>14 DEF EnsureStarted
<1>15. CASE LoopHead(w)
  BY <1>15 DEF LoopHead
<1>16. CASE Spawn(w)
  BY <1>16, SpawnTakes
<1>17. CASE SpawnFails(w)
  BY <1>17 DEF SpawnFails, Failed
<1>18. CASE SpawnRaises(w)
  BY <1>18 DEF SpawnRaises
<1>19. CASE WarmupDone(w)
  BY <1>19 DEF WarmupDone
<1>20. CASE WarmupFails(w)
  BY <1>20 DEF WarmupFails, TakeProcess
<1>21. CASE SetReady(w)
  BY <1>21 DEF SetReady
<1>22. CASE GetTimesOut(w)
  BY <1>22 DEF GetTimesOut
<1>23. CASE GetRequest(w)
  BY <1>23, <1>0, <1>a DEF GetRequest
<1>24. CASE AskProcess(w)
  BY <1>24 DEF AskProcess
<1>25. CASE ReplyAndClose(w)
  BY <1>25, <1>0, <1>a DEF ReplyAndClose, Answer, Close
<1>26. CASE RetireServed(w)
  BY <1>26 DEF RetireServed, TakeProcess
<1>31. CASE LookAtProcess(w)
  BY <1>31 DEF LookAtProcess
<1>32. CASE StopClears(w)
  BY <1>32 DEF StopClears
<1>33. CASE StopEnds(w)
  BY <1>33 DEF StopEnds, EndProcess
<1>34. CASE EndUnwarmed(w)
  BY <1>34 DEF EndUnwarmed, EndProcess, Failed
<1>35. CASE EndServed(w)
  BY <1>35 DEF EndServed, EndProcess
<1> QED
  BY <1>5, <1>6, <1>7, <1>8, <1>9, <1>10, <1>11, <1>12, <1>13, <1>14, <1>15, <1>16, <1>17,
     <1>18, <1>19, <1>20, <1>21, <1>22, <1>23, <1>24, <1>25, <1>26,
     <1>31, <1>32, <1>33, <1>34, <1>35 DEF Step, Main, Worker

\* A step that ends requests, or does nothing the service can see.
LEMMA Finishes ==
    ASSUME NEW w \in Wrappers,
           Warmed(w)' => Warmed(w),
           \A v \in Wrappers \ {w} : Warmed(v)' <=> Warmed(v),
           \A c \in Judged : PhaseOf(c)' = PhaseOf(c)
                               \/ (HomeOf[c] = w /\ PhaseOf(c)' = "over")
    PROVE  Service!Next
<1> DEFINE W == [v \in Wrappers |-> Warmed(v)]
           P == [c \in Judged |-> PhaseOf(c)]
           S == {c \in Judged : HomeOf[c] = w /\ PhaseOf(c)' = "over"}
<1>1. P' = [c \in Judged |-> IF c \in S THEN "over" ELSE P[c]]
  <2>1. \A c \in Judged : PhaseOf(c)' = IF c \in S THEN "over" ELSE P[c]
    OBVIOUS
  <2>2. P' = [c \in Judged |-> PhaseOf(c)']
    OBVIOUS
  <2> HIDE DEF S, P
  <2> QED
    BY <2>1, <2>2
<1>2. UNCHANGED W \/ W' = [W EXCEPT ![w] = FALSE]
  <2>1. CASE Warmed(w)' <=> Warmed(w)
    <3>1. \A v \in Wrappers : Warmed(v)' = Warmed(v)
      BY <2>1 DEF Warmed
    <3> QED
      BY <3>1
  <2>2. CASE ~Warmed(w)'
    <3>1. \A v \in Wrappers : Warmed(v)' = IF v = w THEN FALSE ELSE Warmed(v)
      BY <2>2 DEF Warmed
    <3> QED
      BY <3>1
  <2> QED
    BY <2>1, <2>2
<1>3. S \in SUBSET Service!Mine(w)
  BY DEF Service!Mine
<1>4. Service!Finish(w)
  BY <1>1, <1>2, <1>3 DEF Service!Finish, Warmed, PhaseOf
<1> QED
  BY <1>4 DEF Service!Next

\* The end of a warmup, unless the I/O thread is about to claim.
LEMMA WarmupWarms ==
    ASSUME TypeOK, ThreadsAgree, OwnersAgree, NEW w \in Wrappers, SetReady(w), Warmed(w)'
    PROVE  Service!Next
<1> DEFINE W == [v \in Wrappers |-> Warmed(v)]
<1>1. slot[w] = NULL /\ cur[w] = NULL
  BY DEF SetReady, ThreadsAgree, Warmed, Available, socketVars
<1>2. ~Service!Busy(w)
  BY <1>1, IdleIsNotBusy
<1>3. W' = [W EXCEPT ![w] = TRUE]
  <2>1. \A v \in Wrappers : Warmed(v)' = IF v = w THEN TRUE ELSE Warmed(v)
    BY DEF SetReady, Warmed, Available, TypeOK, SocketTypeOK, socketVars
  <2> QED
    BY <2>1
<1>4. UNCHANGED <<conn, slot, cur>>
  BY DEF SetReady, socketVars
<1>5. UNCHANGED [c \in Judged |-> IF conn[c] = "closed" THEN "over"
                                 ELSE IF Handed(c) THEN "accepted" ELSE "new"]
  BY <1>4 DEF Handed
<1> QED
  BY <1>2, <1>3, <1>5 DEF Service!Next, Service!Warm, Warmed, Available

\* Putting a request into the queue accepts it.
LEMMA PutAccepts ==
    ASSUME TypeOK, ThreadsAgree, LoopAgrees, OwnersAgree, OwnersAgree',
           NEW w \in Wrappers, NEW c \in Judged, PutRequest(w, c)
    PROVE  Service!Next
<1> DEFINE W == [v \in Wrappers |-> Warmed(v)]
           P == [d \in Judged |-> PhaseOf(d)]
<1>1. /\ io[w] = "settle" /\ ready[w] /\ ~stopped[w] /\ slot[w] = NULL /\ c \in todo[w]
      /\ slot' = [slot EXCEPT ![w] = c] /\ io' = [io EXCEPT ![w] = "claim"]
      /\ ~dead[w] /\ UNCHANGED <<conn, cur, ready, stopped, dead>>
  BY DEF PutRequest, SettleJudged, Settling, Outcome, Available
<1>2. cur[w] = NULL
  BY <1>1 DEF ThreadsAgree
<1>3. ~Service!Busy(w)
  BY <1>1, <1>2, IdleIsNotBusy
<1>4. c \in Conns /\ c # NULL
  BY SocketAssumption DEF Conns, Hooks
<1>5. c \in pending[w] /\ c # hand[w]
  BY <1>1, <1>4 DEF LoopAgrees
<1>6. HomeOf[c] = w /\ conn[c] = "open"
  BY <1>4, <1>5 DEF OwnersAgree, Owned
<1>7. PhaseOf(c) = "new"
  BY <1>1, <1>2, <1>4, <1>6, HandedAtHome DEF PhaseOf
<1>8. P' = [P EXCEPT ![c] = "accepted"]
  <2>1. ASSUME NEW d \in Judged
        PROVE  PhaseOf(d)' = IF d = c THEN "accepted" ELSE PhaseOf(d)
    <3>1. d \in Conns /\ d # NULL /\ HomeOf[d] \in Wrappers
      BY SocketAssumption DEF Conns, Hooks
    <3>2. Handed(d)' <=> d \in {slot'[HomeOf[d]], cur'[HomeOf[d]]}
      BY HandedAtHomeNext
    <3>3. Handed(d) <=> d \in {slot[HomeOf[d]], cur[HomeOf[d]]}
      BY HandedAtHome
    <3>4. Handed(d)' <=> d = c \/ Handed(d)
      BY <1>1, <1>2, <1>6, <3>1, <3>2, <3>3 DEF TypeOK
    <3> QED
      BY <1>1, <1>6, <3>4 DEF PhaseOf
  <2> QED
    BY <2>1
<1>9. W[w] /\ W' = [W EXCEPT ![w] = FALSE]
  <2>1. \A v \in Wrappers : Warmed(v)' = IF v = w THEN FALSE ELSE Warmed(v)
    BY <1>1 DEF Warmed, Available, TypeOK, SocketTypeOK
  <2>2. Warmed(w)
    BY <1>1 DEF Warmed, Available
  <2> QED
    BY <2>1, <2>2
<1>10. c \in Service!Mine(w) /\ P[c] = "new"
  BY <1>6, <1>7 DEF Service!Mine
<1> QED
  BY <1>3, <1>8, <1>9, <1>10 DEF Service!Next, Service!Accept, Warmed, Available, PhaseOf

\* What the service shows is a function of five variables.
LEMMA ServiceStutters ==
    UNCHANGED <<ready, stopped, dead, io, slot, cur>>
      /\ (\A c \in Judged : conn'[c] = "closed" <=> conn[c] = "closed")
        => UNCHANGED Service!vars
BY DEF Service!vars, Handed, Available

-----------------------------------------------------------------------------
(* The invariant *)

LEMMA InitInv == Init => IInv
<1> SUFFICES ASSUME Init PROVE IInv
  OBVIOUS
<1>1. TypeOK
  BY InitType
<1>2. ThreadsAgree
  BY DEF Init, SocketInit, ThreadsAgree
<1>3. ProcsAgree
  BY SocketAssumption DEF Init, SocketInit, ProcsAgree, NoneForgotten, OneJudgmentPerProcess
<1>4. LoopAgrees
  BY DEF Init, SocketInit, LoopAgrees
<1>5. OwnersAgree
  BY SocketAssumption DEF Init, SocketInit, OwnersAgree, Owned
<1> QED
  BY <1>1, <1>2, <1>3, <1>4, <1>5 DEF IInv

LEMMA NextInv == IInv /\ [Next]_vars => IInv'
<1> SUFFICES ASSUME IInv, [Next]_vars PROVE IInv'
  OBVIOUS
<1> USE DEF IInv
<1>1. CASE \E w \in Wrappers : Step(w)
  BY <1>1, StepType, StepThreads, StepProcs, StepLoop, StepOwners
<1>2. CASE (\E c \in Conns : Peer(c)) \/ (\E p \in Procs : ProcessDies(p))
  BY <1>2, RestType, RestInv
<1>3. CASE UNCHANGED vars
  BY <1>3 DEF vars, peerVars, socketVars, judgeVars, locals, TypeOK, SocketTypeOK, ThreadsAgree,
              ProcsAgree, MayForget, NoneForgotten, Remembered, OneJudgmentPerProcess, LoopAgrees, OwnersAgree, Owned
<1> QED
  BY <1>1, <1>2, <1>3 DEF Next, Step

LEMMA Invariance == Spec => []IInv
<1>1. Init => IInv
  BY InitInv
<1>2. IInv /\ [Next]_vars => IInv'
  BY NextInv
<1> QED
  BY <1>1, <1>2, PTL DEF Spec

-----------------------------------------------------------------------------
(* Theorems *)

\* The judge and the socket keep their types.
THEOREM TypeCorrect == Spec => []TypeOK
<1>1. IInv => TypeOK
  BY DEF IInv
<1> QED
  BY <1>1, Invariance, PTL

\* The two threads and the two modules never both own a connection, and none
\* is left open without an owner.
THEOREM OneOwner == Spec => []SocketHasOneOwner
<1>1. IInv => SocketHasOneOwner
  <2> SUFFICES ASSUME IInv, NEW w \in Wrappers
               PROVE  LET waiting == pending[w] \ {hand[w]}
                          held == {client[w], slot[w], cur[w]} \ {NULL} IN
                      /\ waiting \cup held = Open(w)
                      /\ waiting \cap held = {}
                      /\ slot[w] # NULL => slot[w] # cur[w]
    BY DEF SocketHasOneOwner
  <2>1. {client[w], slot[w], cur[w]} \ {NULL} \subseteq Conns /\ pending[w] \subseteq Conns
    BY DEF IInv, TypeOK, SocketTypeOK, Conns, Hooks
  <2>2. NULL \notin Conns
    BY SocketAssumption
  <2> QED
    BY <2>1, <2>2 DEF IInv, OwnersAgree, Owned, Open
<1> QED
  BY <1>1, Invariance, PTL

\* Outside the hand-over a judge that says it is ready is idle, warm, and
\* has an empty queue, whatever the order of the two threads' statements.
THEOREM ReadyIsIdle == Spec => []ReadyMeansIdle
<1>1. IInv => ReadyMeansIdle
  BY DEF IInv, ThreadsAgree, ProcsAgree, ReadyMeansIdle
<1> QED
  BY <1>1, Invariance, PTL

\* No process is ever asked for a second judgment.
THEOREM JudgmentsAreClean == Spec => []OneJudgmentPerProcess
<1>1. IInv => OneJudgmentPerProcess
  BY DEF IInv, ProcsAgree
<1> QED
  BY <1>1, Invariance, PTL

\* A wrapper that sweeps the judge's directory has no process in it but the
\* one that stop() is terminating at that moment.
THEOREM SweepIsSafe == Spec => []SweepSparesOwnJudge
<1>1. ASSUME IInv, NEW w \in Wrappers, wpc[w] = "spawn", NEW p \in Procs, owner[p] = w
      PROVE  p = leaving[w]
  <2>1. proc[w] = NULL /\ dying[w] = NULL /\ io[w] # "exited"
    BY <1>1 DEF IInv, ThreadsAgree
  <2>2. Remembered(w, p)
    BY <1>1, <2>1 DEF IInv, ProcsAgree, MayForget, NoneForgotten
  <2> QED
    BY <2>1, <2>2, JudgeAssumption DEF Remembered
<1>2. IInv => SweepSparesOwnJudge
  BY <1>1 DEF SweepSparesOwnJudge
<1> QED
  BY <1>2, Invariance, PTL

\* The two threads implement the judge that its callers are promised.
THEOREM Refinement == Spec => JudgeIsAService
<1>1. Init => Service!Init
  <2> SUFFICES ASSUME Init PROVE Service!Init
    OBVIOUS
  <2>1. \A c \in Judged : c \in Conns /\ c # NULL
    BY SocketAssumption DEF Conns, Hooks
  <2>2. \A c \in Judged : ~Handed(c) /\ conn[c] # "closed"
    BY <2>1 DEF Init, SocketInit, Handed
  <2>3. \A w \in Wrappers : ~ready[w]
    BY DEF Init
  <2> QED
    BY <2>2, <2>3 DEF Service!Init, Available
<1>2. IInv /\ IInv' /\ [Next]_vars => [Service!Next]_(Service!vars)
  <2> SUFFICES ASSUME IInv, IInv', [Next]_vars PROVE Service!Next \/ UNCHANGED Service!vars
    OBVIOUS
  <2> USE DEF IInv
  <2>1. ASSUME NEW w \in Wrappers, Step(w) PROVE Service!Next
    <3>1. CASE \E c \in Judged : PutRequest(w, c)
      BY <3>1, PutAccepts
    <3>2. CASE SetReady(w) /\ Warmed(w)'
      BY <3>2, WarmupWarms
    <3>3. CASE /\ ~\E c \in Judged : PutRequest(w, c)
               /\ SetReady(w) => ~Warmed(w)'
      <4>1. /\ Warmed(w)' => Warmed(w)
            /\ \A c \in Judged : PhaseOf(c)' = PhaseOf(c)
                                  \/ (HomeOf[c] = w /\ PhaseOf(c)' = "over")
        BY <2>1, <3>3, WarmthIsWon, OtherStepsFinish
      <4>2. \A v \in Wrappers \ {w} : Warmed(v)' <=> Warmed(v)
        BY <2>1, OthersWait DEF Warmed, Available
      <4> QED
        BY <4>1, <4>2, Finishes
    <3> QED
      BY <3>1, <3>2, <3>3
  <2>2. CASE \E c \in Conns : Peer(c)
    <3>1. UNCHANGED <<ready, stopped, dead, io, slot, cur>>
      BY <2>2 DEF Peer, Connect, Write, Say, Leave, socketVars, judgeVars, locals
    <3>2. \A c \in Judged : conn'[c] = "closed" <=> conn[c] = "closed"
      <4>1. \A c \in Conns : conn'[c] # conn[c] => c \notin begun /\ conn'[c] = "backlog"
        BY <2>2 DEF Peer, Connect, Write, Say, Leave, socketVars, TypeOK, SocketTypeOK
      <4> QED
        BY <4>1 DEF OwnersAgree, Conns, Hooks
    <3> QED
      BY <3>1, <3>2, ServiceStutters
  <2>3. CASE (\E p \in Procs : ProcessDies(p)) \/ UNCHANGED vars
    BY <2>3, ServiceStutters DEF ProcessDies, vars, socketVars, judgeVars, locals
  <2> QED
    BY <2>1, <2>2, <2>3 DEF Next, Step
<1> QED
  BY <1>1, <1>2, Invariance, PTL DEF Spec, JudgeIsAService, Service!Spec

=============================================================================
