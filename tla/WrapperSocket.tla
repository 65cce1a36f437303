---------------------------- MODULE WrapperSocket ----------------------------
(***************************************************************************)
(* The Unix socket of a wrapper (wrapper/socket_server.py) and the part of *)
(* its I/O loop that serves it (pty_wrapper.py _io_loop): one resident     *)
(* connection for the MCP server, short ones for the hooks, and pending    *)
(* ones whose first message has not said yet which of the two they are.    *)
(*                                                                         *)
(* A message is one line; what it says is abstracted to who sends it.  The *)
(* listening queue is a set: connections may be accepted in any order.     *)
(***************************************************************************)
EXTENDS Integers, FiniteSets

CONSTANTS
    Wrappers,   \* wrapper processes
    Residents,  \* MCP server processes, over the wrapper's life
    Judged,     \* UserPromptSubmit hooks that ask for a judgment
    Notices,    \* Stop and PreCompact hooks: one signal, acked at once
    HomeOf,     \* the wrapper whose socket a process connects to
    MaxUnread,  \* BOUND: chunks a resident has sent and the wrapper not read
    NULL

Hooks == Judged \cup Notices
Conns == Residents \cup Hooks

ASSUME SocketAssumption ==
    /\ HomeOf \in [Conns -> Wrappers]
    /\ Residents \cap Hooks = {} /\ Judged \cap Notices = {}
    /\ MaxUnread \in Nat
    /\ NULL \notin Conns \cup Wrappers

VARIABLES
    begun,    \* processes that have connected
    wrote,    \* those that have sent their first message
    left,     \* those that have closed their end, or died
    unread,   \* later messages of a resident the wrapper has not read
    reply,    \* what each process was answered, NULL until it is
    conn,     \* the wrapper's end of each connection
    pending,  \* WrapperSocketServer._pending
    client,   \* WrapperSocketServer._client_sock
    todo,     \* the pending connections select() reported and not handled yet
    io,       \* where the wrapper's main thread is
    lonely,   \* residents that connected when no other resident lived, and
              \* have met none since
    turned    \* residents whose first message was answered by closing

peerVars == <<begun, wrote, left, unread>>
socketVars == <<reply, conn, pending, client, todo, io, lonely, turned>>

IoStates == {"poll", "settle", "claim", "halt", "clear", "ending", "join", "closing",
             "exiting", "exited"}
Replies == {"handshake", "ack", "verdict", "unavailable", "busy", "error", "shutting_down"}

SocketTypeOK ==
    /\ begun \in SUBSET Conns
    /\ wrote \in SUBSET Conns
    /\ left \in SUBSET Conns
    /\ unread \in [Residents -> 0..MaxUnread]
    /\ reply \in [Conns -> Replies \cup {NULL}]
    /\ conn \in [Conns -> {"none", "backlog", "open", "closed"}]
    /\ pending \in [Wrappers -> SUBSET Conns]
    /\ client \in [Wrappers -> Residents \cup {NULL}]
    /\ todo \in [Wrappers -> SUBSET Conns]
    /\ io \in [Wrappers -> IoStates]
    /\ lonely \in SUBSET Residents
    /\ turned \in SUBSET Residents

SocketInit ==
    /\ begun = {} /\ wrote = {} /\ left = {}
    /\ unread = [s \in Residents |-> 0]
    /\ reply = [c \in Conns |-> NULL]
    /\ conn = [c \in Conns |-> "none"]
    /\ pending = [w \in Wrappers |-> {}]
    /\ client = [w \in Wrappers |-> NULL]
    /\ todo = [w \in Wrappers |-> {}]
    /\ io = [w \in Wrappers |-> "poll"]
    /\ lonely = {} /\ turned = {}

Listening(w) == io[w] \notin {"exiting", "exited"}

InLoop(w) == io[w] \in {"poll", "settle", "claim"}

-----------------------------------------------------------------------------
(* The processes at the other end *)

\* Residents of the same wrapper that are alive besides s.
Rivals(s) == {r \in begun \cap Residents : r # s /\ HomeOf[r] = HomeOf[s] /\ r \notin left}

Connect(c) ==
    /\ c \notin begun
    /\ Listening(HomeOf[c])
    /\ begun' = begun \cup {c}
    /\ conn' = [conn EXCEPT ![c] = "backlog"]
    /\ lonely' = IF c \in Residents
                 THEN {s \in lonely : HomeOf[s] # HomeOf[c]}
                        \cup (IF Rivals(c) = {} THEN {c} ELSE {})
                 ELSE lonely
    /\ UNCHANGED <<wrote, left, unread, reply, pending, client, todo, io, turned>>

\* The first line: a handshake request, or what the hook has to say.
Write(c) ==
    /\ c \in begun \ (wrote \cup left)
    /\ conn[c] # "closed"
    /\ wrote' = wrote \cup {c}
    /\ UNCHANGED <<begun, left, unread, socketVars>>

\* A resident that has its handshake sends a signal.
Say(s) ==
    /\ s \in Residents \ left
    /\ reply[s] = "handshake"
    /\ conn[s] = "open"
    /\ unread[s] < MaxUnread
    /\ unread' = [unread EXCEPT ![s] = @ + 1]
    /\ UNCHANGED <<begun, wrote, left, socketVars>>

\* The process closes its end: a hook that has its answer, one that times
\* out or is killed before, a resident whose Claude Code ends.
Leave(c) ==
    /\ c \in begun \ left
    /\ left' = left \cup {c}
    /\ UNCHANGED <<begun, wrote, unread, socketVars>>

-----------------------------------------------------------------------------
(* WrapperSocketServer and the I/O loop *)

\* sendall: a peer that has left is not answered, and nobody notices.
Answer(c, r) == reply' = [reply EXCEPT ![c] = IF c \in left THEN @ ELSE r]

Close(C) == conn' = [c \in Conns |-> IF c \in C THEN "closed" ELSE conn[c]]

Backlog(w) == {c \in Conns : HomeOf[c] = w /\ conn[c] = "backlog"}

\* Mutant: the resident is read although select() did not report it.
ClientAlwaysTalks(w) == client[w] # NULL

ClientTalks(w) == client[w] # NULL /\ unread[client[w]] > 0

\* Mutant: an empty read is taken for "nothing yet".
ClientNeverEnds(w) == FALSE

\* recv returns what is left of the data before it returns end of file.
ClientEnded(w) == client[w] # NULL /\ client[w] \in left /\ unread[client[w]] = 0

ReadablePending(w) == pending[w] \cap (wrote \cup left)

\* Mutant: the resident's end of file is looked at after the newcomers.
TickClientLast(w, new) ==
    /\ io[w] = "poll"
    /\ new \subseteq Backlog(w)
    /\ Cardinality(new) <= 1 /\ (Backlog(w) # {} => new # {})
    /\ new # {} \/ ClientTalks(w) \/ ClientEnded(w) \/ ReadablePending(w) # {}
    /\ unread' = IF ClientTalks(w) THEN [unread EXCEPT ![client[w]] = @ - 1] ELSE unread
    /\ client' = [client EXCEPT ![w] = IF ClientEnded(w) /\ ReadablePending(w) = {} THEN NULL ELSE @]
    /\ conn' = [c \in Conns |-> IF c \in new THEN "open"
                                ELSE IF ClientEnded(w) /\ ReadablePending(w) = {} /\ c = client[w]
                                     THEN "closed"
                                ELSE conn[c]]
    /\ pending' = [pending EXCEPT ![w] = @ \cup new]
    /\ todo' = [todo EXCEPT ![w] = ReadablePending(w)]
    /\ io' = [io EXCEPT ![w] = IF ReadablePending(w) = {} THEN "poll" ELSE "settle"]
    /\ UNCHANGED <<begun, wrote, left, reply, lonely, turned>>

\* One pass of the loop up to the pending connections: one connection is
\* accepted, then the resident is read once (one chunk, or the end of file),
\* and the pending connections that were readable before are left to do.
Tick(w, new) ==
    /\ io[w] = "poll"
    /\ new \subseteq Backlog(w)
    /\ Cardinality(new) <= 1 /\ (Backlog(w) # {} => new # {})
    /\ new # {} \/ ClientTalks(w) \/ ClientEnded(w) \/ ReadablePending(w) # {}
    /\ unread' = IF ClientTalks(w) THEN [unread EXCEPT ![client[w]] = @ - 1] ELSE unread
    /\ client' = [client EXCEPT ![w] = IF ClientEnded(w) THEN NULL ELSE @]
    /\ conn' = [c \in Conns |-> IF c \in new THEN "open"
                                ELSE IF ClientEnded(w) /\ c = client[w] THEN "closed"
                                ELSE conn[c]]
    /\ pending' = [pending EXCEPT ![w] = @ \cup new]
    /\ todo' = [todo EXCEPT ![w] = ReadablePending(w)]
    /\ io' = [io EXCEPT ![w] = IF ReadablePending(w) = {} THEN "poll" ELSE "settle"]
    /\ UNCHANGED <<begun, wrote, left, reply, lonely, turned>>

\* The loop goes on to the next readable pending connection.
Handled(w, c) ==
    /\ todo' = [todo EXCEPT ![w] = @ \ {c}]
    /\ io' = [io EXCEPT ![w] = IF todo[w] \ {c} = {} THEN "poll" ELSE "settle"]

Settling(w, c) == io[w] = "settle" /\ c \in todo[w]

Forget(w, c) == pending' = [pending EXCEPT ![w] = @ \ {c}]

\* handle_pending_readable reads the end of file.
SettleEof(w, c) ==
    /\ Settling(w, c)
    /\ c \notin wrote
    /\ Close({c}) /\ Forget(w, c) /\ Handled(w, c)
    /\ UNCHANGED <<peerVars, reply, client, lonely, turned>>

\* _settle_hook, the message not taken by the hook dispatcher: dispatched,
\* acked and closed.
SettleNotice(w, c) ==
    /\ Settling(w, c)
    /\ c \in wrote \cap Notices
    /\ Answer(c, "ack")
    /\ Close({c}) /\ Forget(w, c) /\ Handled(w, c)
    /\ UNCHANGED <<peerVars, client, lonely, turned>>

\* _settle_resident with the slot free: the handshake is answered at once,
\* and an answer that cannot be sent closes the connection again.
SettlePromote(w, c) ==
    /\ Settling(w, c)
    /\ c \in wrote \cap Residents
    /\ client[w] = NULL
    /\ Forget(w, c) /\ Handled(w, c)
    /\ Answer(c, "handshake")
    /\ client' = [client EXCEPT ![w] = IF c \in left THEN NULL ELSE c]
    /\ Close(IF c \in left THEN {c} ELSE {})
    /\ UNCHANGED <<peerVars, lonely, turned>>

\* _settle_resident with the slot occupied.
SettleReject(w, c) ==
    /\ Settling(w, c)
    /\ c \in wrote \cap Residents
    /\ client[w] # NULL
    /\ Close({c}) /\ Forget(w, c) /\ Handled(w, c)
    /\ turned' = turned \cup {c}
    /\ UNCHANGED <<peerVars, reply, client, lonely>>

\* send (a push of the wrapper) to a resident that has left.
PushFails(w) ==
    /\ io[w] = "poll"
    /\ client[w] # NULL /\ client[w] \in left
    /\ Close({client[w]})
    /\ client' = [client EXCEPT ![w] = NULL]
    /\ UNCHANGED <<peerVars, reply, pending, todo, io, lonely, turned>>

\* WrapperSocketServer.stop; connections nobody accepted are reset.
StopSocket(w) ==
    /\ io[w] = "closing"
    /\ io' = [io EXCEPT ![w] = "exiting"]
    /\ Close(Backlog(w) \cup pending[w] \cup {client[w]})
    /\ pending' = [pending EXCEPT ![w] = {}]
    /\ client' = [client EXCEPT ![w] = NULL]
    /\ todo' = [todo EXCEPT ![w] = {}]
    /\ UNCHANGED <<peerVars, reply, lonely, turned>>

\* The process ends, by itself or killed: the kernel closes what is left.
ProcessEnds(w) ==
    /\ io' = [io EXCEPT ![w] = "exited"]
    /\ conn' = [c \in Conns |-> IF HomeOf[c] = w /\ conn[c] # "none" THEN "closed" ELSE conn[c]]
    /\ pending' = [pending EXCEPT ![w] = {}]
    /\ client' = [client EXCEPT ![w] = NULL]
    /\ todo' = [todo EXCEPT ![w] = {}]
    /\ UNCHANGED <<peerVars, reply, lonely, turned>>

-----------------------------------------------------------------------------
(* The socket by itself: no request is ever for the judge *)

LeaveLoop(w) ==
    /\ io[w] = "poll"
    /\ io' = [io EXCEPT ![w] = "closing"]
    /\ UNCHANGED <<peerVars, reply, conn, pending, client, todo, lonely, turned>>

Serve(w) ==
    \/ \E new \in SUBSET Backlog(w) : Tick(w, new)
    \/ \E c \in Conns : SettleEof(w, c) \/ SettleNotice(w, c)
                           \/ SettlePromote(w, c) \/ SettleReject(w, c)
    \/ StopSocket(w)

SocketNext ==
    \/ \E w \in Wrappers :
          \/ Serve(w)
          \/ PushFails(w)
          \/ LeaveLoop(w)
          \/ io[w] # "exited" /\ ProcessEnds(w)
    \/ \E c \in Conns : Connect(c) \/ Write(c) \/ Say(c) \/ Leave(c)

socketSystem == <<peerVars, socketVars>>

\* The wrapper's loop runs, and what has connected says its first line.
SocketFairness ==
    /\ \A w \in Wrappers : WF_socketSystem(Serve(w))
    /\ \A c \in Conns : WF_socketSystem(Write(c))

SocketSpec == SocketInit /\ [][SocketNext]_socketSystem /\ SocketFairness

-----------------------------------------------------------------------------
(* Properties of the socket *)

\* Only rivals are turned away.  A second resident attempt is rejected; the
\* MCP server that Claude Code starts after the previous one has died must
\* not be that second attempt, although the wrapper learns of the death by
\* the same loop that reads the newcomer: the order of one pass (accept,
\* resident, pending) and the pass in between do it.
OnlyRivalsAreTurnedAway == turned \cap lonely = {}

\* No handshake waits for ever.  A resident that is alone gets its answer,
\* unless it or the wrapper ends.
LoneResidentIsServed ==
    \A s \in Residents :
        (s \in lonely /\ s \in wrote) ~>
            (reply[s] = "handshake" \/ s \in left \/ s \notin lonely \/ ~InLoop(HomeOf[s]))

=============================================================================
