------------------------- MODULE WrapperSocketProofs -------------------------
(***************************************************************************)
(* Theorems of WrapperSocket, for any wrappers, servers and hooks.         *)
(***************************************************************************)
EXTENDS WrapperSocket, TLAPS

\* Where a wrapper keeps a connection it is one of its own, and in one place.
PlacesAgree ==
    /\ wrote \subseteq begun /\ turned \subseteq begun
    /\ \A c \in Conns : conn[c] # "none" => c \in begun
    /\ \A w \in Wrappers :
          /\ todo[w] \subseteq pending[w]
          /\ \A c \in pending[w] : c \in begun /\ HomeOf[c] = w /\ conn[c] = "open"
          /\ client[w] # NULL =>
                /\ client[w] \in begun /\ HomeOf[client[w]] = w
                /\ conn[client[w]] = "open" /\ client[w] \notin pending[w]

\* A resident is lonely because every other one has left.
LonelyAgree == \A s \in lonely : s \in begun /\ Rivals(s) = {}

\* By the time a lonely resident is accepted, the last words of the one
\* before it have been read, and by the time it is looked at, its end has.
SlotIsFreed ==
    \A w \in Wrappers, s \in lonely :
        /\ s \in pending[w] =>
              client[w] = NULL \/ (client[w] \in left /\ unread[client[w]] = 0)
        /\ s \in todo[w] => client[w] = NULL

IInv ==
    /\ SocketTypeOK
    /\ PlacesAgree
    /\ LonelyAgree
    /\ SlotIsFreed
    /\ OnlyRivalsAreTurnedAway

\* A step of the process at the other end.
Peer(c) == Connect(c) \/ Write(c) \/ Say(c) \/ Leave(c)

\* A step of the wrapper.
Wrapper(w) ==
    Serve(w) \/ PushFails(w) \/ LeaveLoop(w) \/ (io[w] # "exited" /\ ProcessEnds(w))

-----------------------------------------------------------------------------
(* Types *)

\* A peer's step keeps the types.
LEMMA PeerType == ASSUME SocketTypeOK, NEW c \in Conns, Peer(c) PROVE SocketTypeOK'
<1> USE SocketAssumption DEF SocketTypeOK, socketVars
<1>1. CASE Connect(c)
  <2>1. lonely' \in SUBSET Residents
    BY <1>1 DEF Connect
  <2> QED
    BY <1>1, <2>1 DEF Connect
<1>2. CASE Write(c)
  BY <1>2 DEF Write
<1>3. CASE Say(c)
  <2>1. unread[c] + 1 \in 0..MaxUnread
    BY <1>3 DEF Say
  <2> QED
    BY <1>3, <2>1 DEF Say
<1>4. CASE Leave(c)
  BY <1>4 DEF Leave
<1> QED
  BY <1>1, <1>2, <1>3, <1>4 DEF Peer

\* So does a step of the wrapper.
LEMMA WrapperType == ASSUME SocketTypeOK, NEW w \in Wrappers, Wrapper(w) PROVE SocketTypeOK'
<1> USE SocketAssumption DEF SocketTypeOK, socketVars, peerVars, IoStates, Handled, Forget, Close
<1>1. ASSUME NEW new \in SUBSET Backlog(w), Tick(w, new) PROVE SocketTypeOK'
  <2>1. unread' \in [Residents -> 0..MaxUnread]
    <3>1. CASE ~ClientTalks(w)
      BY <1>1, <3>1 DEF Tick
    <3>2. CASE ClientTalks(w)
      <4>1. client[w] \in Residents /\ unread[client[w]] - 1 \in 0..MaxUnread
        BY <3>2 DEF ClientTalks
      <4> QED
        BY <1>1, <3>2, <4>1 DEF Tick
    <3> QED
      BY <3>1, <3>2
  <2>2. new \subseteq Conns /\ ReadablePending(w) \subseteq Conns
    BY DEF Backlog, ReadablePending
  <2>3. conn' \in [Conns -> {"none", "backlog", "open", "closed"}]
    BY <1>1 DEF Tick
  <2> QED
    BY <1>1, <2>1, <2>2, <2>3 DEF Tick
<1>2. ASSUME NEW c \in Conns, SettleEof(w, c) PROVE SocketTypeOK'
  BY <1>2 DEF SettleEof
<1>3. ASSUME NEW c \in Conns, SettleNotice(w, c) PROVE SocketTypeOK'
  BY <1>3 DEF SettleNotice, Answer, Replies
<1>4. ASSUME NEW c \in Conns, SettlePromote(w, c) PROVE SocketTypeOK'
  BY <1>4 DEF SettlePromote, Answer, Replies
<1>5. ASSUME NEW c \in Conns, SettleReject(w, c) PROVE SocketTypeOK'
  BY <1>5 DEF SettleReject
<1>6. CASE StopSocket(w)
  BY <1>6 DEF StopSocket
<1>7. CASE PushFails(w)
  BY <1>7 DEF PushFails
<1>8. CASE LeaveLoop(w)
  BY <1>8 DEF LeaveLoop
<1>9. CASE ProcessEnds(w)
  BY <1>9 DEF ProcessEnds
<1> QED
  BY <1>1, <1>2, <1>3, <1>4, <1>5, <1>6, <1>7, <1>8, <1>9 DEF Wrapper, Serve

-----------------------------------------------------------------------------
(* Residents that are alone *)

\* What a peer does disturbs neither the places nor the slot.
LEMMA PeerInv == ASSUME IInv, NEW c \in Conns, Peer(c) PROVE IInv'
<1> USE SocketAssumption DEF IInv, socketVars
<1>0. SocketTypeOK'
  BY PeerType
<1>1. CASE Connect(c)
  <2>1. /\ c \notin begun /\ begun' = begun \cup {c} /\ conn' = [conn EXCEPT ![c] = "backlog"]
        /\ UNCHANGED <<wrote, left, unread, pending, client, todo, turned>>
    BY <1>1 DEF Connect
  <2>2. PlacesAgree'
    BY <2>1 DEF PlacesAgree, SocketTypeOK
  <2>3. \A s \in lonely' : s = c \/ (s \in lonely /\ (HomeOf[s] # HomeOf[c] \/ c \notin Residents))
    BY <1>1 DEF Connect
  <2>4. c \in lonely' => Rivals(c) = {}
    <3>1. c \notin lonely
      BY <2>1 DEF LonelyAgree
    <3> QED
      BY <1>1, <3>1 DEF Connect
  <2>5. LonelyAgree'
    BY <2>1, <2>3, <2>4 DEF LonelyAgree, Rivals
  <2>6. SlotIsFreed'
    BY <2>1, <2>3 DEF SlotIsFreed, PlacesAgree
  <2>7. OnlyRivalsAreTurnedAway'
    <3>1. c \notin turned
      BY <2>1 DEF PlacesAgree
    <3> QED
      BY <2>1, <2>3, <3>1 DEF OnlyRivalsAreTurnedAway
  <2> QED
    BY <1>0, <2>2, <2>5, <2>6, <2>7
<1>2. CASE Write(c)
  BY <1>0, <1>2 DEF Write, PlacesAgree, LonelyAgree, Rivals, SlotIsFreed, OnlyRivalsAreTurnedAway
<1>3. CASE Say(c)
  <2>1. /\ c \notin left /\ unread' = [unread EXCEPT ![c] = @ + 1]
        /\ UNCHANGED <<begun, wrote, left, conn, pending, client, todo, lonely, turned>>
    BY <1>3 DEF Say
  <2>2. SlotIsFreed'
    BY <2>1 DEF SlotIsFreed, SocketTypeOK
  <2> QED
    BY <1>0, <2>1, <2>2 DEF PlacesAgree, LonelyAgree, Rivals, OnlyRivalsAreTurnedAway
<1>4. CASE Leave(c)
  BY <1>0, <1>4 DEF Leave, PlacesAgree, LonelyAgree, Rivals, SlotIsFreed, OnlyRivalsAreTurnedAway
<1> QED
  BY <1>1, <1>2, <1>3, <1>4 DEF Peer

\* One pass of the loop: who is accepted meets a slot whose last words are
\* read in the same pass, and who is looked at was accepted in an earlier one.
LEMMA TickInv ==
    ASSUME IInv, MaxUnread <= 1, NEW w \in Wrappers, NEW new \in SUBSET Backlog(w), Tick(w, new)
    PROVE  PlacesAgree' /\ LonelyAgree' /\ SlotIsFreed' /\ OnlyRivalsAreTurnedAway'
<1> USE SocketAssumption DEF IInv
<1>1. /\ UNCHANGED <<begun, wrote, left, lonely, turned>>
      /\ unread' = IF ClientTalks(w) THEN [unread EXCEPT ![client[w]] = @ - 1] ELSE unread
      /\ client' = [client EXCEPT ![w] = IF ClientEnded(w) THEN NULL ELSE @]
      /\ conn' = [c \in Conns |-> IF c \in new THEN "open"
                                  ELSE IF ClientEnded(w) /\ c = client[w] THEN "closed"
                                  ELSE conn[c]]
      /\ pending' = [pending EXCEPT ![w] = @ \cup new]
      /\ todo' = [todo EXCEPT ![w] = ReadablePending(w)]
  BY DEF Tick
<1>2. /\ client'[w] = IF ClientEnded(w) THEN NULL ELSE client[w]
      /\ pending'[w] = pending[w] \cup new /\ todo'[w] = ReadablePending(w)
      /\ \A v \in Wrappers \ {w} :
            client'[v] = client[v] /\ pending'[v] = pending[v] /\ todo'[v] = todo[v]
  BY <1>1 DEF SocketTypeOK
<1>3. \A c \in new : c \in Conns /\ HomeOf[c] = w /\ conn[c] = "backlog" /\ c \in begun
  BY DEF Backlog, PlacesAgree
<1>4. \A v \in Wrappers : client[v] # NULL => client[v] \in Residents /\ client[v] \notin new
  BY <1>3 DEF SocketTypeOK, PlacesAgree
<1>5. ReadablePending(w) \subseteq pending[w]
  BY DEF ReadablePending
<1>6. PlacesAgree'
  <2>1. \A c \in Conns : conn'[c] # "none" => c \in begun
    BY <1>1, <1>3 DEF PlacesAgree
  <2>2. ASSUME NEW v \in Wrappers, client'[v] # NULL
        PROVE  /\ client'[v] \in begun /\ HomeOf[client'[v]] = v
               /\ conn'[client'[v]] = "open" /\ client'[v] \notin pending'[v]
    <3>1. /\ client'[v] = client[v] /\ client[v] \in Conns /\ client[v] \in begun
          /\ HomeOf[client[v]] = v /\ conn[client[v]] = "open" /\ client[v] \notin pending[v]
      BY <1>2, <1>4, <2>2 DEF PlacesAgree, SocketTypeOK
    <3>2. ~(ClientEnded(w) /\ client[v] = client[w])
      BY <1>2, <2>2, <3>1 DEF ClientEnded, PlacesAgree
    <3>3. conn'[client[v]] = "open"
      BY <1>1, <3>1, <3>2
    <3>4. client[v] \notin pending'[v]
      BY <1>2, <1>4, <3>1
    <3> QED
      BY <3>1, <3>3, <3>4
  <2>3. \A v \in Wrappers :
           todo'[v] \subseteq pending'[v] /\ \A c \in pending'[v] : c \in begun /\ HomeOf[c] = v
    BY <1>2, <1>3, <1>5 DEF PlacesAgree
  <2>4. ASSUME NEW v \in Wrappers, NEW c \in pending'[v] PROVE conn'[c] = "open"
    <3>1. CASE c \in new
      BY <1>1, <1>3, <3>1
    <3>2. CASE c \notin new
      <4>1. c \in Conns /\ c \in pending[v] /\ conn[c] = "open" /\ HomeOf[c] = v
        BY <1>2, <2>4, <3>2 DEF PlacesAgree, SocketTypeOK
      <4>2. ~(ClientEnded(w) /\ c = client[w])
        BY <4>1 DEF ClientEnded, PlacesAgree
      <4> QED
        BY <1>1, <3>2, <4>1, <4>2
    <3> QED
      BY <3>1, <3>2
  <2> QED
    BY <1>1, <2>1, <2>2, <2>3, <2>4 DEF PlacesAgree
<1>7. LonelyAgree' /\ OnlyRivalsAreTurnedAway'
  BY <1>1 DEF LonelyAgree, Rivals, OnlyRivalsAreTurnedAway
<1>8. SlotIsFreed'
  <2> SUFFICES ASSUME NEW v \in Wrappers, NEW s \in lonely
               PROVE  /\ s \in pending'[v] =>
                            client'[v] = NULL \/ (client'[v] \in left /\ unread'[client'[v]] = 0)
                      /\ s \in todo'[v] => client'[v] = NULL
    BY <1>1 DEF SlotIsFreed
  <2>1. CASE v # w
    <3>1. ASSUME client[v] # NULL, unread[client[v]] = 0 PROVE unread'[client[v]] = 0
      <4>1. client[v] \in Residents /\ (ClientTalks(w) => client[w] # client[v])
        BY <1>4, <3>1 DEF ClientTalks
      <4> QED
        BY <1>1, <3>1, <4>1 DEF SocketTypeOK
    <3> QED
      BY <1>2, <2>1, <3>1 DEF SlotIsFreed
  <2>2. CASE v = w /\ s \in pending[w]
    <3>1. client[w] # NULL => ClientEnded(w)
      BY <2>2 DEF SlotIsFreed, ClientEnded
    <3> QED
      BY <1>2, <2>2, <3>1
  <2>3. CASE v = w /\ s \in new /\ s \notin pending[w]
    <3>1. SUFFICES ASSUME client[w] # NULL, ~ClientEnded(w)
                   PROVE  client[w] \in left /\ unread'[client[w]] = 0
      BY <1>2, <1>5, <2>3
    <3>2. s # client[w] /\ HomeOf[s] = w /\ HomeOf[client[w]] = w /\ client[w] \in begun \cap Residents
      BY <1>3, <1>4, <2>3, <3>1 DEF PlacesAgree
    <3>3. client[w] \in left
      BY <3>2 DEF LonelyAgree, Rivals
    <3>4. unread[client[w]] \in 0..MaxUnread /\ unread[client[w]] # 0
      BY <3>1, <3>2, <3>3 DEF ClientEnded, SocketTypeOK
    <3>5. unread[client[w]] = 1 /\ ClientTalks(w)
      BY <3>1, <3>4 DEF ClientTalks
    <3>6. unread'[client[w]] = 0
      BY <1>1, <3>2, <3>5 DEF SocketTypeOK
    <3> QED
      BY <3>3, <3>6
  <2>4. CASE v = w /\ s \notin pending[w] \cup new
    BY <1>2, <1>5, <2>4
  <2> QED
    BY <2>1, <2>2, <2>3, <2>4
<1> QED
  BY <1>6, <1>7, <1>8

\* One newcomer is looked at: promoted into a free slot, or let go.
LEMMA SettleInv ==
    ASSUME IInv, NEW w \in Wrappers, NEW c \in Conns,
           SettleEof(w, c) \/ SettleNotice(w, c) \/ SettlePromote(w, c) \/ SettleReject(w, c)
    PROVE  PlacesAgree' /\ LonelyAgree' /\ SlotIsFreed' /\ OnlyRivalsAreTurnedAway'
<1> USE SocketAssumption DEF IInv, peerVars
<1>1. /\ c \in todo[w] /\ c \in pending[w] /\ c \in begun /\ HomeOf[c] = w
      /\ pending' = [pending EXCEPT ![w] = @ \ {c}] /\ todo' = [todo EXCEPT ![w] = @ \ {c}]
      /\ UNCHANGED <<begun, wrote, left, unread, lonely>>
  BY DEF SettleEof, SettleNotice, SettlePromote, SettleReject, Settling, Forget, Handled, PlacesAgree
<1>2. /\ pending'[w] = pending[w] \ {c} /\ todo'[w] = todo[w] \ {c}
      /\ \A v \in Wrappers \ {w} : pending'[v] = pending[v] /\ todo'[v] = todo[v]
  BY <1>1 DEF SocketTypeOK
<1>3. LonelyAgree'
  BY <1>1 DEF LonelyAgree, Rivals
<1>4. CASE client' = client
  <2>1. /\ UNCHANGED turned \/ (client[w] # NULL /\ turned' = turned \cup {c})
        /\ \A d \in Conns : conn'[d] = conn[d] \/ (d = c /\ conn'[d] = "closed")
    <3>1. CASE SettlePromote(w, c)
      BY <3>1 DEF SettlePromote, Close
    <3>2. CASE SettleEof(w, c) \/ SettleNotice(w, c) \/ SettleReject(w, c)
      BY <3>2 DEF SettleEof, SettleNotice, SettleReject, Close
    <3> QED
      BY <3>1, <3>2
  <2>2. c \in lonely => UNCHANGED turned
    BY <1>1, <2>1 DEF SlotIsFreed
  <2>3. \A v \in Wrappers : client[v] # NULL => client[v] # c /\ client[v] \in Conns
    BY <1>1 DEF PlacesAgree, SocketTypeOK
  <2>4. PlacesAgree'
    <3>1. turned' \subseteq begun /\ \A d \in Conns : conn'[d] # "none" => d \in begun
      BY <1>1, <2>1 DEF PlacesAgree
    <3>2. \A v \in Wrappers : client[v] # NULL => conn'[client[v]] = "open"
      BY <2>1, <2>3 DEF PlacesAgree
    <3>3. \A v \in Wrappers : todo'[v] \subseteq pending'[v] /\ pending'[v] \subseteq pending[v]
      BY <1>2 DEF PlacesAgree
    <3>4. \A v \in Wrappers : c \notin pending'[v]
      BY <1>1, <1>2 DEF PlacesAgree
    <3>5. \A v \in Wrappers : \A d \in pending'[v] : conn'[d] = "open"
      BY <2>1, <3>3, <3>4 DEF PlacesAgree, SocketTypeOK
    <3> QED
      BY <1>1, <1>4, <3>1, <3>2, <3>3, <3>5 DEF PlacesAgree
  <2>5. SlotIsFreed'
    BY <1>1, <1>2, <1>4 DEF SlotIsFreed
  <2>6. OnlyRivalsAreTurnedAway'
    BY <1>1, <2>1, <2>2 DEF OnlyRivalsAreTurnedAway
  <2> QED
    BY <1>3, <2>4, <2>5, <2>6
<1>5. CASE client' # client
  <2>1. /\ SettlePromote(w, c) /\ c \in Residents /\ c \notin left /\ UNCHANGED turned
        /\ client' = [client EXCEPT ![w] = c] /\ UNCHANGED conn
    <3>1. SettlePromote(w, c)
      BY <1>5 DEF SettleEof, SettleNotice, SettleReject
    <3>2. c \notin left
      BY <1>5, <3>1 DEF SettlePromote, SocketTypeOK
    <3>3. conn' = [d \in Conns |-> conn[d]] /\ conn' = conn
      BY <3>1, <3>2 DEF SettlePromote, Close, SocketTypeOK
    <3> QED
      BY <3>1, <3>2, <3>3 DEF SettlePromote
  <2>2. \A s \in lonely : HomeOf[s] = w => s = c
    BY <1>1, <2>1 DEF LonelyAgree, Rivals
  <2>3. client'[w] = c /\ \A v \in Wrappers \ {w} : client'[v] = client[v]
    BY <2>1 DEF SocketTypeOK
  <2>4. conn[c] = "open"
    BY <1>1 DEF PlacesAgree
  <2>5. PlacesAgree'
    BY <1>1, <1>2, <2>1, <2>3, <2>4 DEF PlacesAgree
  <2>6. SlotIsFreed'
    <3> SUFFICES ASSUME NEW v \in Wrappers, NEW s \in lonely
                 PROVE  /\ s \in pending'[v] =>
                              client'[v] = NULL \/ (client'[v] \in left /\ unread[client'[v]] = 0)
                        /\ s \in todo'[v] => client'[v] = NULL
      BY <1>1 DEF SlotIsFreed
    <3>1. CASE v # w
      BY <1>2, <2>3, <3>1 DEF SlotIsFreed
    <3>2. CASE v = w
      BY <1>2, <2>2, <3>2 DEF PlacesAgree
    <3> QED
      BY <3>1, <3>2
  <2> QED
    BY <1>1, <1>3, <2>1, <2>5, <2>6 DEF OnlyRivalsAreTurnedAway
<1> QED
  BY <1>4, <1>5

\* The slot is emptied, or nothing is left of a wrapper.
LEMMA OtherInv ==
    ASSUME IInv, NEW w \in Wrappers,
           \/ StopSocket(w) \/ PushFails(w) \/ LeaveLoop(w) \/ ProcessEnds(w)
    PROVE  PlacesAgree' /\ LonelyAgree' /\ SlotIsFreed' /\ OnlyRivalsAreTurnedAway'
<1> USE SocketAssumption DEF IInv, peerVars
<1>1. /\ UNCHANGED <<begun, wrote, left, unread, lonely, turned>>
      /\ \A v \in Wrappers \ {w} :
            client'[v] = client[v] /\ pending'[v] = pending[v] /\ todo'[v] = todo[v]
      /\ client'[w] \in {client[w], NULL}
      /\ (todo'[w] = todo[w] /\ pending'[w] = pending[w]) \/ (todo'[w] = {} /\ pending'[w] = {})
  BY DEF StopSocket, PushFails, LeaveLoop, ProcessEnds, SocketTypeOK
<1>2. LonelyAgree' /\ SlotIsFreed' /\ OnlyRivalsAreTurnedAway'
  <2>1. LonelyAgree' /\ OnlyRivalsAreTurnedAway'
    BY <1>1 DEF LonelyAgree, Rivals, OnlyRivalsAreTurnedAway
  <2>2. SlotIsFreed'
    BY <1>1 DEF SlotIsFreed
  <2> QED
    BY <2>1, <2>2
<1>3. \A c \in Conns : \/ conn'[c] = conn[c]
                       \/ conn'[c] = "closed" /\ conn[c] # "none" /\ (HomeOf[c] = w)
  <2>1. CASE StopSocket(w)
    BY <2>1 DEF StopSocket, Close, Backlog, PlacesAgree, SocketTypeOK
  <2>2. CASE PushFails(w)
    BY <2>2 DEF PushFails, Close, PlacesAgree
  <2>3. CASE LeaveLoop(w) \/ ProcessEnds(w)
    BY <2>3 DEF LeaveLoop, ProcessEnds
  <2> QED
    BY <2>1, <2>2, <2>3
<1>4. client'[w] # NULL => client'[w] = client[w] /\ conn' = conn
  BY DEF StopSocket, PushFails, LeaveLoop, ProcessEnds, SocketTypeOK
<1>5. PlacesAgree'
  <2>1. \A c \in Conns : conn'[c] # "none" => c \in begun
    BY <1>3 DEF PlacesAgree
  <2>2. ASSUME NEW v \in Wrappers, client'[v] # NULL
        PROVE  client'[v] = client[v] /\ conn'[client[v]] = conn[client[v]]
    <3>1. CASE v = w
      BY <1>4, <2>2, <3>1
    <3>2. CASE v # w
      <4>1. client'[v] = client[v] /\ client[v] \in Conns /\ HomeOf[client[v]] = v
        BY <1>1, <2>2, <3>2 DEF PlacesAgree, SocketTypeOK
      <4> QED
        BY <1>3, <3>2, <4>1
    <3> QED
      BY <3>1, <3>2
  <2>3. \A v \in Wrappers : todo'[v] \subseteq pending'[v] /\ pending'[v] \subseteq pending[v]
    BY <1>1 DEF PlacesAgree
  <2>4. ASSUME NEW v \in Wrappers, NEW c \in pending'[v] PROVE conn'[c] = "open"
    <3>1. c \in Conns /\ c \in pending[v] /\ conn[c] = "open" /\ HomeOf[c] = v
      BY <2>3, <2>4 DEF PlacesAgree, SocketTypeOK
    <3>2. CASE v # w
      BY <1>3, <3>1, <3>2
    <3>3. CASE v = w
      <4>1. (PushFails(w) \/ LeaveLoop(w)) /\ c # client[w]
        BY <2>4, <3>1, <3>3 DEF StopSocket, ProcessEnds, PlacesAgree, SocketTypeOK
      <4> QED
        BY <3>1, <4>1 DEF PushFails, LeaveLoop, Close
    <3> QED
      BY <3>2, <3>3
  <2> QED
    BY <1>1, <2>1, <2>2, <2>3, <2>4 DEF PlacesAgree
<1> QED
  BY <1>2, <1>5

-----------------------------------------------------------------------------
(* The invariant and the theorems *)

\* It holds initially.
LEMMA InitInv == SocketInit => IInv
BY SocketAssumption
   DEF SocketInit, IInv, SocketTypeOK, IoStates, PlacesAgree, LonelyAgree, SlotIsFreed,
       OnlyRivalsAreTurnedAway

\* Every step is a peer's or a wrapper's.
LEMMA StepKinds ==
    SocketNext <=> (\E w \in Wrappers : Wrapper(w)) \/ (\E c \in Conns : Peer(c))
BY DEF SocketNext, Wrapper, Peer

\* Nothing the wrapper does disturbs it, with one chunk unread at most.
LEMMA WrapperInv == ASSUME IInv, MaxUnread <= 1, NEW w \in Wrappers, Wrapper(w) PROVE IInv'
<1>1. SocketTypeOK'
  BY WrapperType DEF IInv
<1>2. PlacesAgree' /\ LonelyAgree' /\ SlotIsFreed' /\ OnlyRivalsAreTurnedAway'
  <2>1. CASE \E new \in SUBSET Backlog(w) : Tick(w, new)
    BY <2>1, TickInv
  <2>2. CASE \E c \in Conns : SettleEof(w, c) \/ SettleNotice(w, c)
                                 \/ SettlePromote(w, c) \/ SettleReject(w, c)
    BY <2>2, SettleInv
  <2>3. CASE StopSocket(w) \/ PushFails(w) \/ LeaveLoop(w) \/ ProcessEnds(w)
    BY <2>3, OtherInv
  <2> QED
    BY <2>1, <2>2, <2>3 DEF Wrapper, Serve
<1> QED
  BY <1>1, <1>2 DEF IInv

\* The socket keeps its types, for any number of unread chunks.
THEOREM TypeCorrect == SocketSpec => []SocketTypeOK
<1>1. SocketInit => SocketTypeOK
  BY InitInv DEF IInv
<1>2. SocketTypeOK /\ [SocketNext]_socketSystem => SocketTypeOK'
  <2>1. CASE UNCHANGED socketSystem
    BY <2>1 DEF socketSystem, peerVars, socketVars, SocketTypeOK
  <2> QED
    BY <2>1, StepKinds, PeerType, WrapperType
<1> QED
  BY <1>1, <1>2, PTL DEF SocketSpec

\* While a server has at most one chunk under way at a time, the wrapper
\* turns no server away but for one that is alive: the one that follows a
\* dead one is never taken for its rival, however late the death is noticed
\* (_settle_resident, handle_client_readable).
THEOREM OnlyRivals ==
    ASSUME MaxUnread <= 1
    PROVE  SocketSpec => []OnlyRivalsAreTurnedAway
<1>1. IInv /\ [SocketNext]_socketSystem => IInv'
  <2>1. CASE UNCHANGED socketSystem
    BY <2>1 DEF socketSystem, peerVars, socketVars, IInv, SocketTypeOK, PlacesAgree, LonelyAgree,
                Rivals, SlotIsFreed, OnlyRivalsAreTurnedAway
  <2> QED
    BY <2>1, StepKinds, PeerInv, WrapperInv
<1>2. IInv => OnlyRivalsAreTurnedAway
  BY DEF IInv
<1> QED
  BY InitInv, <1>1, <1>2, PTL DEF SocketSpec

=============================================================================
