-------------------------- MODULE TransitionProofs --------------------------
(***************************************************************************)
(* Theorems of Transition, for any sessions and any bounds.                *)
(***************************************************************************)
EXTENDS Transition, RespawnLemmas

\* The departing conversation is linked to a lineage that stays well formed.
LEMMA LinkOutgoingType ==
    ASSUME TypeOK
    PROVE  LinkOutgoing \in [Sessions -> Seq(Convs)]
<1>1. CASE pointer \in registered /\ CurrentConv # NULL
  <2>1. pointer \in Sessions /\ CurrentConv \in Convs
    BY <1>1, CurrentConvType DEF TypeOK, RespawnTypeOK, OrNull
  <2> QED
    BY <1>1, <2>1, LinkLineageType DEF TypeOK, LinkOutgoing
<1>2. CASE ~(pointer \in registered /\ CurrentConv # NULL)
  BY <1>2 DEF TypeOK, RespawnTypeOK, LinkOutgoing
<1> QED
  BY <1>1, <1>2

\* The signals each tool pushes are signals.
LEMMA SignalType ==
    /\ \A s \in OrNull(Sessions) : CurrentSession(s) \in Signals
    /\ \A s \in OrNull(Sessions), t \in Sessions :
          /\ [action |-> "switch", target |-> t, from |-> s] \in Signals
          /\ [action |-> "new", target |-> t, from |-> s] \in Signals
    /\ [action |-> "back"] \in Signals
BY DEF Signals, CurrentSession

\* Pushing signals keeps the wire a sequence of them.
LEMMA PushType ==
    ASSUME TypeOK, NEW m \in Signals, NEW n \in Signals,
           Push(<<m>>) \/ Push(<<m, n>>)
    PROVE  wire' \in Seq(Signals)
<1>1. <<m>> \in Seq(Signals) /\ <<m, n>> \in Seq(Signals)
  OBVIOUS
<1>2. wire \in Seq(Signals)
  BY DEF TypeOK
<1>3. wire' = wire \o <<m>> \/ wire' = wire \o <<m, n>>
  BY DEF Push
<1>4. \A t \in Seq(Signals) : wire \o t \in Seq(Signals)
  BY <1>2
<1> QED
  BY <1>1, <1>3, <1>4

\* So does reading one, which was a signal.
LEMMA ReceiveType ==
    ASSUME TypeOK, NEW action, Receive(action)
    PROVE  /\ Head(wire) \in Signals
           /\ wire' \in Seq(Signals)
BY DEF TypeOK, Receive

\* The initial states are well typed.
LEMMA InitType == Init => TypeOK
<1> SUFFICES ASSUME Init PROVE TypeOK
  OBVIOUS
<1> USE ConvAssumption, TransitionAssumption DEF OrNull
<1>a. wire \in Seq(Signals) /\ precedents \in [Sessions -> SUBSET Sessions]
  BY DEF Init
<1>b. /\ nextConv \in 1..(MaxConv + 1)
      /\ transcripts \in SUBSET Convs
      /\ newest \in OrNull(Convs)
      /\ registered \in SUBSET Sessions
      /\ lineage \in [Sessions -> Seq(Convs)]
      => TypeOK
  <2>1. running \in BOOLEAN /\ mcp \in BOOLEAN /\ busy \in BOOLEAN
        /\ initial \in OrNull(Sessions)
    BY DEF Init
  <2>2. moves \in 0..MaxMoves /\ pointer \in OrNull(Sessions)
    BY DEF Init
  <2>3. /\ child \in OrNull(Child) /\ pending \in OrNull(PendingRespawn)
        /\ mirror \in OrNull(Sessions) /\ assigned \in OrNull(Convs)
        /\ fromHook \in OrNull(Convs) /\ undo \in OrNull(Transit)
        /\ pendingFile \in OrNull(Handoff) /\ archived \in SUBSET Sessions
    BY DEF Init
  <2> QED
    BY <1>a, <2>1, <2>2, <2>3 DEF TypeOK, RespawnTypeOK
<1>1. CASE EmptyStore
  <2>1. lineage \in [Sessions -> Seq(Convs)]
    BY <1>1 DEF EmptyStore
  <2> QED
    BY <1>1, <1>b, <2>1 DEF EmptyStore
<1>2. CASE UsedStore
  <2>1. PICK n \in Convs : \E first \in [Sessions -> 1..n] :
          /\ nextConv = n + 1
          /\ transcripts = 1..n
          /\ newest \in 1..n
          /\ registered = Sessions
          /\ lineage = [s \in Sessions |-> <<first[s]>>]
    BY <1>2 DEF UsedStore
  <2>2. PICK first \in [Sessions -> 1..n] :
          /\ nextConv = n + 1
          /\ transcripts = 1..n
          /\ newest \in 1..n
          /\ registered = Sessions
          /\ lineage = [s \in Sessions |-> <<first[s]>>]
    BY <2>1
  <2>3. n \in 1..MaxConv /\ 1..n \subseteq Convs
    BY DEF Convs
  <2>4. nextConv \in 1..(MaxConv + 1) /\ transcripts \in SUBSET Convs
        /\ newest \in Convs
    BY <2>2, <2>3
  <2>5. lineage \in [Sessions -> Seq(Convs)]
    <3>1. \A s \in Sessions : <<first[s]>> \in Seq(Convs)
      BY <2>3
    <3> QED
      BY <3>1, <2>2
  <2> QED
    BY <1>b, <2>2, <2>4, <2>5
<1> QED
  BY <1>1, <1>2 DEF Init

\* The initial states and every kind of step: starting and stopping first.
LEMMA WrapperStepType ==
    ASSUME TypeOK, StartWrapper \/ CrashWrapper \/ EndWrapper
    PROVE  TypeOK'
<1> USE ConvAssumption, TransitionAssumption
    DEF OrNull, diskVars, storeVars, hostVars
<1>1. CASE StartWrapper
  <2>1. \A c \in Convs : BootChild(c) \in Child
    BY DEF BootChild, Child
  <2>2. /\ child' \in OrNull(Child)
        /\ assigned' \in OrNull(Convs)
        /\ nextConv' \in 1..(MaxConv + 1)
        /\ initial' \in OrNull(Sessions)
    <3>1. CASE BootNamed
      BY <2>1, <3>1 DEF BootNamed, Convs
    <3>2. ASSUME NEW c \in Convs, NEW s \in OrNull(Sessions), BootResumed(c, s)
          PROVE  /\ child' \in OrNull(Child)
                 /\ assigned' \in OrNull(Convs)
                 /\ nextConv' \in 1..(MaxConv + 1)
                 /\ initial' \in OrNull(Sessions)
      BY <2>1, <3>2 DEF BootResumed, TypeOK, RespawnTypeOK
    <3>3. newest # NULL => newest \in Convs
      BY DEF TypeOK, RespawnTypeOK
    <3>4. transcripts \subseteq Convs
      BY DEF TypeOK, RespawnTypeOK
    <3> QED
      BY <1>1, <3>1, <3>2, <3>3, <3>4 DEF StartWrapper
  <2>3. moves' \in 0..MaxMoves
    BY <1>1 DEF StartWrapper, Move, TypeOK
  <2> QED
    BY <1>1, <2>2, <2>3 DEF StartWrapper, TypeOK, RespawnTypeOK
<1>2. CASE CrashWrapper \/ EndWrapper
  <2>1. Halt /\ moves' \in 0..MaxMoves
    BY <1>2 DEF CrashWrapper, EndWrapper, Move, TypeOK
  <2>2. wire' \in Seq(Signals)
    BY <2>1 DEF Halt
  <2> QED
    BY <2>1, <2>2 DEF Halt, TypeOK, RespawnTypeOK
<1> QED
  BY <1>1, <1>2

LEMMA RespawnStepType ==
    ASSUME TypeOK, ScreenChanges \/ Terminate \/ ChildExits \/ Respawn
    PROVE  TypeOK'
<1> USE DEF OrNull, childVars, wrapperVars, diskVars, storeVars, hostVars
<1>1. CASE Terminate
  <2>1. pending' \in PendingRespawn
    BY <1>1 DEF Terminate, SendTerminate, TypeOK, RespawnTypeOK, PendingRespawn
  <2> QED
    BY <1>1, <2>1 DEF Terminate, TypeOK, RespawnTypeOK
<1>2. CASE ChildExits
  BY <1>2 DEF ChildExits, ExitChild, TypeOK, RespawnTypeOK
<1>3. CASE Respawn
  <2>1. RespawnTypeOK /\ SpawnNext
    BY <1>3 DEF Respawn, TypeOK
  <2>2. /\ child' \in OrNull(Child)
        /\ nextConv' \in 1..(MaxConv + 1)
        /\ assigned' \in OrNull(Convs)
        /\ fromHook' \in OrNull(Convs)
        /\ undo' \in OrNull(Transit)
        /\ pending' \in OrNull(PendingRespawn)
    BY <2>1, SpawnNextType
  <2> QED
    BY <1>3, <2>2 DEF Respawn, TypeOK, RespawnTypeOK
<1>4. CASE ScreenChanges
  BY <1>4 DEF ScreenChanges, respawnVars, TypeOK, RespawnTypeOK
<1> QED
  BY <1>1, <1>2, <1>3, <1>4

\* The session a booting server settles on is one of the store's, if any.
LEMMA SettleType ==
    ASSUME TypeOK
    PROVE  Settle \subseteq OrNull(Sessions)
<1>1. registered \in SUBSET Sessions /\ HandshakeName \in OrNull(Sessions)
  BY DEF TypeOK, RespawnTypeOK, HandshakeName
<1>2. \A c : ResolveFromStore(c) \subseteq registered
  BY <1>1 DEF ResolveFromStore, Owners
<1> QED
  BY <1>1, <1>2 DEF Settle, OrNull

LEMMA McpStepType ==
    ASSUME TypeOK, BootMcp \/ DropMcp
    PROVE  TypeOK'
<1> USE TransitionAssumption
    DEF OrNull, respawnVars, childVars, wrapperVars, diskVars, storeVars, hostVars
<1>1. CASE BootMcp
  <2>1. PICK s \in Settle, default \in Sessions :
          LET settled == IF s = NULL THEN default ELSE s
          IN /\ pointer' = settled
             /\ registered' = IF s = NULL THEN {default} ELSE registered
             /\ lineage' = IF settled \in registered' /\ KnownConv # NULL
                           THEN [lineage EXCEPT ![settled] = Link(@, KnownConv)]
                           ELSE lineage
             /\ wire' = <<[action |-> "current_session", name |-> settled]>>
    BY <1>1 DEF BootMcp
  <2> DEFINE settled == IF s = NULL THEN default ELSE s
  <2>2. settled \in Sessions
    BY SettleType
  <2>3. registered' \in SUBSET Sessions
    BY <2>1 DEF TypeOK, RespawnTypeOK
  <2>4. lineage' \in [Sessions -> Seq(Convs)]
    <3>1. CASE settled \in registered' /\ KnownConv # NULL
      <4>1. KnownConv \in Convs
        BY <3>1, CurrentConvType DEF TypeOK
      <4>2. [lineage EXCEPT ![settled] = Link(@, KnownConv)]
               \in [Sessions -> Seq(Convs)]
        BY <2>2, <4>1, LinkLineageType DEF TypeOK
      <4> QED
        BY <2>1, <3>1, <4>2
    <3>2. CASE ~(settled \in registered' /\ KnownConv # NULL)
      BY <2>1, <3>2 DEF TypeOK, RespawnTypeOK
    <3> QED
      BY <3>1, <3>2
  <2>5. wire' \in Seq(Signals)
    <3>1. [action |-> "current_session", name |-> settled] \in Signals
      BY <2>2, SignalType DEF CurrentSession
    <3> QED
      BY <2>1, <3>1
  <2>6. mcp' \in BOOLEAN /\ pointer' \in OrNull(Sessions)
    BY <1>1, <2>1, <2>2 DEF BootMcp
  <2>7. UNCHANGED <<childVars, wrapperVars, diskVars, archived, precedents,
                    hostVars, moves>>
    BY <1>1 DEF BootMcp
  <2> QED
    BY <2>3, <2>4, <2>5, <2>6, <2>7 DEF TypeOK, RespawnTypeOK
<1>2. CASE DropMcp
  <2>1. moves' \in 0..MaxMoves
    BY <1>2 DEF DropMcp, Move, TypeOK
  <2>2. /\ pointer' \in OrNull(Sessions) /\ mcp' \in BOOLEAN
        /\ UNCHANGED <<respawnVars, hostVars, wire>>
    BY <1>2 DEF DropMcp
  <2> QED
    BY <2>1, <2>2 DEF TypeOK, RespawnTypeOK
<1> QED
  BY <1>1, <1>2

\* The tools change the lineage, the store's sets and the wire.
LEMMA ToolStepType ==
    ASSUME TypeOK, Tools
    PROVE  TypeOK'
<1> USE TransitionAssumption
    DEF OrNull, respawnVars, childVars, wrapperVars, diskVars, storeVars, hostVars
<1>1. ASSUME Move PROVE moves' \in 0..MaxMoves
  BY <1>1 DEF Move, TypeOK
<1>2. /\ registered \in SUBSET Sessions /\ archived \in SUBSET Sessions
      /\ precedents \in [Sessions -> SUBSET Sessions]
      /\ lineage \in [Sessions -> Seq(Convs)] /\ pointer \in OrNull(Sessions)
  BY DEF TypeOK, RespawnTypeOK
<1>3. ASSUME NEW s \in Sessions, SessionSwitch(s) PROVE TypeOK'
  <2>1. wire' \in Seq(Signals)
    <3>1. /\ [action |-> "switch", target |-> s, from |-> pointer] \in Signals
          /\ CurrentSession(s) \in Signals
      BY <1>2, SignalType
    <3> QED
      BY <1>3, <3>1, PushType DEF SessionSwitch
  <2>2. precedents' \in [Sessions -> SUBSET Sessions]
    BY <1>2, <1>3 DEF SessionSwitch
  <2>3. lineage' \in [Sessions -> Seq(Convs)]
    BY <1>3, LinkOutgoingType DEF SessionSwitch
  <2>4. moves' \in 0..MaxMoves /\ pointer' \in OrNull(Sessions)
    BY <1>1, <1>3 DEF SessionSwitch
  <2>5. UNCHANGED <<childVars, wrapperVars, diskVars, registered, archived,
                    hostVars, mcp>>
    BY <1>3 DEF SessionSwitch
  <2> QED
    BY <2>1, <2>2, <2>3, <2>4, <2>5 DEF TypeOK, RespawnTypeOK
<1>4. ASSUME NEW s \in Sessions, SessionCreate(s) PROVE TypeOK'
  <2>1. wire' \in Seq(Signals)
    <3>1. /\ [action |-> "new", target |-> s, from |-> pointer] \in Signals
          /\ CurrentSession(s) \in Signals
      BY <1>2, SignalType
    <3> QED
      BY <1>4, <3>1, PushType DEF SessionCreate
  <2>2. lineage' \in [Sessions -> Seq(Convs)]
    BY <1>4, LinkOutgoingType DEF SessionCreate
  <2>3. moves' \in 0..MaxMoves /\ pointer' \in OrNull(Sessions)
    BY <1>1, <1>4 DEF SessionCreate
  <2>4. UNCHANGED <<childVars, wrapperVars, diskVars, registered, archived,
                    precedents, hostVars, mcp>>
    BY <1>4 DEF SessionCreate
  <2> QED
    BY <2>1, <2>2, <2>3, <2>4 DEF TypeOK, RespawnTypeOK
<1>5. ASSUME NEW s \in Sessions, SessionRegister(s) PROVE TypeOK'
  <2>1. wire' \in Seq(Signals)
    <3>1. CurrentSession(s) \in Signals
      BY SignalType
    <3> QED
      BY <1>5, <3>1, PushType DEF SessionRegister
  <2>2. /\ lineage' \in [Sessions -> Seq(Convs)]
        /\ archived' \in SUBSET Sessions
        /\ precedents' \in [Sessions -> SUBSET Sessions]
    <3>1. (IF CurrentConv = NULL THEN <<>> ELSE <<CurrentConv>>) \in Seq(Convs)
      BY CurrentConvType DEF TypeOK
    <3> QED
      BY <1>2, <1>5, <3>1 DEF SessionRegister, SaveNewSession
  <2>3. registered' \in SUBSET Sessions
    BY <1>2, <1>5 DEF SessionRegister, SaveNewSession
  <2>4. moves' \in 0..MaxMoves /\ pointer' \in OrNull(Sessions)
    BY <1>1, <1>5 DEF SessionRegister
  <2>5. UNCHANGED <<childVars, wrapperVars, diskVars, hostVars, mcp>>
    BY <1>5 DEF SessionRegister
  <2> QED
    BY <2>1, <2>2, <2>3, <2>4, <2>5 DEF TypeOK, RespawnTypeOK
<1>6. ASSUME NEW s \in Sessions, RejectSwitch(s) PROVE TypeOK'
  <2>1. precedents' \in [Sessions -> SUBSET Sessions]
    BY <1>2, <1>6 DEF RejectSwitch
  <2>2. moves' \in 0..MaxMoves
    BY <1>1, <1>6 DEF RejectSwitch
  <2>3. UNCHANGED <<childVars, wrapperVars, diskVars, registered, lineage,
                    archived, hostVars, mcp, pointer, wire>>
    BY <1>6 DEF RejectSwitch
  <2> QED
    BY <2>1, <2>2, <2>3 DEF TypeOK, RespawnTypeOK
<1>7. ASSUME SessionEnd PROVE TypeOK'
  <2>1. wire' \in Seq(Signals)
    <3>1. CurrentSession(NULL) \in Signals
      BY SignalType
    <3> QED
      BY <1>7, <3>1, PushType DEF SessionEnd
  <2>2. lineage' \in [Sessions -> Seq(Convs)]
    BY <1>7, LinkOutgoingType DEF SessionEnd
  <2>3. archived' \in SUBSET Sessions /\ pointer' \in OrNull(Sessions)
    BY <1>2, <1>7 DEF SessionEnd
  <2>4. moves' \in 0..MaxMoves
    BY <1>1, <1>7 DEF SessionEnd
  <2>5. UNCHANGED <<childVars, wrapperVars, diskVars, registered, precedents,
                    hostVars, mcp>>
    BY <1>7 DEF SessionEnd
  <2> QED
    BY <2>1, <2>2, <2>3, <2>4, <2>5 DEF TypeOK, RespawnTypeOK
<1>8. ASSUME SessionBack PROVE TypeOK'
  <2>1. wire' \in Seq(Signals)
    <3>1. [action |-> "back"] \in Signals
      BY SignalType
    <3> QED
      BY <1>8, <3>1, PushType DEF SessionBack
  <2>2. moves' \in 0..MaxMoves
    BY <1>1, <1>8 DEF SessionBack
  <2>3. UNCHANGED <<respawnVars, hostVars, mcp, pointer>>
    BY <1>8 DEF SessionBack
  <2> QED
    BY <2>1, <2>2, <2>3 DEF TypeOK, RespawnTypeOK
<1> QED
  BY <1>3, <1>4, <1>5, <1>6, <1>7, <1>8 DEF Tools

\* The wrapper's handlers read a signal of the wire and register with it.
LEMMA HandlerStepType ==
    ASSUME TypeOK, Handlers
    PROVE  TypeOK'
<1> USE DEF OrNull, respawnVars, childVars, wrapperVars, diskVars, storeVars, hostVars
<1>0. RespawnTypeOK
  BY DEF TypeOK
<1>1. CASE HandleSwitch
  <2> DEFINE m == Head(wire)
  <2>1. Receive("switch")
    BY <1>1 DEF HandleSwitch
  <2>2. wire' \in Seq(Signals)
    BY <2>1, ReceiveType
  <2>3. m \in Signals /\ m.action = "switch"
    BY <2>1, ReceiveType DEF Receive
  <2>4. m.target \in Sessions /\ m.from \in OrNull(Sessions)
    BY <2>3 DEF Signals
  <2>5. ResumeConv(m.target) \in OrNull(Convs)
    BY <1>0, <2>4, ResumeConvType
  <2>6. Register(m.target, ResumeConv(m.target), m.from, "switch")
    BY <1>1 DEF HandleSwitch
  <2>7. /\ pending' \in OrNull(PendingRespawn) /\ mirror' \in OrNull(Sessions)
        /\ pendingFile' \in OrNull(Handoff) /\ archived' \in SUBSET Sessions
    <3> HIDE DEF m
    <3>1. "switch" \in Kinds
      BY DEF Kinds
    <3> QED
      BY <1>0, <2>4, <2>5, <2>6, <3>1, RegisterType
  <2>8. UNCHANGED <<childVars, assigned, fromHook, undo, transcripts, newest,
                    registered, lineage, precedents, hostVars, mcp, pointer,
                    moves>>
    BY <1>1 DEF HandleSwitch
  <2> QED
    BY <2>2, <2>7, <2>8 DEF TypeOK, RespawnTypeOK
<1>2. CASE HandleNew
  <2> DEFINE m == Head(wire)
  <2>1. Receive("new")
    BY <1>2 DEF HandleNew
  <2>2. wire' \in Seq(Signals)
    BY <2>1, ReceiveType
  <2>3. m \in Signals /\ m.action = "new"
    BY <2>1, ReceiveType DEF Receive
  <2>4. m.target \in Sessions /\ m.from \in OrNull(Sessions)
    BY <2>3 DEF Signals
  <2>5. Register(m.target, NULL, m.from, "switch")
    BY <1>2 DEF HandleNew
  <2>6. /\ pending' \in OrNull(PendingRespawn) /\ mirror' \in OrNull(Sessions)
        /\ pendingFile' \in OrNull(Handoff) /\ archived' \in SUBSET Sessions
    <3> HIDE DEF m
    <3>1. "switch" \in Kinds /\ NULL \in OrNull(Convs)
      BY DEF Kinds
    <3> QED
      BY <1>0, <2>4, <2>5, <3>1, RegisterType
  <2>7. UNCHANGED <<childVars, assigned, fromHook, undo, transcripts, newest,
                    registered, lineage, precedents, hostVars, mcp, pointer,
                    moves>>
    BY <1>2 DEF HandleNew
  <2> QED
    BY <2>2, <2>6, <2>7 DEF TypeOK, RespawnTypeOK
<1>3. CASE HandleBack
  <2>1. wire' \in Seq(Signals)
    BY <1>3, ReceiveType DEF HandleBack
  <2>2. UNCHANGED <<childVars, assigned, fromHook, undo, transcripts, newest,
                    registered, lineage, hostVars, mcp, moves>>
    BY <1>3 DEF HandleBack
  <2>3. /\ pending' \in OrNull(PendingRespawn) /\ mirror' \in OrNull(Sessions)
        /\ pendingFile' \in OrNull(Handoff) /\ archived' \in SUBSET Sessions
        /\ precedents' \in [Sessions -> SUBSET Sessions]
        /\ pointer' \in OrNull(Sessions)
    <3>1. CASE BackIsPossible
      <4>1. undo.from \in Sessions /\ undo.to \in OrNull(Sessions)
        BY <1>0, <3>1 DEF BackIsPossible, RespawnTypeOK, Transit
      <4>2. ResumeConv(undo.from) \in OrNull(Convs) /\ "back" \in Kinds
        BY <1>0, <4>1, ResumeConvType DEF Kinds
      <4>3. Register(undo.from, ResumeConv(undo.from), undo.to, "back")
        BY <1>3, <3>1 DEF HandleBack
      <4>4. /\ precedents' = [precedents EXCEPT ![undo.from] = @ \cup {undo.to}]
            /\ pointer' = NULL
        BY <1>3, <3>1 DEF HandleBack
      <4>5. undo.to \in Sessions
        BY <1>0, <3>1 DEF BackIsPossible, RespawnTypeOK, Transit
      <4>6. precedents' \in [Sessions -> SUBSET Sessions]
        BY <1>0, <4>1, <4>4, <4>5 DEF RespawnTypeOK
      <4> QED
        BY <1>0, <4>1, <4>2, <4>3, <4>4, <4>6, RegisterType
    <3>2. CASE ~BackIsPossible
      BY <1>3, <3>2 DEF HandleBack, TypeOK, RespawnTypeOK
    <3> QED
      BY <3>1, <3>2
  <2> QED
    BY <2>1, <2>2, <2>3 DEF TypeOK, RespawnTypeOK
<1>4. CASE HandleCurrentSession
  <2>1. /\ Head(wire) \in Signals /\ Head(wire).action = "current_session"
        /\ wire' \in Seq(Signals)
    BY <1>4, ReceiveType DEF HandleCurrentSession, Receive
  <2>2. Head(wire).name \in OrNull(Sessions)
    BY <2>1 DEF Signals
  <2>3. mirror' \in OrNull(Sessions)
    BY <1>0, <1>4, <2>2 DEF HandleCurrentSession, RespawnTypeOK
  <2>4. UNCHANGED <<childVars, pending, assigned, fromHook, undo, diskVars,
                    storeVars, hostVars, mcp, pointer, moves>>
    BY <1>4 DEF HandleCurrentSession
  <2> QED
    BY <2>1, <2>3, <2>4 DEF TypeOK, RespawnTypeOK
<1> QED
  BY <1>1, <1>2, <1>3, <1>4 DEF Handlers

\* What Claude Code and the user do to the child.
LEMMA ChildMovesType ==
    ASSUME TypeOK,
           \/ DeliverHandoff \/ UserPrompt \/ EndTurn
           \/ ManualClear \/ ManualMoveUnseen \/ ManualRename
           \/ \E c \in Convs : ManualResume(c)
    PROVE  TypeOK'
<1> USE DEF OrNull, respawnVars, childVars, wrapperVars, diskVars, storeVars, hostVars
<1>0. RespawnTypeOK
  BY DEF TypeOK
<1>m. ASSUME Move PROVE moves' \in 0..MaxMoves
  BY <1>m, TransitionAssumption DEF Move, TypeOK
<1>1. CASE DeliverHandoff
  <2>1. TakeHandoff
    BY <1>1 DEF DeliverHandoff
  <2>2. /\ child' \in OrNull(Child) /\ transcripts' \in SUBSET Convs
        /\ newest' \in OrNull(Convs)
    BY <1>0, <2>1, ChildStepType
  <2>3. pendingFile' = NULL
    BY <2>1 DEF TakeHandoff
  <2> QED
    BY <1>1, <2>2, <2>3 DEF DeliverHandoff, TypeOK, RespawnTypeOK
<1>2. CASE UserPrompt
  <2>1. StartUserTurn
    BY <1>2 DEF UserPrompt
  <2>2. /\ child' \in OrNull(Child) /\ transcripts' \in SUBSET Convs
        /\ newest' \in OrNull(Convs)
    BY <1>0, <2>1, ChildStepType
  <2> QED
    BY <1>2, <2>2 DEF UserPrompt, TypeOK, RespawnTypeOK
<1>3. CASE EndTurn
  <2>1. child \in Child
    BY <1>0, <1>3 DEF EndTurn, RespawnTypeOK
  <2>2. child' \in Child /\ fromHook' \in OrNull(Convs)
    BY <1>0, <1>3, <2>1 DEF EndTurn, RespawnTypeOK, Child
  <2> QED
    BY <1>3, <2>2 DEF EndTurn, TypeOK, RespawnTypeOK
<1>4. CASE ManualClear
  <2>1. MoveByClear /\ nextConv' \in 1..(MaxConv + 1)
    BY <1>0, <1>4, ConvAssumption
    DEF ManualClear, MoveByClear, RespawnTypeOK, Convs
  <2>2. /\ child' \in OrNull(Child) /\ assigned' \in OrNull(Convs)
        /\ fromHook' \in OrNull(Convs)
    BY <1>0, <2>1, MoveType
  <2>3. moves' \in 0..MaxMoves
    BY <1>4, <1>m DEF ManualClear
  <2> QED
    BY <1>4, <2>1, <2>2, <2>3 DEF ManualClear, TypeOK, RespawnTypeOK
<1>5. CASE ManualRename
  <2>1. moves' \in 0..MaxMoves
    BY <1>5, <1>m DEF ManualRename
  <2> QED
    BY <1>5, <2>1 DEF ManualRename, TypeOK, RespawnTypeOK
<1>6. CASE \E c \in Convs : ManualResume(c)
  <2>1. PICK c \in Convs : ManualResume(c)
    BY <1>6
  <2>2. MoveByResume(c)
    BY <2>1 DEF ManualResume
  <2>3. /\ child' \in OrNull(Child) /\ assigned' \in OrNull(Convs)
        /\ fromHook' \in OrNull(Convs)
    BY <1>0, <2>2, MoveType
  <2>4. newest' \in OrNull(Convs)
    BY <1>0, <2>2 DEF MoveByResume, RespawnTypeOK
  <2>5. precedents' \in [Sessions -> SUBSET Sessions]
    <3>1. CASE UNCHANGED precedents
      BY <1>0, <3>1 DEF RespawnTypeOK
    <3>2. CASE \E s \in Owners(c) \ {mirror} :
                 precedents' = [precedents EXCEPT ![mirror] = @ \ {s}]
      BY <1>0, <3>2 DEF RespawnTypeOK
    <3> QED
      BY <2>1, <3>1, <3>2 DEF ManualResume
  <2>6. moves' \in 0..MaxMoves /\ pointer' = NULL
    BY <1>m, <2>1 DEF ManualResume
  <2>7. UNCHANGED <<nextConv, pending, mirror, undo, pendingFile, transcripts,
                    registered, lineage, archived, hostVars, mcp, wire>>
    BY <2>1 DEF ManualResume
  <2> QED
    BY <2>3, <2>4, <2>5, <2>6, <2>7 DEF TypeOK, RespawnTypeOK
<1>7. CASE ManualMoveUnseen
  <2>1. child \in Child /\ transcripts \subseteq Convs
    BY <1>0, <1>7 DEF ManualMoveUnseen, RespawnTypeOK
  <2>2. \A c \in Convs : [child EXCEPT !.conv = c] \in Child
    BY <2>1 DEF Child
  <2>3. /\ child' \in OrNull(Child) /\ newest' \in OrNull(Convs)
        /\ nextConv' \in 1..(MaxConv + 1)
    BY <1>0, <1>7, <2>1, <2>2, ConvAssumption
    DEF ManualMoveUnseen, RespawnTypeOK, Convs
  <2>4. moves' \in 0..MaxMoves
    BY <1>7, <1>m DEF ManualMoveUnseen
  <2> QED
    BY <1>7, <2>3, <2>4 DEF ManualMoveUnseen, TypeOK, RespawnTypeOK
<1> QED
  BY <1>1, <1>2, <1>3, <1>4, <1>5, <1>6, <1>7

LEMMA StutterType ==
    ASSUME TypeOK, UNCHANGED vars
    PROVE  TypeOK'
BY DEF vars, respawnVars, childVars, wrapperVars, diskVars, storeVars,
       hostVars, TypeOK, RespawnTypeOK

\* Every variable keeps its type: in particular nothing the tools put on the
\* wire makes a handler register a transition to no session.
THEOREM TypeCorrect == Spec => []TypeOK
<1>1. Init => TypeOK
  BY InitType
<1>2. TypeOK /\ [Next]_vars => TypeOK'
  <2> SUFFICES ASSUME TypeOK, [Next]_vars PROVE TypeOK'
    OBVIOUS
  <2>1. CASE Progress
    BY <2>1, WrapperStepType, RespawnStepType, McpStepType, HandlerStepType,
       ChildMovesType DEF Progress
  <2>2. CASE Tools
    BY <2>2, ToolStepType
  <2>3. CASE User
    BY <2>3, WrapperStepType, ChildMovesType DEF User
  <2>4. CASE Failures
    BY <2>4, WrapperStepType, McpStepType DEF Failures
  <2>5. CASE UNCHANGED vars
    BY <2>5, StutterType
  <2> QED
    BY <2>1, <2>2, <2>3, <2>4, <2>5 DEF Next
<1> QED
  BY <1>1, <1>2, PTL DEF Spec

-----------------------------------------------------------------------------
(* The wrapper and the server agree *)

\* The reports still on the wire end with the server's pointer; without any,
\* the mirror is on it already.
WireReportsPointer ==
    mcp /\ pending = NULL /\ pointer # NULL =>
       \/ /\ mirror = pointer
          /\ \A i \in 1..Len(wire) : wire[i].action # "current_session"
       \/ \E i \in 1..Len(wire) :
             /\ wire[i] = CurrentSession(pointer)
             /\ \A j \in (i + 1)..Len(wire) : wire[j].action # "current_session"

\* A server needs a child and everything needs the wrapper.
Alive ==
    /\ ~running => child = NULL /\ pending = NULL
    /\ mcp => child # NULL

\* The strengthening in which agreement and mirror are inductive.
SessionInv ==
    /\ TypeOK
    /\ Alive
    /\ MirrorIsPendingTarget
    /\ BootFindsNoHandoff
    /\ WireReportsPointer

\* A report pushed last is the last report.
LEMMA PushedReport ==
    ASSUME TypeOK, NEW s \in Sessions, NEW m \in Signals, pointer' = s,
           Push(<<CurrentSession(s)>>) \/ Push(<<m, CurrentSession(s)>>)
    PROVE  WireReportsPointer'
<1>1. wire \in Seq(Signals)
  BY DEF TypeOK
<1>2. CASE Push(<<CurrentSession(s)>>)
  <2>1. wire' = Append(wire, CurrentSession(s))
    BY <1>1, <1>2 DEF Push
  <2>2. /\ Len(wire') = Len(wire) + 1
        /\ wire'[Len(wire) + 1] = CurrentSession(s)
    BY <1>1, <2>1
  <2> QED
    BY <1>1, <2>2 DEF WireReportsPointer
<1>3. CASE Push(<<m, CurrentSession(s)>>)
  <2>1. wire' = Append(Append(wire, m), CurrentSession(s))
    BY <1>1, <1>3 DEF Push
  <2>2. /\ Len(wire') = Len(wire) + 2
        /\ wire'[Len(wire) + 2] = CurrentSession(s)
    BY <1>1, <2>1
  <2> QED
    BY <1>1, <2>2 DEF WireReportsPointer
<1> QED
  BY <1>2, <1>3

\* A request for /back on the wire changes nothing about the reports.
LEMMA PushedBack ==
    ASSUME TypeOK, WireReportsPointer, Push(<<[action |-> "back"]>>),
           UNCHANGED <<mcp, pending, pointer, mirror>>
    PROVE  WireReportsPointer'
<1>1. wire \in Seq(Signals)
  BY DEF TypeOK
<1>2. wire' = Append(wire, [action |-> "back"])
  BY <1>1 DEF Push
<1>3. /\ Len(wire') = Len(wire) + 1
      /\ wire'[Len(wire) + 1].action = "back"
      /\ \A i \in 1..Len(wire) : wire'[i] = wire[i]
  BY <1>1, <1>2
<1> SUFFICES ASSUME mcp, pending = NULL, pointer # NULL
             PROVE  WireReportsPointer'
  BY DEF WireReportsPointer
<1>4. CASE /\ mirror = pointer
           /\ \A i \in 1..Len(wire) : wire[i].action # "current_session"
  <2>1. \A i \in 1..Len(wire') : wire'[i].action # "current_session"
    BY <1>1, <1>3, <1>4
  <2> QED
    BY <1>4, <2>1 DEF WireReportsPointer
<1>5. ASSUME NEW i \in 1..Len(wire), wire[i] = CurrentSession(pointer),
             \A j \in (i + 1)..Len(wire) : wire[j].action # "current_session"
      PROVE  WireReportsPointer'
  <2>1. i \in 1..Len(wire') /\ wire'[i] = CurrentSession(pointer)
    BY <1>1, <1>3, <1>5
  <2>2. \A j \in (i + 1)..Len(wire') : wire'[j].action # "current_session"
    BY <1>1, <1>3, <1>5
  <2> QED
    BY <2>1, <2>2 DEF WireReportsPointer
<1> QED
  BY <1>4, <1>5 DEF WireReportsPointer

\* Reading a signal: what is not a report leaves the reports as they are, and
\* a report that is read leaves the mirror where the pointer is if no other
\* follows it.
LEMMA ReadSignal ==
    ASSUME TypeOK, WireReportsPointer, NEW action, Receive(action),
           UNCHANGED <<mcp, pending, pointer>>,
           \/ action # "current_session" /\ UNCHANGED mirror
           \/ action = "current_session" /\ mirror' = Head(wire).name
    PROVE  WireReportsPointer'
<1>1. wire \in Seq(Signals) /\ wire # <<>> /\ wire' = Tail(wire)
      /\ Head(wire).action = action
  BY DEF TypeOK, Receive
<1>2. /\ Len(wire') = Len(wire) - 1
      /\ \A i \in 1..Len(wire') : wire'[i] = wire[i + 1]
      /\ wire[1].action = action /\ Head(wire) = wire[1]
      /\ Len(wire) \in Nat /\ Len(wire) >= 1
  BY <1>1
<1> SUFFICES ASSUME mcp, pending = NULL, pointer # NULL
             PROVE  WireReportsPointer'
  BY DEF WireReportsPointer
<1>3. CASE /\ mirror = pointer
           /\ \A i \in 1..Len(wire) : wire[i].action # "current_session"
  <2>1. wire[1].action # "current_session"
    BY <1>2, <1>3
  <2>2. mirror' = mirror
    BY <1>2, <2>1 DEF Receive
  <2>3. \A i \in 1..Len(wire') : wire'[i].action # "current_session"
    BY <1>2, <1>3
  <2> QED
    BY <1>3, <2>2, <2>3 DEF WireReportsPointer
<1>4. ASSUME NEW i \in 1..Len(wire), wire[i] = CurrentSession(pointer),
             \A j \in (i + 1)..Len(wire) : wire[j].action # "current_session"
      PROVE  WireReportsPointer'
  <2>1. CASE i = 1
    <3>1. mirror' = pointer
      BY <1>2, <1>4, <2>1 DEF CurrentSession
    <3>2. \A j \in 1..Len(wire') : wire'[j].action # "current_session"
      BY <1>2, <1>4, <2>1
    <3> QED
      BY <3>1, <3>2 DEF WireReportsPointer
  <2>2. CASE i # 1
    <3>1. i - 1 \in 1..Len(wire') /\ wire'[i - 1] = CurrentSession(pointer)
      BY <1>2, <1>4, <2>2
    <3>2. \A j \in ((i - 1) + 1)..Len(wire') :
             wire'[j].action # "current_session"
      BY <1>2, <1>4, <2>2
    <3> QED
      BY <3>1, <3>2 DEF WireReportsPointer
  <2> QED
    BY <2>1, <2>2
<1> QED
  BY <1>3, <1>4 DEF WireReportsPointer

\* Registering a transition when there is none puts one on the books.
LEMMA Registered ==
    ASSUME RespawnTypeOK, pending = NULL,
           NEW target \in Sessions, NEW resume \in OrNull(Convs),
           NEW from \in OrNull(Sessions), NEW kind \in Kinds,
           Register(target, resume, from, kind)
    PROVE  pending' # NULL /\ mirror' = pending'.target
<1>1. /\ pending' = [target |-> target, resume |-> resume, from |-> from,
                     kind |-> kind, terminated |-> FALSE]
      /\ mirror' = target
  BY DEF Register
<1>2. pending' \in PendingRespawn
  BY <1>1 DEF PendingRespawn
<1> QED
  BY <1>1, <1>2, NullAssumption

\* One registered already stays, and so does the mirror.
LEMMA RegisterDropped ==
    ASSUME pending # NULL, NEW target, NEW resume, NEW from, NEW kind,
           Register(target, resume, from, kind)
    PROVE  UNCHANGED <<pending, mirror, pendingFile>>
BY DEF Register

\* The handlers, all of which register or read a report, keep SessionInv.
LEMMA HandlerStepSession ==
    ASSUME SessionInv, Handlers
    PROVE  SessionInv'
<1> USE DEF respawnVars, childVars, wrapperVars, diskVars, storeVars, hostVars
<1>0. TypeOK /\ RespawnTypeOK /\ TypeOK'
  BY HandlerStepType DEF SessionInv, TypeOK
<1>1. /\ running /\ child # NULL /\ UNCHANGED <<child, hostVars, mcp>>
  BY DEF Handlers, HandleSwitch, HandleNew, HandleBack, HandleCurrentSession,
         Receive
<1>2. Alive'
  BY <1>1 DEF SessionInv, Alive
<1>3. ASSUME NEW target \in Sessions, NEW resume \in OrNull(Convs),
             NEW from \in OrNull(Sessions), NEW kind \in Kinds,
             NEW action \in {"switch", "new", "back"}, Receive(action),
             Register(target, resume, from, kind),
             UNCHANGED pointer \/ pending = NULL
      PROVE  SessionInv'
  <2>1. CASE pending = NULL
    <3>1. pending' # NULL /\ mirror' = pending'.target
      BY <1>0, <1>3, <2>1, Registered
    <3> QED
      BY <1>0, <1>2, <3>1 DEF SessionInv, MirrorIsPendingTarget,
         BootFindsNoHandoff, WireReportsPointer
  <2>2. CASE pending # NULL
    <3>1. UNCHANGED <<pending, mirror, pendingFile>>
      BY <1>3, <2>2, RegisterDropped
    <3> QED
      BY <1>0, <1>2, <2>2, <3>1 DEF SessionInv, MirrorIsPendingTarget,
         BootFindsNoHandoff, WireReportsPointer
  <2> QED
    BY <2>1, <2>2
<1>4. ASSUME NEW action, Receive(action), UNCHANGED <<pending, pendingFile, pointer>>,
             \/ action # "current_session" /\ UNCHANGED mirror
             \/ action = "current_session" /\ pending # NULL /\ UNCHANGED mirror
             \/ action = "current_session" /\ mirror' = Head(wire).name
                   /\ (pending # NULL => mirror' = pending.target)
      PROVE  SessionInv'
  <2>1. MirrorIsPendingTarget'
    BY <1>4 DEF SessionInv, MirrorIsPendingTarget
  <2>2. BootFindsNoHandoff'
    BY <1>1, <1>4 DEF SessionInv, BootFindsNoHandoff
  <2>3. WireReportsPointer'
    <3>1. CASE pending # NULL
      BY <1>4, <3>1 DEF WireReportsPointer
    <3>2. CASE pending = NULL
      BY <1>0, <1>1, <1>4, <3>2, ReadSignal DEF SessionInv
    <3> QED
      BY <3>1, <3>2
  <2> QED
    BY <1>0, <1>2, <2>1, <2>2, <2>3 DEF SessionInv
<1>5. CASE HandleSwitch \/ HandleNew
  <2> DEFINE m == Head(wire)
  <2>1. PICK action \in {"switch", "new"} : Receive(action)
    BY <1>5 DEF HandleSwitch, HandleNew
  <2>2. m.target \in Sessions /\ m.from \in OrNull(Sessions)
    BY <1>0, <2>1, ReceiveType DEF Receive, Signals
  <2>3. ResumeConv(m.target) \in OrNull(Convs) /\ NULL \in OrNull(Convs)
        /\ "switch" \in Kinds
    BY <1>0, <2>2, ResumeConvType DEF OrNull, Kinds
  <2>4. PICK resume \in OrNull(Convs) :
           Register(m.target, resume, m.from, "switch")
    BY <1>5, <2>3 DEF HandleSwitch, HandleNew
  <2>5. UNCHANGED pointer
    BY <1>5 DEF HandleSwitch, HandleNew
  <2> HIDE DEF m
  <2> QED
    BY <1>3, <2>1, <2>2, <2>3, <2>4, <2>5
<1>6. CASE HandleBack
  <2>1. Receive("back")
    BY <1>6 DEF HandleBack
  <2>2. CASE BackIsPossible
    <3>1. undo.from \in Sessions /\ undo.to \in OrNull(Sessions)
      BY <1>0, <2>2 DEF BackIsPossible, RespawnTypeOK, OrNull, Transit
    <3>2. ResumeConv(undo.from) \in OrNull(Convs) /\ "back" \in Kinds
      BY <1>0, <3>1, ResumeConvType DEF Kinds
    <3>3. /\ Register(undo.from, ResumeConv(undo.from), undo.to, "back")
          /\ pending = NULL
      BY <1>6, <2>2 DEF HandleBack, BackIsPossible
    <3> QED
      BY <1>3, <2>1, <3>1, <3>2, <3>3
  <2>3. CASE ~BackIsPossible
    <3>1. UNCHANGED <<pending, mirror, pendingFile, pointer>>
      BY <1>6, <2>3 DEF HandleBack
    <3> QED
      BY <1>4, <2>1, <3>1
  <2> QED
    BY <2>2, <2>3
<1>7. CASE HandleCurrentSession
  <2>1. Receive("current_session") /\ UNCHANGED <<pending, pendingFile, pointer>>
    BY <1>7 DEF HandleCurrentSession
  <2>2. \/ pending # NULL /\ UNCHANGED mirror
        \/ /\ mirror' = Head(wire).name
           /\ pending # NULL => mirror' = pending.target
    BY <1>7 DEF HandleCurrentSession
  <2> QED
    BY <1>4, <2>1, <2>2
<1> QED
  BY <1>5, <1>6, <1>7 DEF Handlers

\* The tools speak of the session they leave the pointer on last.
LEMMA ToolStepSession ==
    ASSUME SessionInv, Tools
    PROVE  SessionInv'
<1> USE DEF respawnVars, childVars, wrapperVars, diskVars, storeVars, hostVars
<1>0. TypeOK /\ TypeOK'
  BY ToolStepType DEF SessionInv
<1>1. UNCHANGED <<child, hostVars, mcp, pending, mirror, pendingFile>>
  BY DEF Tools, SessionSwitch, SessionCreate, SessionRegister, RejectSwitch,
         SessionEnd, SessionBack
<1>2. Alive' /\ MirrorIsPendingTarget' /\ BootFindsNoHandoff'
  BY <1>1 DEF SessionInv, Alive, MirrorIsPendingTarget, BootFindsNoHandoff
<1>3. pointer \in OrNull(Sessions)
  BY <1>0 DEF TypeOK
<1>4. ASSUME NEW s \in Sessions, SessionSwitch(s) PROVE WireReportsPointer'
  <2>1. [action |-> "switch", target |-> s, from |-> pointer] \in Signals
    BY <1>3, SignalType
  <2> QED
    BY <1>0, <1>4, <2>1, PushedReport DEF SessionSwitch
<1>5. ASSUME NEW s \in Sessions, SessionCreate(s) PROVE WireReportsPointer'
  <2>1. [action |-> "new", target |-> s, from |-> pointer] \in Signals
    BY <1>3, SignalType
  <2> QED
    BY <1>0, <1>5, <2>1, PushedReport DEF SessionCreate
<1>6. ASSUME NEW s \in Sessions, SessionRegister(s) PROVE WireReportsPointer'
  <2>1. CurrentSession(s) \in Signals
    BY SignalType DEF OrNull
  <2> QED
    BY <1>0, <1>6, <2>1, PushedReport DEF SessionRegister
<1>7. ASSUME NEW s \in Sessions, RejectSwitch(s) PROVE WireReportsPointer'
  BY <1>1, <1>7 DEF RejectSwitch, SessionInv, WireReportsPointer
<1>8. ASSUME SessionEnd PROVE WireReportsPointer'
  BY <1>8 DEF SessionEnd, WireReportsPointer
<1>9. ASSUME SessionBack PROVE WireReportsPointer'
  BY <1>0, <1>1, <1>9, PushedBack DEF SessionBack, SessionInv
<1>10. WireReportsPointer'
  BY <1>4, <1>5, <1>6, <1>7, <1>8, <1>9 DEF Tools
<1> QED
  BY <1>0, <1>2, <1>10 DEF SessionInv

\* Every other step starts or loses a server, ends a respawn, or leaves all
\* of it alone.
LEMMA OtherStepSession ==
    ASSUME SessionInv, TypeOK',
           \/ StartWrapper \/ CrashWrapper \/ EndWrapper
           \/ ScreenChanges \/ Terminate \/ ChildExits \/ Respawn
           \/ BootMcp \/ DropMcp
           \/ DeliverHandoff \/ UserPrompt \/ EndTurn
           \/ ManualClear \/ ManualMoveUnseen \/ ManualRename
           \/ \E c \in Convs : ManualResume(c)
           \/ UNCHANGED vars
    PROVE  SessionInv'
<1> USE DEF vars, respawnVars, childVars, wrapperVars, diskVars, storeVars, hostVars,
            Alive, MirrorIsPendingTarget, BootFindsNoHandoff, WireReportsPointer
<1>0. TypeOK /\ RespawnTypeOK
  BY DEF SessionInv, TypeOK
<1>2. CASE StartWrapper
  <2>1. /\ ~running /\ running' /\ pendingFile' = NULL
        /\ UNCHANGED <<pending, mcp>>
    BY <1>2 DEF StartWrapper
  <2>2. pending = NULL /\ ~mcp
    BY <2>1 DEF SessionInv
  <2> QED
    BY <2>1, <2>2 DEF SessionInv
<1>3. CASE CrashWrapper \/ EndWrapper
  BY <1>3 DEF CrashWrapper, EndWrapper, Halt, SessionInv
<1>4. CASE Terminate
  <2>1. /\ pending # NULL /\ pending' = [pending EXCEPT !.terminated = TRUE]
        /\ UNCHANGED <<child, mirror, hostVars, mcp, pointer, wire>>
    BY <1>4 DEF Terminate, SendTerminate
  <2>2. pending \in PendingRespawn
    BY <1>0, <2>1 DEF RespawnTypeOK, OrNull
  <2>3. pending' \in PendingRespawn /\ pending'.target = pending.target
    BY <2>1, <2>2 DEF PendingRespawn
  <2>4. pending' # NULL
    BY <2>3, NullAssumption
  <2> QED
    BY <2>1, <2>3, <2>4 DEF SessionInv
<1>5. CASE ChildExits
  BY <1>5 DEF ChildExits, ExitChild, SessionInv
<1>6. CASE Respawn
  <2>1. /\ running /\ child = NULL /\ pending # NULL /\ pending' = NULL
        /\ child'.kind = pending.kind /\ UNCHANGED <<hostVars, mcp>>
    BY <1>6 DEF Respawn, SpawnNext
  <2>2. pending.kind # "boot"
    BY <1>0, <2>1 DEF RespawnTypeOK, OrNull, PendingRespawn, Kinds
  <2> QED
    BY <2>1, <2>2 DEF SessionInv
<1>7. CASE BootMcp
  <2>1. /\ child # NULL /\ UNCHANGED <<child, hostVars, pending, mirror, pendingFile>>
        /\ \E s \in OrNull(Sessions), default \in Sessions :
              LET settled == IF s = NULL THEN default ELSE s
              IN pointer' = settled /\ wire' = <<CurrentSession(settled)>>
    BY <1>0, <1>7, SettleType DEF BootMcp, CurrentSession
  <2>2. PICK settled : pointer' = settled /\ wire' = <<CurrentSession(settled)>>
    BY <2>1
  <2>3. Len(wire') = 1 /\ wire'[1] = CurrentSession(pointer')
    BY <2>2
  <2> QED
    BY <2>1, <2>3 DEF SessionInv, CurrentSession
<1>8. CASE DropMcp
  BY <1>8 DEF DropMcp, SessionInv
<1>9. CASE DeliverHandoff \/ UserPrompt \/ EndTurn
  <2>1. /\ child # NULL /\ UNCHANGED <<pending, mirror, hostVars, mcp, pointer, wire>>
        /\ pendingFile' = NULL \/ UNCHANGED pendingFile
    BY <1>9 DEF DeliverHandoff, TakeHandoff, UserPrompt, StartUserTurn,
       WritePrompt, EndTurn
  <2>2. child \in Child
    BY <1>0, <2>1 DEF RespawnTypeOK, OrNull
  <2>3. child' \in Child /\ child'.kind = child.kind
    <3>1. CASE DeliverHandoff
      <4>1. child' = [child EXCEPT !.trig = FALSE, !.turn = "trigger",
                                   !.got = pendingFile]
            /\ pendingFile \in OrNull(Handoff)
        BY <1>0, <3>1 DEF DeliverHandoff, TakeHandoff, RespawnTypeOK
      <4> QED
        BY <2>2, <4>1 DEF Child
    <3>2. CASE UserPrompt \/ EndTurn
      BY <2>2, <3>2 DEF UserPrompt, StartUserTurn, EndTurn, Child
    <3> QED
      BY <1>9, <3>1, <3>2
  <2>4. child' # NULL
    BY <2>3, NullAssumption
  <2> QED
    BY <2>1, <2>3, <2>4 DEF SessionInv
<1>10. CASE \/ ManualClear \/ ManualMoveUnseen
            \/ \E c \in Convs : ManualResume(c)
  <2>1. /\ child # NULL /\ UNCHANGED <<pending, mirror, hostVars, mcp, pendingFile, wire>>
        /\ pointer' = NULL \/ UNCHANGED pointer
        /\ \E c \in Convs : child' = [child EXCEPT !.conv = c]
    <3>1. transcripts \subseteq Convs
      BY <1>0 DEF RespawnTypeOK
    <3> QED
      BY <1>10, <3>1 DEF ManualClear, ManualMoveUnseen, ManualResume,
         MoveByClear, MoveByResume
  <2>2. child \in Child
    BY <1>0, <2>1 DEF RespawnTypeOK, OrNull
  <2>3. child' \in Child /\ child'.kind = child.kind
    BY <2>1, <2>2 DEF Child
  <2>4. child' # NULL
    BY <2>3, NullAssumption
  <2> QED
    BY <2>1, <2>3, <2>4 DEF SessionInv
<1>11. CASE ManualRename
  BY <1>11 DEF ManualRename, SessionInv
<1>12. CASE UNCHANGED vars
  BY <1>12 DEF SessionInv
<1>13. CASE ScreenChanges
  BY <1>13 DEF ScreenChanges, SessionInv
<1> QED
  BY <1>13, <1>2, <1>3, <1>4, <1>5, <1>6, <1>7, <1>8, <1>9, <1>10, <1>11, <1>12

\* SessionInv is inductive.
LEMMA SessionInvHolds == Spec => []SessionInv
<1>1. Init => SessionInv
  <2> SUFFICES ASSUME Init PROVE SessionInv
    OBVIOUS
  <2> QED
    BY InitType DEF Init, SessionInv, Alive, MirrorIsPendingTarget,
       BootFindsNoHandoff, WireReportsPointer
<1>2. SessionInv /\ [Next]_vars => SessionInv'
  <2> SUFFICES ASSUME SessionInv, [Next]_vars PROVE SessionInv'
    OBVIOUS
  <2>0. TypeOK
    BY DEF SessionInv
  <2>1. CASE Handlers
    BY <2>1, HandlerStepSession
  <2>2. CASE Tools
    BY <2>2, ToolStepSession
  <2>3. CASE Progress /\ ~Handlers
    BY <2>0, <2>3, OtherStepSession, WrapperStepType, RespawnStepType,
       McpStepType, ChildMovesType DEF Progress
  <2>4. CASE User
    BY <2>0, <2>4, OtherStepSession, WrapperStepType, ChildMovesType DEF User
  <2>5. CASE Failures
    BY <2>0, <2>5, OtherStepSession, WrapperStepType, McpStepType DEF Failures
  <2>6. CASE UNCHANGED vars
    BY <2>0, <2>6, OtherStepSession, StutterType
  <2> QED
    BY <2>1, <2>2, <2>3, <2>4, <2>5, <2>6 DEF Next, Progress
<1> QED
  BY <1>1, <1>2, PTL DEF Spec

\* While a transition is registered the mirror stays on its target, with any
\* number of sessions, signals and reports under way.
THEOREM MirrorFollowsTransition == Spec => []MirrorIsPendingTarget
<1>1. SessionInv => MirrorIsPendingTarget
  BY DEF SessionInv
<1> QED
  BY <1>1, SessionInvHolds, PTL

\* A child the wrapper boots on its own start never finds a hand-off in the
\* slot, whatever the run before it left there.
THEOREM BootSlotEmpty == Spec => []BootFindsNoHandoff
<1>1. SessionInv => BootFindsNoHandoff
  BY DEF SessionInv
<1> QED
  BY <1>1, SessionInvHolds, PTL

\* Once the signals are read, the server's pointer and the wrapper's mirror
\* agree: the last report on the wire is always the pointer.
THEOREM PointersAgree == Spec => []PointerAgreement
<1>1. SessionInv => PointerAgreement
  <2> SUFFICES ASSUME SessionInv, mcp, wire = <<>>, pending = NULL,
                      pointer # NULL
               PROVE  mirror = pointer
    BY DEF PointerAgreement
  <2>1. Len(wire) = 0
    OBVIOUS
  <2> QED
    BY <2>1 DEF SessionInv, WireReportsPointer
<1> QED
  BY <1>1, SessionInvHolds, PTL

-----------------------------------------------------------------------------
(* The undo record *)

\* The undo record disappears only with the spawn of a /back transition's
\* child: no handler, crash, restart or exit in between consumes it.
THEOREM UndoConsumedOnlyByBack == Spec => UndoConsumedByBackOnly
<1> DEFINE Consumed == undo # NULL /\ undo' = NULL
           ByBack == /\ pending # NULL /\ pending.kind = "back"
                     /\ child = NULL /\ child' # NULL
<1>1. TypeOK /\ [Next]_vars => [Consumed => ByBack]_vars
  <2> SUFFICES ASSUME TypeOK, [Next]_vars, Consumed PROVE ByBack
    OBVIOUS
  <2> USE DEF vars, respawnVars, childVars, wrapperVars, diskVars, storeVars, hostVars
  <2>1. CASE Respawn
    <3>1. /\ SpawnNext /\ RespawnTypeOK /\ pending # NULL /\ child = NULL
          /\ undo' = UndoAfterSpawn
      BY <2>1 DEF Respawn, SpawnNext, TypeOK
    <3>2. pending.kind = "back"
      <4>1. pending.kind = "switch" /\ pending.from # NULL =>
               [from |-> pending.from, to |-> pending.target] # NULL
        <5>1. pending.kind = "switch" /\ pending.from # NULL =>
               [from |-> pending.from, to |-> pending.target] \in Transit
          BY <3>1 DEF RespawnTypeOK, OrNull, PendingRespawn, Transit
        <5> QED
          BY <5>1, NullAssumption
      <4> QED
        BY <3>1, <4>1 DEF UndoAfterSpawn
    <3>3. child' \in Child
      <4>1. pending \in PendingRespawn
        BY <3>1 DEF RespawnTypeOK, OrNull
      <4>2. (IF pending.resume # NULL THEN pending.resume ELSE nextConv) \in Convs
        BY <3>1, <4>1 DEF SpawnNext, PendingRespawn, OrNull
      <4> QED
        BY <3>1, <4>1, <4>2 DEF SpawnNext, PendingRespawn, Child, OrNull, Kinds
    <3> QED
      BY <3>1, <3>2, <3>3, NullAssumption
  <2>2. CASE ~Respawn
    <3>1. UNCHANGED undo
      BY <2>2 DEF Next, Progress, Tools, User, Failures, Handlers,
         HandleSwitch, HandleNew, HandleBack, HandleCurrentSession,
         ScreenChanges, Terminate, ChildExits, EndWrapper, BootMcp, DeliverHandoff, EndTurn,
         SessionSwitch, SessionCreate, SessionRegister, RejectSwitch,
         SessionEnd, SessionBack, UserPrompt, ManualResume, ManualClear,
         ManualMoveUnseen, ManualRename, StartWrapper, CrashWrapper, DropMcp, Halt
    <3> QED
      BY <3>1
  <2> QED
    BY <2>1, <2>2
<1> QED
  BY <1>1, TypeCorrect, PTL DEF Spec, UndoConsumedByBackOnly

=============================================================================
