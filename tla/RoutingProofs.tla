--------------------------- MODULE RoutingProofs ---------------------------
(***************************************************************************)
(* Theorems of Routing, for any sessions, conversations and length of the  *)
(* log.                                                                    *)
(***************************************************************************)
EXTENDS Routing, TLAPS, WellFoundedInduction

\* A verdict has its target, and a proposal that is asked about too.
TargetsAgree ==
    \A w \in Wrappers : pc[w] = "record" \/ asked[w] # 0 => target[w] \in Sessions

\* The wrapper is alone in its project.
OneWrapper == \A v, w \in Wrappers : v = w

Step(w) ==
    \/ Prompt(w) \/ Expire(w) \/ PassThrough(w) \/ AskJudge(w) \/ Record(w)
    \/ EndTurn(w) \/ PointerTool(w) \/ BackTool(w)
    \/ \E t \in Sessions : \/ SwitchVerdict(w, t) \/ SwitchTool(w, t)
                         \/ CreateTool(w, t) \/ RejectTool(w, t)
    \/ \E c \in Convs : Resume(w, c)
    \/ Respawn(w) \/ RollOver(w) \/ Quit(w)

\* An event at the end of the log leaves the others where they are.
LEMMA WriteType ==
    ASSUME TypeOK, NEW e \in Events, WriteLog(e)
    PROVE  /\ log' \in Seq(Events) /\ Len(log') = Len(log) + 1 /\ Len(log') <= MaxLog
           /\ \A i \in 1..Len(log) : log'[i] = log[i]
           /\ log'[Len(log')] = e
BY RoutingAssumption DEF TypeOK, WriteLog

\* What is asked is a proposal in the log, whose target is the verdict's.
Asked(w) ==
    asked[w] # 0 => pc[w] = "turn" /\ log[asked[w]] = Proposal(at[w], target[w])

Pcs == {"idle", "expire", "hook", "judging", "record", "turn"}

Pendings == [undo : Undos] \cup {NULL}

\* The events a wrapper writes.
LEMMA EventType ==
    ASSUME NEW c \in Convs, NEW t \in Sessions, NEW i \in 0..MaxLog
    PROVE  /\ Proposal(c, t) \in Events /\ Expiry(c) \in Events
           /\ \A how \in {"accept", "reject"} : Label(t, how, c, i) \in Events
BY DEF Proposal, Expiry, Label, Events

\* What a wrapper keeps between prompts has its type.
PlaceType ==
    /\ at \in [Wrappers -> Convs] /\ placed \in [Wrappers -> BOOLEAN]
    /\ pending \in [Wrappers -> Pendings] /\ undo \in [Wrappers -> Undos]

\* Every step keeps it.
LEMMA StepPlace ==
    ASSUME TypeOK, NEW w \in Wrappers, Step(w)
    PROVE  /\ PlaceType'
           /\ \A v \in Wrappers \ {w} : at'[v] = at[v]
<1>1. PlaceType /\ at[w] \in Convs /\ NULL \in Undos /\ Sessions \subseteq Undos /\ undo[w] \in Undos
  BY DEF TypeOK, PlaceType, Pendings, Undos
<1> DEFINE Goal == PlaceType' /\ \A v \in Wrappers \ {w} : at'[v] = at[v]
<1>2. UNCHANGED <<at, placed, pending, undo>> => Goal
  BY <1>1 DEF PlaceType
<1>3. NewChild(w) => /\ at' \in [Wrappers -> Convs] /\ placed' \in [Wrappers -> BOOLEAN]
                     /\ \A v \in Wrappers \ {w} : at'[v] = at[v]
  BY <1>1 DEF NewChild, PlaceType
<1>4. \A t \in Sessions : Departs(w, t) => pending' \in [Wrappers -> Pendings]
  BY <1>1 DEF Departs, PlaceType, Pendings
<1>5. CASE Prompt(w) \/ Expire(w) \/ PassThrough(w) \/ AskJudge(w) \/ Record(w) \/ EndTurn(w)
  BY <1>2, <1>5 DEF Prompt, Expire, PassThrough, AskJudge, Record, EndTurn
<1>6. ASSUME NEW t \in Sessions, SwitchVerdict(w, t) \/ RejectTool(w, t) PROVE Goal
  BY <1>2, <1>6 DEF SwitchVerdict, RejectTool
<1>7. ASSUME NEW t \in Sessions, SwitchTool(w, t) \/ CreateTool(w, t) PROVE Goal
  BY <1>1, <1>4, <1>7 DEF SwitchTool, CreateTool, PlaceType
<1>8. CASE PointerTool(w)
  BY <1>1, <1>8 DEF PointerTool, PlaceType
<1>9. CASE BackTool(w)
  BY <1>1, <1>9 DEF BackTool, PlaceType, Pendings
<1>10. ASSUME NEW c \in Convs, Resume(w, c) PROVE Goal
  BY <1>1, <1>10 DEF Resume, PlaceType
<1>11. CASE Respawn(w)
  <2>1. pending[w].undo \in Undos
    BY <1>1, <1>11 DEF Respawn, PlaceType, Pendings
  <2> QED
    BY <1>1, <1>3, <1>11, <2>1 DEF Respawn, PlaceType, Pendings
<1>12. CASE RollOver(w)
  BY <1>1, <1>3, <1>12 DEF RollOver, PlaceType
<1>13. CASE Quit(w)
  BY <1>1, <1>3, <1>13 DEF Quit, PlaceType, Pendings
<1> QED
  BY <1>5, <1>6, <1>7, <1>8, <1>9, <1>10, <1>11, <1>12, <1>13 DEF Step

\* A label is an event of the log, and its proposal is asked about no more.
LEMMA LabelType ==
    ASSUME TypeOK, TargetsAgree, NEW w \in Wrappers, NEW t \in Sessions,
           NEW how \in {"accept", "reject"}, LabelIt(w, t, how)
    PROVE  /\ Answered(w, t) \in 0..MaxLog
           /\ Label(t, how, at[w], Answered(w, t)) \in Events
           /\ WriteLog(Label(t, how, at[w], Answered(w, t)))
           /\ asked' \in [Wrappers -> 0..Len(log)]
           /\ target' \in [Wrappers -> Sessions \cup {NULL}]
           /\ asked'[w] = 0 \/ (asked'[w] = asked[w] /\ target'[w] = target[w])
           /\ asked'[w] # 0 => target[w] # t
           /\ \A v \in Wrappers \ {w} : asked'[v] = asked[v] /\ target'[v] = target[v]
<1>1. /\ Len(log) \in Nat /\ Len(log) <= MaxLog /\ MaxLog \in Nat
      /\ asked[w] \in 0..Len(log) /\ asked[w] \in 0..MaxLog /\ at[w] \in Convs
      /\ asked \in [Wrappers -> 0..Len(log)]
      /\ target \in [Wrappers -> Sessions \cup {NULL}]
  BY RoutingAssumption DEF TypeOK
<1>2. Answered(w, t) \in 0..MaxLog
  BY <1>1 DEF Answered
<1>3. Label(t, how, at[w], Answered(w, t)) \in Events
  BY <1>1, <1>2, EventType
<1>4. CASE Answered(w, t) # 0
  BY <1>1, <1>2, <1>3, <1>4 DEF LabelIt
<1>5. CASE Answered(w, t) = 0
  <2>1. asked[w] # 0 => target[w] # t
    BY <1>5 DEF Answered
  <2> QED
    BY <1>1, <1>2, <1>3, <1>5, <2>1 DEF LabelIt
<1> QED
  BY <1>4, <1>5

\* A step of a wrapper writes at most one event, at the end, and changes
\* what it holds itself and nobody else's.
LEMMA StepType ==
    ASSUME TypeOK, TargetsAgree, NEW w \in Wrappers, Step(w)
    PROVE  /\ log' \in Seq(Events) /\ Len(log') <= MaxLog
           /\ Len(log) <= Len(log') /\ \A i \in 1..Len(log) : log'[i] = log[i]
           /\ pc' \in [Wrappers -> Pcs]
           /\ target' \in [Wrappers -> Sessions \cup {NULL}]
           /\ asked' \in [Wrappers -> 0..Len(log')]
           /\ Asked(w)'
           /\ pc'[w] = "record" \/ asked'[w] # 0 => target'[w] \in Sessions
           /\ \A v \in Wrappers \ {w} :
                 pc'[v] = pc[v] /\ target'[v] = target[v] /\ asked'[v] = asked[v]
<1> DEFINE Kept ==
             /\ log' \in Seq(Events) /\ Len(log') <= MaxLog
             /\ Len(log) <= Len(log') /\ \A i \in 1..Len(log) : log'[i] = log[i]
<1>1. /\ Len(log) \in Nat /\ Len(log) <= MaxLog /\ MaxLog \in Nat
      /\ asked[w] \in 0..Len(log) /\ asked[w] \in 0..MaxLog
      /\ at[w] \in Convs /\ target[w] \in Sessions \cup {NULL}
      /\ log \in Seq(Events) /\ pc \in [Wrappers -> Pcs]
      /\ target \in [Wrappers -> Sessions \cup {NULL}]
      /\ asked \in [Wrappers -> 0..Len(log)] /\ Asked(w)
      /\ (pc[w] = "record" \/ asked[w] # 0) => target[w] \in Sessions
      /\ undo[w] \in Undos
  BY RoutingAssumption DEF TypeOK, TargetsAgree, Pcs, Asked
<1>2. UNCHANGED log => Kept
  BY <1>1
<1>3. ASSUME NEW e \in Events, WriteLog(e)
      PROVE  Kept /\ Len(log') = Len(log) + 1 /\ log'[Len(log')] = e
  BY <1>3, WriteType, <1>1
<1> HIDE DEF Kept
<1> DEFINE Goal ==
               /\ Kept
               /\ pc' \in [Wrappers -> Pcs]
               /\ target' \in [Wrappers -> Sessions \cup {NULL}]
               /\ asked' \in [Wrappers -> 0..Len(log')]
               /\ Asked(w)'
               /\ pc'[w] = "record" \/ asked'[w] # 0 => target'[w] \in Sessions
               /\ \A v \in Wrappers \ {w} :
                     pc'[v] = pc[v] /\ target'[v] = target[v] /\ asked'[v] = asked[v]
<1> HIDE DEF Goal
<1>4. SUFFICES Goal
  BY DEF Goal, Kept
<1>5. ASSUME Prompt(w) PROVE Goal
  BY <1>1, <1>2, <1>5 DEF Goal, Prompt, Asked, Pcs
<1>6. ASSUME Expire(w) PROVE Goal
  <2>1. Expiry(at[w]) \in Events /\ WriteLog(Expiry(at[w]))
    BY <1>1, <1>6 DEF Expire, Expiry, Events
  <2>2. Kept /\ Len(log') = Len(log) + 1
    BY <1>3, <2>1
  <2> QED
    BY <1>1, <1>6, <2>2 DEF Goal, Expire, Asked, Pcs
<1>7. ASSUME PassThrough(w) \/ AskJudge(w) PROVE Goal
  BY <1>1, <1>2, <1>7 DEF Goal, PassThrough, AskJudge, Asked, Pcs
<1>8. ASSUME Record(w) PROVE Goal
  <2>1. Proposal(at[w], target[w]) \in Events /\ WriteLog(Proposal(at[w], target[w]))
    BY <1>1, <1>8, EventType DEF Record
  <2>2. Kept /\ Len(log') = Len(log) + 1 /\ log'[Len(log')] = Proposal(at[w], target[w])
    BY <1>3, <2>1
  <2> QED
    BY <1>1, <1>8, <2>2 DEF Goal, Record, Asked, Pcs
<1>9. ASSUME NEW t \in Sessions, SwitchVerdict(w, t) PROVE Goal
  BY <1>1, <1>2, <1>9 DEF Goal, SwitchVerdict, Asked, Pcs
<1>10. ASSUME EndTurn(w) PROVE Goal
  BY <1>1, <1>2, <1>10 DEF Goal, EndTurn, Over, Asked, Pcs
<1>11. ASSUME PointerTool(w) PROVE Goal
  BY <1>1, <1>2, <1>11 DEF Goal, PointerTool, prompt, Asked, Pcs
<1>12. ASSUME NEW t \in Sessions, NEW how \in {"accept", "reject"},
              LabelIt(w, t, how), UNCHANGED <<at, pc>>, pc[w] = "turn"
       PROVE  Goal
  <2>1. /\ WriteLog(Label(t, how, at[w], Answered(w, t)))
        /\ Label(t, how, at[w], Answered(w, t)) \in Events
        /\ asked' \in [Wrappers -> 0..Len(log)]
        /\ target' \in [Wrappers -> Sessions \cup {NULL}]
        /\ asked'[w] = 0 \/ (asked'[w] = asked[w] /\ target'[w] = target[w])
        /\ \A v \in Wrappers \ {w} : asked'[v] = asked[v] /\ target'[v] = target[v]
    BY <1>12, LabelType
  <2>2. Kept /\ Len(log') = Len(log) + 1
    BY <1>3, <2>1
  <2>3. asked' \in [Wrappers -> 0..Len(log')]
    <3>1. 0..Len(log) \subseteq 0..Len(log')
      BY <1>1, <2>2
    <3> QED
      BY <2>1, <3>1
  <2>4. \A i \in 1..Len(log) : log'[i] = log[i]
    BY <2>2 DEF Kept
  <2>5. Asked(w)'
    <3>1. SUFFICES ASSUME asked'[w] # 0
                   PROVE  pc'[w] = "turn" /\ log'[asked'[w]] = Proposal(at'[w], target'[w])
      BY DEF Asked, Proposal
    <3>2. asked[w] # 0 /\ asked'[w] = asked[w] /\ target'[w] = target[w]
      BY <2>1, <3>1
    <3> QED
      BY <1>1, <1>12, <2>4, <3>2 DEF Asked
  <2>6. pc' \in [Wrappers -> Pcs] /\ \A v \in Wrappers : pc'[v] = pc[v]
    BY <1>1, <1>12
  <2>7. pc'[w] = "record" \/ asked'[w] # 0 => target'[w] \in Sessions
    <3>1. pc'[w] = "record" => FALSE
      BY <1>12, <2>1, <2>6
    <3> QED
      BY <1>1, <2>1, <3>1
  <2> QED
    BY <2>1, <2>2, <2>3, <2>5, <2>6, <2>7 DEF Goal
<1>13. ASSUME NEW t \in Sessions, SwitchTool(w, t) PROVE Goal
  BY <1>12, <1>13 DEF SwitchTool
<1>14. ASSUME NEW t \in Sessions, CreateTool(w, t) PROVE Goal
  BY <1>1, <1>2, <1>14 DEF Goal, CreateTool, prompt, Asked, Pcs
<1>15. ASSUME NEW t \in Sessions, RejectTool(w, t) PROVE Goal
  BY <1>12, <1>15 DEF RejectTool
<1>16. ASSUME BackTool(w) PROVE Goal
  <2>1. undo[w] \in Sessions
    BY <1>1, <1>16 DEF BackTool, Undos
  <2> QED
    BY <1>12, <1>16, <2>1 DEF BackTool
<1>17. ASSUME NEW c \in Convs, Resume(w, c) PROVE Goal
  BY <1>1, <1>2, <1>17 DEF Goal, Resume, prompt, Asked, Pcs
<1>18. ASSUME Respawn(w) \/ Quit(w) PROVE Goal
  <2>1. Over(w) /\ UNCHANGED log
    BY <1>18 DEF Respawn, Quit
  <2> QED
    BY <1>1, <1>2, <2>1 DEF Goal, Over, Asked, Pcs
<1>19. ASSUME RollOver(w) PROVE Goal
  BY <1>1, <1>2, <1>19 DEF Goal, RollOver, prompt, Asked, Pcs
<1> QED
  BY <1>5, <1>6, <1>7, <1>8, <1>9, <1>10, <1>11, <1>13, <1>14, <1>15, <1>16, <1>17, <1>18, <1>19 DEF Step

\* The next-state relation is a step of some wrapper.
LEMMA NextIsStep == Next <=> \E w \in Wrappers : Step(w)
BY DEF Next, Step

\* Types and targets hold initially.
LEMMA InitTypes == Init => TypeOK /\ TargetsAgree
<1> SUFFICES ASSUME Init PROVE TypeOK /\ TargetsAgree
  OBVIOUS
<1>1. <<>> \in Seq(Events) /\ Len(<<>>) = 0
  OBVIOUS
<1>2. TypeOK
  BY <1>1, RoutingAssumption DEF Init, TypeOK, Undos
<1>3. TargetsAgree
  BY DEF Init, TargetsAgree
<1> QED
  BY <1>2, <1>3

\* Every step keeps them: the log only grows, so a proposal that is asked
\* about stays where it is.
LEMMA NextTypes == TypeOK /\ TargetsAgree /\ [Next]_vars => TypeOK' /\ TargetsAgree'
<1> SUFFICES ASSUME TypeOK, TargetsAgree, [Next]_vars PROVE TypeOK' /\ TargetsAgree'
  OBVIOUS
<1>1. ASSUME NEW w \in Wrappers, Step(w) PROVE TypeOK' /\ TargetsAgree'
  <2>1. /\ log' \in Seq(Events) /\ Len(log') <= MaxLog
        /\ Len(log) <= Len(log') /\ \A i \in 1..Len(log) : log'[i] = log[i]
        /\ pc' \in [Wrappers -> Pcs]
        /\ target' \in [Wrappers -> Sessions \cup {NULL}]
        /\ asked' \in [Wrappers -> 0..Len(log')]
        /\ Asked(w)'
    BY <1>1, StepType
  <2>2. \A v \in Wrappers \ {w} :
           pc'[v] = pc[v] /\ target'[v] = target[v] /\ asked'[v] = asked[v]
    BY <1>1, StepType
  <2>3. PlaceType' /\ \A v \in Wrappers \ {w} : at'[v] = at[v]
    BY <1>1, StepPlace
  <2>4. ASSUME NEW v \in Wrappers \ {w} PROVE Asked(v)'
    <3>1. SUFFICES ASSUME asked[v] # 0
                   PROVE  pc[v] = "turn" /\ log'[asked[v]] = Proposal(at[v], target[v])
      BY <2>2, <2>3 DEF Asked, Proposal
    <3>2. asked[v] \in 1..Len(log) /\ pc[v] = "turn"
            /\ log[asked[v]] = Proposal(at[v], target[v])
      BY <3>1 DEF TypeOK
    <3> QED
      BY <2>1, <3>2
  <2>5. TypeOK'
    BY <2>1, <2>3, <2>4 DEF TypeOK, Asked, Pcs, PlaceType, Pendings
  <2>6. pc'[w] = "record" \/ asked'[w] # 0 => target'[w] \in Sessions
    BY <1>1, StepType
  <2>7. TargetsAgree'
    BY <2>2, <2>6 DEF TargetsAgree
  <2> QED
    BY <2>5, <2>7
<1>2. CASE UNCHANGED vars
  BY <1>2 DEF vars, TypeOK, TargetsAgree
<1> QED
  BY <1>1, <1>2, NextIsStep

\* Whatever the instance, and with any number of wrappers, the state is well
\* typed; in particular the proposal the user is asked about is in the log,
\* was made in this conversation and is for the verdict's target.
THEOREM TypeCorrect == Spec => []TypeOK
<1>1. Spec => [](TypeOK /\ TargetsAgree)
  BY InitTypes, NextTypes, PTL DEF Spec
<1> QED
  BY <1>1, PTL

-----------------------------------------------------------------------------
(* Reading the log back.  Replay is a recursive function on the log's      *)
(* prefixes; what holds of it is shown by least counterexample, with the   *)
(* library's theorem on minimal elements of a well-founded order.          *)

\* The order of the naturals as the library's theorem on minimal elements
\* wants it: a relation.
LEMMA NatOrder ==
    \E R : /\ \A T : T \subseteq Nat /\ T # {} => \E m \in T : \A k \in T : ~ (<<k, m>> \in R)
           /\ \A k, m \in Nat : ~(<<k, m>> \in R) => m <= k
<1>1. \A k, m \in Nat : ~(<<k, m>> \in OpToRel(<, Nat)) => m <= k
  BY DEF OpToRel
<1>2. \A T : T \subseteq Nat /\ T # {} => \E m \in T : \A k \in T : ~ (<<k, m>> \in OpToRel(<, Nat))
  BY NatLessThanWellFounded, WFMin
<1> QED
  BY <1>1, <1>2

\* A set of naturals that has an element has a least one.
LEMMA LeastOf ==
    ASSUME NEW T, T \subseteq Nat, T # {}
    PROVE  \E m \in T : \A k \in T : m <= k
<1>1. PICK R : /\ \A S : S \subseteq Nat /\ S # {} => \E m \in S : \A k \in S : ~ (<<k, m>> \in R)
               /\ \A k, m \in Nat : ~(<<k, m>> \in R) => m <= k
  BY NatOrder
<1>2. PICK m \in T : \A k \in T : ~ (<<k, m>> \in R)
  BY <1>1
<1>3. ASSUME NEW k \in T PROVE m <= k
  <2>1. k \in Nat /\ m \in Nat
    OBVIOUS
  <2>2. ~(<<k,m>> \in R)
    BY <1>2
  <2> QED
    BY <1>1, <2>1, <2>2, Zenon
<1> QED
  BY <1>3

\* f[i] is what the replay has after i events.
ReplayUpTo(f, n) ==
    f = [i \in 0..n |-> IF i = 0 THEN Nothing ELSE ReplayOne(f[i - 1], i)]

\* The replay is defined for any number of events.
LEMMA ReplayExists == \A n \in Nat : \E f : ReplayUpTo(f, n)
<1> DEFINE Bad == {n \in Nat : ~ \E f : ReplayUpTo(f, n)}
<1> SUFFICES ASSUME Bad # {} PROVE FALSE
  OBVIOUS
<1>1. PICK m \in Bad : \A k \in Bad : m <= k
  BY LeastOf
<1>2. m \in Nat /\ ~ \E f : ReplayUpTo(f, m)
  OBVIOUS
<1>3. m # 0
  <2>1. ReplayUpTo([i \in 0..0 |-> Nothing], 0)
    BY DEF ReplayUpTo
  <2> QED
    BY <1>2, <2>1
<1>4. m - 1 \in Nat /\ m - 1 \notin Bad
  BY <1>1, <1>2, <1>3
<1>5. PICK f : ReplayUpTo(f, m - 1)
  BY <1>4
<1> DEFINE g == [i \in 0..m |-> IF i = m THEN ReplayOne(f[m - 1], m) ELSE f[i]]
<1>6. ReplayUpTo(g, m)
  <2>1. \A i \in 0..m : g[i] = IF i = 0 THEN Nothing ELSE ReplayOne(g[i - 1], i)
    BY <1>2, <1>3, <1>5 DEF ReplayUpTo
  <2>2. g = [i \in 0..m |-> g[i]]
    OBVIOUS
  <2> HIDE DEF g
  <2> QED
    BY <2>1, <2>2 DEF ReplayUpTo
<1> QED
  BY <1>2, <1>6

\* Replay is read off such a function.
ReplayFound == \E f : ReplayUpTo(f, Len(log)) /\ Replay = f[Len(log)]

\* It is, whatever the log.
LEMMA ReplayIs == log \in Seq(Events) => ReplayFound
<1> SUFFICES ASSUME log \in Seq(Events)
             PROVE  \E f : ReplayUpTo(f, Len(log)) /\ Replay = f[Len(log)]
  BY DEF ReplayFound
<1> DEFINE ff == CHOOSE f : ReplayUpTo(f, Len(log))
<1>1. ReplayUpTo(ff, Len(log))
  BY ReplayExists
<1>2. Replay = ff[Len(log)]
  BY Zenon DEF Replay, ReplayUpTo
<1> QED
  BY <1>1, <1>2

\* After a step as well.
LEMMA ReplayIsNext == (log \in Seq(Events))' => ReplayFound'
BY ReplayIs, PTL

\* After i events, what is open and paired is among them.
ReplaysUpTo(i) == [open : SUBSET (1..i), pairs : SUBSET ((1..i) \X (1..i))]

\* By the least entry for which this fails.
LEMMA ReplayTypes ==
    ASSUME log \in Seq(Events), NEW n \in 0..Len(log), NEW f, ReplayUpTo(f, n)
    PROVE  \A i \in 0..n : f[i] \in ReplaysUpTo(i)
<1> DEFINE Bad == {i \in 0..n : f[i] \notin ReplaysUpTo(i)}
<1> SUFFICES ASSUME Bad # {} PROVE FALSE
  OBVIOUS
<1>0. n \in Nat /\ Bad \subseteq Nat
  OBVIOUS
<1>1. PICK m \in Bad : \A k \in Bad : m <= k
  BY <1>0, LeastOf
<1>2. m \in 0..n /\ f[m] \notin ReplaysUpTo(m)
  OBVIOUS
<1>3. f[0] = Nothing /\ Nothing \in ReplaysUpTo(0)
  BY <1>0 DEF ReplayUpTo, Nothing, ReplaysUpTo
<1>4. m # 0
  BY <1>2, <1>3
<1>5. m - 1 \in 0..n /\ m - 1 \notin Bad
  BY <1>0, <1>1, <1>2, <1>4
<1>6. f[m - 1] \in ReplaysUpTo(m - 1)
  BY <1>5
<1>7. f[m] = ReplayOne(f[m - 1], m)
  BY <1>2, <1>4 DEF ReplayUpTo
<1> DEFINE s == f[m - 1]
<1>8. s.open \subseteq 1..m /\ s.pairs \subseteq (1..m) \X (1..m) /\ s.open \subseteq 1..(m-1)
        /\ s = [open |-> s.open, pairs |-> s.pairs]
  BY <1>0, <1>2, <1>4, <1>6 DEF ReplaysUpTo
<1>9. ReplayOne(s, m) \in ReplaysUpTo(m)
  <2> HIDE DEF s
  <2>1. m \in 1..m
    BY <1>0, <1>2, <1>4
  <2>2. Pop(s.open, log[m].target) \subseteq s.open
    BY DEF Pop
  <2>3. CASE log[m].type = "proposal"
    BY <1>8, <2>1, <2>3 DEF ReplayOne, ReplaysUpTo
  <2>4. CASE log[m].type = "expire"
    BY <1>8, <2>1, <2>4 DEF ReplayOne, ReplaysUpTo
  <2>5. CASE log[m].type \notin {"proposal", "expire"}
    BY <1>8, <2>1, <2>2, <2>5 DEF ReplayOne, ReplaysUpTo
  <2> QED
    BY <2>3, <2>4, <2>5
<1> QED
  BY <1>2, <1>7, <1>9

\* The log grows at its end or stays as it is.
Grown == /\ log \in Seq(Events) /\ log' \in Seq(Events)
         /\ Len(log) <= Len(log')
         /\ \A i \in 1..Len(log) : log'[i] = log[i]

\* What an event does to the replay does not depend on later events.
LEMMA SameStep ==
    ASSUME Grown, NEW i \in 1..Len(log), NEW s, s.open \subseteq 1..Len(log)
    PROVE  ReplayOne(s, i)' = ReplayOne(s, i)
<1>1. log'[i] = log[i] /\ \A j \in s.open : log'[j] = log[j]
  BY DEF Grown
<1>2. Pop(s.open, log[i].target)' = Pop(s.open, log[i].target)
  BY <1>1 DEF Pop
<1>3. {j \in s.open : log'[j].conv # log[i].conv} = {j \in s.open : log[j].conv # log[i].conv}
  BY <1>1
<1> QED
  BY <1>1, <1>2, <1>3 DEF ReplayOne

\* So the replay of a longer log passes through that of the shorter one.
LEMMA ReplayPrefix ==
    ASSUME Grown, NEW f, ReplayUpTo(f, Len(log)), NEW g, ReplayUpTo(g, Len(log))'
    PROVE  \A i \in 0..Len(log) : g[i] = f[i]
<1> DEFINE Bad == {i \in 0..Len(log) : g[i] # f[i]}
<1> SUFFICES ASSUME Bad # {} PROVE FALSE
  OBVIOUS
<1>0. /\ Len(log) \in Nat /\ Len(log') \in Nat /\ Bad \subseteq Nat
      /\ Len(log) <= Len(log')
  BY DEF Grown
<1>1. PICK m \in Bad : \A k \in Bad : m <= k
  BY <1>0, LeastOf
<1>2. m \in 0..Len(log) /\ g[m] # f[m]
  OBVIOUS
<1>3. /\ \A i \in 0..Len(log) : f[i] = IF i = 0 THEN Nothing ELSE ReplayOne(f[i - 1], i)
      /\ \A i \in 0..Len(log') : g[i] = IF i = 0 THEN Nothing ELSE ReplayOne(g[i - 1], i)'
  <2>1. f = [i \in 0..Len(log) |-> IF i = 0 THEN Nothing ELSE ReplayOne(f[i - 1], i)]
    BY DEF ReplayUpTo
  <2>2. g = [i \in 0..Len(log') |-> IF i = 0 THEN Nothing ELSE ReplayOne(g[i - 1], i)']
    BY DEF ReplayUpTo, Nothing, ReplayOne, Pop
  <2> QED
    BY <2>1, <2>2
<1>4. m # 0
  BY <1>0, <1>2, <1>3
<1>5. m - 1 \in 0..Len(log) /\ m - 1 \notin Bad
  BY <1>0, <1>1, <1>2, <1>4
<1>6. g[m - 1] = f[m - 1]
  BY <1>5
<1>7. f[m - 1].open \subseteq 1..Len(log)
  <2>1. \A i \in 0..Len(log) : f[i] \in ReplaysUpTo(i)
    BY <1>0, ReplayTypes DEF Grown
  <2> QED
    BY <1>0, <1>5, <2>1 DEF ReplaysUpTo
<1>8. PICK s : s = f[m - 1]
  OBVIOUS
<1>9. ReplayOne(s, m)' = ReplayOne(s, m)
  BY <1>0, <1>2, <1>4, <1>7, <1>8, SameStep
<1> QED
  BY <1>0, <1>2, <1>3, <1>4, <1>6, <1>8, <1>9

\* What is open and paired is in the log.
LEMMA ReplayTyped == ASSUME log \in Seq(Events) PROVE Replay \in ReplaysUpTo(Len(log))
<1>1. PICK f : ReplayUpTo(f, Len(log)) /\ Replay = f[Len(log)]
  BY ReplayIs DEF ReplayFound
<1>2. Len(log) \in Nat /\ Len(log) \in 0..Len(log)
  OBVIOUS
<1>3. \A i \in 0..Len(log) : f[i] \in ReplaysUpTo(i)
  BY <1>1, <1>2, ReplayTypes
<1> QED
  BY <1>1, <1>2, <1>3

\* Nothing written, nothing changes.
LEMMA ReplayKeeps ==
    ASSUME log \in Seq(Events), log' = log
    PROVE  Replay' = Replay
<1>0. Grown /\ Len(log) \in Nat
  BY DEF Grown
<1>1. PICK f : ReplayUpTo(f, Len(log)) /\ Replay = f[Len(log)]
  BY ReplayIs DEF ReplayFound
<1>2. PICK g : ReplayUpTo(g, Len(log))' /\ Replay' = g[Len(log')]
  BY ReplayIsNext DEF ReplayFound
<1> QED
  BY <1>0, <1>1, <1>2, ReplayPrefix

\* An event at the end is replayed on top of what was there.
LEMMA ReplayAppend ==
    ASSUME Grown, NEW r, r = Replay, NEW n, n = Len(log'), n = Len(log) + 1
    PROVE  Replay' = ReplayOne(r, n)'
<1>0. Len(log) \in Nat /\ n = Len(log) + 1
  BY DEF Grown
<1>1. PICK f : ReplayUpTo(f, Len(log)) /\ Replay = f[Len(log)]
  BY ReplayIs DEF Grown, ReplayFound
<1>2. PICK g : ReplayUpTo(g, Len(log))' /\ Replay' = g[Len(log')]
  BY ReplayIsNext DEF Grown, ReplayFound
<1>3. g[n - 1] = r
  BY <1>0, <1>1, <1>2, ReplayPrefix
<1>4. g = [i \in 0..n |-> IF i = 0 THEN Nothing ELSE ReplayOne(g[i - 1], i)']
  BY <1>2 DEF ReplayUpTo, Nothing, ReplayOne, Pop
<1>5. g[n] = ReplayOne(g[n - 1], n)'
  BY <1>0, <1>4
<1>6. ReplayOne(g[n - 1], n)' = ReplayOne(r, n)'
  BY <1>3
<1> QED
  BY <1>2, <1>5, <1>6

\* The same of what a wrapper writes ...
LEMMA WriteReplay ==
    ASSUME TypeOK, NEW e \in Events, WriteLog(e), NEW r, r = Replay, NEW n, n = Len(log')
    PROVE  /\ Grown /\ Len(log) \in Nat /\ n = Len(log) + 1 /\ log'[n] = e
           /\ r.open \subseteq 1..Len(log) /\ r.pairs \subseteq (1..Len(log)) \X (1..Len(log))
           /\ Replay' = ReplayOne(r, n)'
<1>1. Grown /\ Len(log) \in Nat /\ n = Len(log) + 1 /\ log'[n] = e
  BY WriteType DEF Grown, TypeOK
<1>2. Replay' = ReplayOne(r, n)'
  BY <1>1, ReplayAppend
<1>3. r \in ReplaysUpTo(Len(log))
  BY ReplayTyped DEF TypeOK
<1> QED
  BY <1>1, <1>2, <1>3 DEF ReplaysUpTo

\* ... which opens a proposal, ...
LEMMA ReplayProposal ==
    ASSUME TypeOK, NEW c \in Convs, NEW t \in Sessions, WriteLog(Proposal(c, t))
    PROVE  /\ Replay'.open = Replay.open \cup {Len(log) + 1}
           /\ Replay'.pairs = Replay.pairs
<1>1. Proposal(c, t) \in Events
  BY EventType, RoutingAssumption
<1>2. PICK r, n : r = Replay /\ n = Len(log')
  OBVIOUS
<1>3. n = Len(log) + 1 /\ log'[n] = Proposal(c, t) /\ Replay' = ReplayOne(r, n)'
  BY <1>1, <1>2, WriteReplay
<1>4. r = [open |-> r.open, pairs |-> r.pairs]
  BY <1>2, ReplayTyped DEF ReplaysUpTo, TypeOK
<1>5. ReplayOne(r, n)' = [r EXCEPT !.open = @ \cup {n}]
  BY <1>3 DEF ReplayOne, Proposal
<1> QED
  BY <1>2, <1>3, <1>4, <1>5

\* ... closes those of a conversation, ...
LEMMA ReplayExpiry ==
    ASSUME TypeOK, NEW c \in Convs, WriteLog(Expiry(c))
    PROVE  /\ Replay'.open = {j \in Replay.open : log[j].conv # c}
           /\ Replay'.pairs = Replay.pairs
<1>1. Expiry(c) \in Events
  BY DEF Expiry, Events
<1>2. PICK r, n : r = Replay /\ n = Len(log')
  OBVIOUS
<1>3. /\ log'[n] = Expiry(c) /\ Replay' = ReplayOne(r, n)'
      /\ Grown /\ r.open \subseteq 1..Len(log)
  BY <1>1, <1>2, WriteReplay
<1>4. r = [open |-> r.open, pairs |-> r.pairs]
  BY <1>2, ReplayTyped DEF ReplaysUpTo, TypeOK
<1>5. ReplayOne(r, n)' = [r EXCEPT !.open = {j \in @ : log'[j].conv # c}]
  BY <1>3 DEF ReplayOne, Expiry
<1>6. \A j \in r.open : log'[j] = log[j]
  BY <1>3 DEF Grown
<1> QED
  BY <1>2, <1>3, <1>4, <1>5, <1>6

\* ... or closes the last one of a target and pairs it with the label.
LEMMA ReplayLabel ==
    ASSUME TypeOK, NEW t \in Sessions, NEW how \in {"accept", "reject"}, NEW c \in Convs,
           NEW i \in 0..MaxLog, WriteLog(Label(t, how, c, i))
    PROVE  /\ Replay'.open = Replay.open \ Pop(Replay.open, t)
           /\ Replay'.pairs = Replay.pairs \cup (Pop(Replay.open, t) \X {Len(log) + 1})
<1>1. Label(t, how, c, i) \in Events
  BY DEF Label, Events
<1>2. PICK r, n : r = Replay /\ n = Len(log')
  OBVIOUS
<1>3. /\ log'[n] = Label(t, how, c, i) /\ Replay' = ReplayOne(r, n)'
      /\ Grown /\ r.open \subseteq 1..Len(log) /\ n = Len(log) + 1
  BY <1>1, <1>2, WriteReplay
<1>4. log'[n].type \notin {"proposal", "expire"} /\ log'[n].target = t
  BY <1>3 DEF Label
<1>5. Pop(r.open, t)' = Pop(r.open, t)
  <2>1. \A j \in r.open : log'[j] = log[j]
    BY <1>3 DEF Grown
  <2> QED
    BY <2>1 DEF Pop
<1>6. ReplayOne(r, n)' = [open |-> r.open \ Pop(r.open, t),
                          pairs |-> r.pairs \cup (Pop(r.open, t) \X {n})]
  BY <1>4, <1>5 DEF ReplayOne
<1> QED
  BY <1>2, <1>3, <1>6

-----------------------------------------------------------------------------
(* Proposals and their answers, with one wrapper *)

\* Once the hook has closed what was open nothing of the conversation is,
\* until the next proposal is recorded; and what the user is asked about is
\* the last open proposal of its target, and the only one of its conversation.
OpenProposals ==
    /\ OneOpenProposal
    /\ AnswersArePaired
    /\ IgnoredStaysIgnored
    /\ \A w \in Wrappers : pc[w] \in {"hook", "judging", "record", "turn"} =>
          \A i \in Replay.open : log[i].conv = at[w] => i = asked[w]
    /\ \A w \in Wrappers : asked[w] # 0 => Pop(Replay.open, target[w]) = {asked[w]}

\* A step that writes nothing.
LEMMA SilentStep ==
    ASSUME OneWrapper, TypeOK, OpenProposals, NEW w \in Wrappers, UNCHANGED log,
           pc'[w] \in {"hook", "judging", "record", "turn"} =>
              \A i \in Replay.open : log[i].conv = at'[w] => i = asked'[w],
           asked'[w] = 0 \/ (asked'[w] = asked[w] /\ target'[w] = target[w])
    PROVE  OpenProposals'
<1>1. Replay' = Replay
  BY ReplayKeeps DEF TypeOK
<1>2. OneOpenProposal' /\ AnswersArePaired' /\ IgnoredStaysIgnored'
  BY <1>1 DEF OpenProposals, OneOpenProposal, AnswersArePaired, IgnoredStaysIgnored
<1>3. asked'[w] # 0 => Pop(Replay.open, target[w]) = {asked[w]}
  BY DEF OpenProposals
<1>4. ASSUME asked'[w] # 0 PROVE Pop(Replay.open, target[w])' = {asked'[w]}
  BY <1>1, <1>3, <1>4 DEF Pop
<1>5. \A v \in Wrappers : v = w
  BY DEF OneWrapper
<1> QED
  BY <1>1, <1>2, <1>4, <1>5 DEF OpenProposals

\* A label closes the proposal it answers, or one of another conversation.
LEMMA LabelStep ==
    ASSUME OneWrapper, TypeOK, TargetsAgree, OpenProposals, NEW w \in Wrappers,
           NEW t \in Sessions, NEW how \in {"accept", "reject"},
           pc[w] = "turn", LabelIt(w, t, how), UNCHANGED <<at, pc>>
    PROVE  OpenProposals'
<1>0. PICK i, c : i = Answered(w, t) /\ c = at[w]
  OBVIOUS
<1>1. /\ i \in 0..MaxLog /\ c \in Convs
      /\ Label(t, how, c, i) \in Events /\ WriteLog(Label(t, how, c, i))
      /\ asked'[w] = 0 \/ (asked'[w] = asked[w] /\ target'[w] = target[w])
      /\ asked'[w] # 0 => target[w] # t
  BY <1>0, LabelType DEF TypeOK
<1>2. /\ Replay'.open = Replay.open \ Pop(Replay.open, t)
      /\ Replay'.pairs = Replay.pairs \cup (Pop(Replay.open, t) \X {Len(log) + 1})
  BY <1>1, ReplayLabel
<1>3. /\ Len(log) \in Nat /\ Len(log') = Len(log) + 1
      /\ \A k \in 1..Len(log) : log'[k] = log[k]
      /\ log'[Len(log) + 1] = Label(t, how, c, i)
  BY <1>1, WriteType DEF TypeOK
<1>4. /\ Replay.open \subseteq 1..Len(log)
      /\ Replay.pairs \subseteq (1..Len(log)) \X (1..Len(log))
  BY ReplayTyped DEF TypeOK, ReplaysUpTo
<1>5. \A k \in Replay'.open : k \in Replay.open /\ log'[k] = log[k]
  BY <1>2, <1>3, <1>4
<1>6. OneOpenProposal'
  BY <1>5 DEF OpenProposals, OneOpenProposal
<1>7. i # 0 => Pop(Replay.open, t) = {i}
  BY <1>0 DEF Answered, OpenProposals
<1>8. AnswersArePaired'
  <2> SUFFICES ASSUME NEW k \in 1..Len(log'), log'[k].type \in {"accept", "reject"},
                      log'[k].re # 0
               PROVE  {j \in 1..Len(log') : <<j, k>> \in Replay'.pairs} = {log'[k].re}
    BY DEF AnswersArePaired
  <2>1. CASE k \in 1..Len(log)
    <3>1. {j \in 1..Len(log) : <<j, k>> \in Replay.pairs} = {log[k].re}
      BY <1>3, <2>1 DEF OpenProposals, AnswersArePaired
    <3>2. \A j : <<j, k>> \in Replay'.pairs <=> <<j, k>> \in Replay.pairs
      BY <1>2, <1>3, <2>1
    <3>3. \A j : <<j, k>> \in Replay.pairs => j \in 1..Len(log)
      BY <1>4
    <3>4. {j \in 1..Len(log') : <<j, k>> \in Replay'.pairs}
            = {j \in 1..Len(log) : <<j, k>> \in Replay.pairs}
      BY <1>3, <3>2, <3>3
    <3> QED
      BY <1>3, <2>1, <3>1, <3>4
  <2>2. CASE k = Len(log) + 1
    <3>1. log'[k].re = i /\ i # 0 /\ Pop(Replay.open, t) = {i}
      BY <1>3, <1>7, <2>2 DEF Label
    <3>2. i \in 1..Len(log)
      BY <1>4, <3>1 DEF Pop
    <3>3. \A j : <<j, k>> \notin Replay.pairs
      BY <1>3, <1>4, <2>2
    <3>4. \A j : <<j, k>> \in Replay'.pairs <=> j = i
      BY <1>2, <2>2, <3>1, <3>3
    <3> QED
      BY <1>3, <3>1, <3>2, <3>4
  <2> QED
    BY <1>3, <2>1, <2>2
<1>9. IgnoredStaysIgnored'
  <2> SUFFICES ASSUME NEW pair \in Replay'.pairs, log'[pair[1]].conv = log'[pair[2]].conv
               PROVE  log'[pair[2]].re = pair[1]
    BY DEF IgnoredStaysIgnored
  <2>1. CASE pair \in Replay.pairs
    <3>1. pair[1] \in 1..Len(log) /\ pair[2] \in 1..Len(log)
      BY <1>4, <2>1
    <3> QED
      BY <1>3, <2>1, <3>1 DEF OpenProposals, IgnoredStaysIgnored
  <2>2. CASE pair \in Pop(Replay.open, t) \X {Len(log) + 1}
    <3>1. /\ pair[1] \in Pop(Replay.open, t) /\ pair[2] = Len(log) + 1
          /\ pair[1] \in Replay.open /\ log[pair[1]].target = t
      BY <2>2 DEF Pop
    <3>2. pair[1] \in 1..Len(log) /\ log'[pair[1]] = log[pair[1]]
      BY <1>3, <1>4, <3>1
    <3>3. log[pair[1]].conv = at[w]
      BY <1>0, <1>3, <3>1, <3>2 DEF Label
    <3>4. pair[1] = asked[w] /\ asked[w] # 0
      BY <3>1, <3>2, <3>3 DEF OpenProposals
    <3>5. log[asked[w]] = Proposal(at[w], target[w])
      BY <3>4 DEF TypeOK
    <3>6. target[w] = t
      BY <3>1, <3>4, <3>5 DEF Proposal
    <3>7. i = pair[1]
      BY <1>0, <3>4, <3>6 DEF Answered
    <3> QED
      BY <1>3, <3>1, <3>7 DEF Label
  <2> QED
    BY <1>2, <2>1, <2>2
<1>10. \A k \in Replay'.open : log'[k].conv = at'[w] => k = asked'[w]
  <2> SUFFICES ASSUME NEW k \in Replay'.open, log'[k].conv = at'[w]
               PROVE  k = asked'[w]
    OBVIOUS
  <2>1. k = asked[w] /\ k \in Replay.open /\ k # 0
    BY <1>4, <1>5 DEF OpenProposals
  <2>2. CASE asked'[w] = asked[w]
    BY <2>1, <2>2
  <2>3. CASE asked'[w] # asked[w]
    <3>1. Answered(w, t) # 0
      BY <2>3 DEF LabelIt
    <3>2. i # 0 /\ i = asked[w]
      BY <1>0, <3>1 DEF Answered
    <3>3. k \in Pop(Replay.open, t)
      BY <1>7, <2>1, <3>2
    <3> QED
      BY <1>2, <3>3
  <2> QED
    BY <2>2, <2>3
<1>11. ASSUME asked'[w] # 0 PROVE Pop(Replay.open, target[w])' = {asked'[w]}
  <2>1. asked'[w] = asked[w] /\ target'[w] = target[w] /\ target[w] # t /\ asked[w] # 0
    BY <1>1, <1>11
  <2>2. Pop(Replay.open, target[w]) = {asked[w]}
    BY <2>1 DEF OpenProposals
  <2>3. \A k \in Replay.open : log[k].target = target[w] => k \in Replay'.open
    BY <1>2, <2>1 DEF Pop
  <2> QED
    BY <1>5, <2>1, <2>2, <2>3 DEF Pop
<1>12. \A v \in Wrappers : v = w
  BY DEF OneWrapper
<1> QED
  BY <1>6, <1>8, <1>9, <1>10, <1>11, <1>12 DEF OpenProposals

\* The other events are no labels and pair nothing.
LEMMA UnpairedEvent ==
    ASSUME TypeOK, AnswersArePaired, IgnoredStaysIgnored, NEW e \in Events, WriteLog(e),
           e.type \notin {"accept", "reject"}, Replay'.pairs = Replay.pairs
    PROVE  AnswersArePaired' /\ IgnoredStaysIgnored'
<1>2. /\ Len(log) \in Nat /\ Len(log') = Len(log) + 1
      /\ \A k \in 1..Len(log) : log'[k] = log[k]
      /\ log'[Len(log) + 1] = e
  BY WriteType DEF TypeOK
<1>3. Replay.pairs \subseteq (1..Len(log)) \X (1..Len(log))
  BY ReplayTyped DEF TypeOK, ReplaysUpTo
<1>8. IgnoredStaysIgnored'
  <2> SUFFICES ASSUME NEW pair \in Replay.pairs, log'[pair[1]].conv = log'[pair[2]].conv
               PROVE  log'[pair[2]].re = pair[1]
    BY DEF IgnoredStaysIgnored
  <2>1. pair[1] \in 1..Len(log) /\ pair[2] \in 1..Len(log)
    BY <1>3
  <2> QED
    BY <1>2, <2>1 DEF IgnoredStaysIgnored
<1> SUFFICES ASSUME NEW k \in 1..Len(log'), log'[k].type \in {"accept", "reject"},
                    log'[k].re # 0
             PROVE  {j \in 1..Len(log') : <<j, k>> \in Replay'.pairs} = {log'[k].re}
  BY <1>8 DEF AnswersArePaired
<1>4. k \in 1..Len(log) /\ log'[k] = log[k]
  BY <1>2
<1>5. {j \in 1..Len(log) : <<j, k>> \in Replay.pairs} = {log[k].re}
  BY <1>4 DEF AnswersArePaired
<1>6. \A j : <<j, k>> \in Replay.pairs => j \in 1..Len(log)
  BY <1>3
<1>7. {j \in 1..Len(log') : <<j, k>> \in Replay'.pairs}
        = {j \in 1..Len(log) : <<j, k>> \in Replay.pairs}
  BY <1>2, <1>6
<1> QED
  BY <1>4, <1>5, <1>7

\* The hook's expiry closes what was open in the conversation.
LEMMA ExpiryStep ==
    ASSUME OneWrapper, TypeOK, OpenProposals, NEW w \in Wrappers, Expire(w)
    PROVE  OpenProposals'
<1>1. /\ WriteLog(Expiry(at[w])) /\ at[w] \in Convs /\ UNCHANGED <<at, asked, target>>
      /\ pc[w] = "expire"
  BY DEF Expire, TypeOK
<1>2. /\ Replay'.open = {j \in Replay.open : log[j].conv # at[w]}
      /\ Replay'.pairs = Replay.pairs
  BY <1>1, ReplayExpiry
<1>3. Expiry(at[w]) \in Events /\ Expiry(at[w]).type = "expire"
  BY <1>1 DEF Expiry, Events
<1>4. \A i \in Replay.open : log'[i] = log[i]
  <2>1. \A i \in 1..Len(log) : log'[i] = log[i]
    BY <1>1, <1>3, WriteType
  <2>2. Replay.open \subseteq 1..Len(log)
    BY ReplayTyped DEF TypeOK, ReplaysUpTo
  <2> QED
    BY <2>1, <2>2
<1>5. OneOpenProposal'
  BY <1>2, <1>4 DEF OpenProposals, OneOpenProposal
<1>6. AnswersArePaired' /\ IgnoredStaysIgnored'
  BY <1>1, <1>2, <1>3, UnpairedEvent DEF OpenProposals
<1>7. \A i \in Replay'.open : log'[i].conv # at'[w]
  BY <1>1, <1>2, <1>4
<1>8. asked'[w] = 0
  BY <1>1 DEF TypeOK
<1>9. \A v \in Wrappers : v = w
  BY DEF OneWrapper
<1> QED
  BY <1>5, <1>6, <1>7, <1>8, <1>9 DEF OpenProposals

\* A new proposal is the only one open in its conversation, and the last one
\* of its target.
LEMMA RecordStep ==
    ASSUME OneWrapper, TypeOK, TargetsAgree, OpenProposals, NEW w \in Wrappers, Record(w)
    PROVE  OpenProposals'
<1>1. /\ WriteLog(Proposal(at[w], target[w])) /\ at[w] \in Convs /\ target[w] \in Sessions
      /\ UNCHANGED <<at, target>> /\ pc[w] = "record"
      /\ pc'[w] = "turn" /\ asked'[w] = Len(log) + 1
  BY DEF Record, TypeOK, TargetsAgree
<1>2. /\ Replay'.open = Replay.open \cup {Len(log) + 1}
      /\ Replay'.pairs = Replay.pairs
  BY <1>1, ReplayProposal
<1>3. /\ Proposal(at[w], target[w]) \in Events
      /\ Proposal(at[w], target[w]).type = "proposal"
  BY <1>1 DEF Proposal, Events
<1>4. /\ Len(log) \in Nat /\ log'[Len(log) + 1] = Proposal(at[w], target[w])
      /\ \A i \in Replay.open : i \in 1..Len(log) /\ log'[i] = log[i]
  <2>1. /\ Len(log) \in Nat /\ log'[Len(log) + 1] = Proposal(at[w], target[w])
        /\ \A i \in 1..Len(log) : log'[i] = log[i]
    BY <1>1, <1>3, WriteType DEF TypeOK
  <2>2. Replay.open \subseteq 1..Len(log)
    BY ReplayTyped DEF TypeOK, ReplaysUpTo
  <2> QED
    BY <2>1, <2>2
<1>9. asked[w] = 0
  BY <1>1 DEF TypeOK
<1>5. OneOpenProposal'
  <2>1. \A i \in Replay.open : log'[i].conv # at[w]
    BY <1>1, <1>4, <1>9 DEF OpenProposals
  <2>2. log'[Len(log) + 1].conv = at[w]
    BY <1>4 DEF Proposal
  <2>3. \A i, j \in Replay.open : log'[i].conv = log'[j].conv => i = j
    BY <1>4 DEF OpenProposals, OneOpenProposal
  <2> QED
    BY <1>2, <2>1, <2>2, <2>3 DEF OneOpenProposal
<1>6. AnswersArePaired' /\ IgnoredStaysIgnored'
  BY <1>1, <1>2, <1>3, UnpairedEvent DEF OpenProposals
<1>7. Pop(Replay.open, target[w])' = {asked'[w]}
  <2>1. log'[Len(log) + 1].target = target[w]
    BY <1>4 DEF Proposal
  <2>2. \A i \in Replay'.open : i <= Len(log) + 1
    BY <1>2, <1>4
  <2>3. Len(log) + 1 \in Replay'.open
    BY <1>2
  <2>4. \A i \in Replay'.open : i \in Nat
    BY <1>2, <1>4
  <2> QED
    BY <1>1, <1>4, <2>1, <2>2, <2>3, <2>4 DEF Pop
<1>8. \A v \in Wrappers : v = w
  BY DEF OneWrapper
<1>10. \A i \in Replay'.open : log'[i].conv = at'[w] => i = asked'[w]
  BY <1>1, <1>2, <1>4, <1>9 DEF OpenProposals
<1> QED
  BY <1>1, <1>5, <1>6, <1>7, <1>8, <1>10 DEF OpenProposals

\* One step per operation.
LEMMA StepProposals ==
    ASSUME OneWrapper, TypeOK, TargetsAgree, OpenProposals, NEW w \in Wrappers, Step(w)
    PROVE  OpenProposals'
<1> USE DEF Over
<1>1. /\ asked[w] # 0 => Pop(Replay.open, target[w]) = {asked[w]}
      /\ pc[w] \in {"hook", "judging", "record", "turn"} =>
            \A i \in Replay.open : log[i].conv = at[w] => i = asked[w]
      /\ pc[w] # "turn" => asked[w] = 0
      /\ at \in [Wrappers -> Convs] /\ pc \in [Wrappers -> Pcs]
      /\ target \in [Wrappers -> Sessions \cup {NULL}]
      /\ asked \in [Wrappers -> 0..Len(log)]
      /\ undo[w] \in Undos
  BY DEF OpenProposals, TypeOK, Pcs
<1> DEFINE Silent ==
        /\ UNCHANGED log
        /\ pc'[w] \in {"hook", "judging", "record", "turn"} =>
              \A i \in Replay.open : log[i].conv = at'[w] => i = asked'[w]
        /\ asked'[w] = 0 \/ (asked'[w] = asked[w] /\ target'[w] = target[w])
<1>2. Silent => OpenProposals'
  BY SilentStep
<1>3. CASE Prompt(w)
  <2>1. pc'[w] = "hook" => ~HasOpen(at[w])
    BY <1>1, <1>3 DEF Prompt
  <2>2. pc'[w] \in {"expire", "hook"} /\ UNCHANGED <<log, at, asked, target>>
    BY <1>1, <1>3 DEF Prompt
  <2>3. Silent
    BY <2>1, <2>2 DEF HasOpen
  <2> QED
    BY <1>2, <2>3
<1>4. CASE Expire(w)
  BY <1>4, ExpiryStep
<1>5. CASE Record(w)
  BY <1>5, RecordStep
<1>6. CASE PassThrough(w) \/ AskJudge(w) \/ \E t \in Sessions : SwitchVerdict(w, t)
  <2>1. UNCHANGED <<log, at, asked>> /\ pc[w] \in {"hook", "judging", "record"}
    BY <1>6 DEF PassThrough, AskJudge, SwitchVerdict
  <2>2. Silent
    BY <1>1, <2>1
  <2> QED
    BY <1>2, <2>2
<1>7. CASE EndTurn(w) \/ Quit(w) \/ Respawn(w)
  <2>1. Silent
    BY <1>1, <1>7 DEF EndTurn, Quit, Respawn
  <2> QED
    BY <1>2, <2>1
<1>8. CASE PointerTool(w) \/ \E t \in Sessions : CreateTool(w, t)
  <2>1. UNCHANGED <<log, at, pc, asked, target>>
    BY <1>8 DEF PointerTool, CreateTool, prompt
  <2>2. Silent
    BY <1>1, <2>1
  <2> QED
    BY <1>2, <2>2
<1>9. CASE RollOver(w) \/ \E c \in Convs : Resume(w, c)
  <2>1. UNCHANGED <<log, pc, asked, target>> /\ pc[w] = "idle"
    BY <1>9 DEF RollOver, Resume, prompt
  <2>2. Silent
    BY <1>1, <2>1
  <2> QED
    BY <1>2, <2>2
<1>10. CASE \E t \in Sessions : SwitchTool(w, t) \/ RejectTool(w, t)
  <2>1. PICK t \in Sessions : SwitchTool(w, t) \/ RejectTool(w, t)
    BY <1>10
  <2>2. /\ pc[w] = "turn" /\ UNCHANGED <<at, pc>>
        /\ LabelIt(w, t, "accept") \/ LabelIt(w, t, "reject")
    BY <2>1 DEF SwitchTool, RejectTool
  <2> QED
    BY <2>2, LabelStep
<1>11. CASE BackTool(w)
  <2>1. /\ pc[w] = "turn" /\ UNCHANGED <<at, pc>>
        /\ LabelIt(w, undo[w], "reject") /\ undo[w] \in Sessions
    BY <1>1, <1>11 DEF BackTool, Undos
  <2> QED
    BY <2>1, LabelStep
<1> QED
  BY <1>3, <1>4, <1>5, <1>6, <1>7, <1>8, <1>9, <1>10, <1>11 DEF Step

\* The invariant of all behaviours of a project with one wrapper.
LEMMA ProposalsInvariant ==
    ASSUME OneWrapper
    PROVE  Spec => [](TypeOK /\ TargetsAgree /\ OpenProposals)
<1>1. Init => TypeOK /\ TargetsAgree /\ OpenProposals
  <2> SUFFICES ASSUME Init PROVE TypeOK /\ TargetsAgree /\ OpenProposals
    OBVIOUS
  <2>1. TypeOK /\ TargetsAgree
    BY InitTypes
  <2>2. Len(log) = 0 /\ Replay.open = {}
    <3>1. log = <<>> /\ Len(log) = 0
      BY DEF Init
    <3>2. Replay.open \subseteq 1..Len(log)
      BY <2>1, ReplayTyped DEF TypeOK, ReplaysUpTo
    <3> QED
      BY <3>1, <3>2
  <2>3. \A w \in Wrappers : asked[w] = 0
    BY DEF Init
  <2>4. 1..Len(log) = {}
    BY <2>2
  <2>5. Replay.pairs = {}
    <3>1. Replay.pairs \subseteq (1..Len(log)) \X (1..Len(log))
      BY <2>1, ReplayTyped DEF TypeOK, ReplaysUpTo
    <3> QED
      BY <2>4, <3>1
  <2> QED
    BY <2>1, <2>2, <2>3, <2>4, <2>5 DEF OpenProposals, OneOpenProposal, AnswersArePaired,
                                          IgnoredStaysIgnored
<1>2. TypeOK /\ TargetsAgree /\ OpenProposals /\ [Next]_vars
         => TypeOK' /\ TargetsAgree' /\ OpenProposals'
  <2>1. ASSUME TypeOK, OpenProposals, UNCHANGED vars PROVE OpenProposals'
    <3>1. UNCHANGED <<log, at, pc, target, asked>> /\ Replay' = Replay
      BY <2>1, ReplayKeeps DEF vars, TypeOK
    <3> QED
      BY <2>1, <3>1 DEF OpenProposals, OneOpenProposal, AnswersArePaired,
                         IgnoredStaysIgnored, Pop
  <2>2. ASSUME TypeOK, TargetsAgree, OpenProposals, NEW w \in Wrappers, Step(w)
        PROVE  OpenProposals'
    BY <2>2, StepProposals
  <2> QED
    BY <2>1, <2>2, NextIsStep, NextTypes
<1> QED
  BY <1>1, <1>2, PTL DEF Spec

\* In a project with one wrapper at most one proposal of a conversation is
\* open, the last one made there, whatever became of the others.
THEOREM ProposalsDoNotPileUp ==
    ASSUME OneWrapper
    PROVE  Spec => []OneOpenProposal
<1>1. OpenProposals => OneOpenProposal
  BY DEF OpenProposals
<1> QED
  BY <1>1, ProposalsInvariant, PTL

\* ... and the answer to a proposal is paired with that proposal and no
\* other when the log is read back, although it does not say which it was.
THEOREM AnswersFindTheirProposal ==
    ASSUME OneWrapper
    PROVE  Spec => []AnswersArePaired
<1>1. OpenProposals => AnswersArePaired
  BY DEF OpenProposals
<1> QED
  BY <1>1, ProposalsInvariant, PTL

\* ... and within a conversation with no other label: what the user has
\* ignored there stays out of the pairs, wherever he has been meanwhile.
THEOREM IgnoredIsNotConsumed ==
    ASSUME OneWrapper
    PROVE  Spec => []IgnoredStaysIgnored
<1>1. OpenProposals => IgnoredStaysIgnored
  BY DEF OpenProposals
<1> QED
  BY <1>1, ProposalsInvariant, PTL

=============================================================================
