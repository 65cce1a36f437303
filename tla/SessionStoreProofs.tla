------------------------- MODULE SessionStoreProofs -------------------------
(***************************************************************************)
(* Theorems of SessionStore, for any calls, sessions and names.            *)
(***************************************************************************)
EXTENDS SessionStore, TLAPS

Opened == {"flock", "load", "write", "replace", "unlock"}
Saving == {"write", "replace"}
Unopened == {"idle", "list", "read", "open", "expire", "unlink", "unlinkLock", "default", "look"}

\* The calls whose changes are in a file.
ChangesIn(f) == IF file[f] = NULL THEN {} ELSE file[f].by

\* Where a call is tells what it works on, and what it has reported.
StepsAgree ==
    \A c \in Calls :
        /\ pc[c] \in Opened \cup {"open"} => target[c] \in Files
        /\ pc[c] \in {"unlink", "unlinkLock"} => target[c] \in Sessions
        /\ pc[c] = "unlinkLock" => target[c] \in deleted
        /\ pc[c] \in Unopened => fd[c] = NULL
        /\ outcome[c] = "saved" => pc[c] \in {"unlock", "done", "killed"} /\ target[c] \in Files

\* Nobody knows of an id before it is taken, and a session that was listed
\* or looked up is there as long as it is not deleted.
IdsAreTaken ==
    /\ \A c \in Calls :
          /\ target[c] \in taken \cup {STATIC, NULL}
          /\ listed[c] \subseteq taken
          /\ \A s \in listed[c] : s \in deleted \/ file[s] # NULL
          /\ kind[c] = "mutate" /\ pc[c] \in {"open", "flock", "load"} =>
                target[c] \in deleted \/ file[target[c]] # NULL
    /\ \A s \in Sessions : file[s] # NULL => s \in taken

\* The file of a session that is being registered is nobody else's.
RegistersAlone ==
    \A c \in Calls :
        pc[c] \in Saving /\ fd[c] = NULL =>
            /\ target[c] \in Sessions \ deleted
            /\ file[target[c]] = NULL
            /\ \A d \in Calls : d # c => target[d] # target[c]
            /\ \A d \in Calls : target[c] \notin listed[d]

\* A call past flock holds its lock, and the lock is the one at the file's
\* path, unless the session has been deleted.
LocksAreHeld ==
    \A c \in Calls :
        fd[c] # NULL =>
            /\ pc[c] \in Opened \ {"flock"} => held[fd[c]] = c
            /\ pc[c] \in Opened /\ target[c] \notin deleted => lock[target[c]] = fd[c]

\* What is about to be saved is the file with one change more.
SavesAreCurrent ==
    \A c \in Calls :
        pc[c] \in Saving /\ target[c] \notin deleted =>
            /\ copy[c] # NULL
            /\ copy[c].by = ChangesIn(target[c]) \cup {c}
            /\ pc[c] = "replace" => temp[target[c]] = copy[c]

IInv ==
    /\ TypeOK
    /\ StepsAgree
    /\ IdsAreTaken
    /\ RegistersAlone
    /\ LocksAreInUse
    /\ LocksAreHeld
    /\ SavesAreCurrent
    /\ UpdatesSurvive
    /\ RaisesAfterDeletion

Step(c) ==
    \/ \E n \in Names : BeginByName(c, "mutate", n) \/ BeginByName(c, "boot", n)
    \/ BeginStatic(c)
    \/ \E n \in Names, s \in Sessions : BeginRegister(c, n, s)
    \/ Proceed(c)
    \/ Kill(c)

\* A step of one call leaves the locals of the others alone.
LEMMA OthersWait ==
    ASSUME TypeOK, NEW c \in Calls, Step(c)
    PROVE  \A d \in Calls \ {c} :
              /\ pc'[d] = pc[d] /\ kind'[d] = kind[d]
              /\ target'[d] = target[d] /\ listed'[d] = listed[d]
              /\ fd'[d] = fd[d] /\ copy'[d] = copy[d] /\ outcome'[d] = outcome[d]
<1> USE DEF TypeOK, disk, history, Goto, Return
<1>1. CASE \E n \in Names : BeginByName(c, "mutate", n) \/ BeginByName(c, "boot", n)
  BY <1>1 DEF BeginByName, Begin
<1>2. CASE BeginStatic(c)
  BY <1>2 DEF BeginStatic, Begin
<1>3. CASE \E n \in Names, s \in Sessions : BeginRegister(c, n, s)
  BY <1>3 DEF BeginRegister, Begin, Register
<1>4. CASE List(c) \/ ReadRaises(c) \/ NotFound(c) \/ Found(c)
  BY <1>4 DEF List, ReadRaises, NotFound, Found
<1>5. CASE OpenLock(c) \/ Flock(c) \/ LoadNothing(c) \/ Load(c)
  BY <1>5 DEF OpenLock, Flock, LoadNothing, Load
<1>6. CASE WriteTemp(c) \/ Replace(c) \/ ReplaceRaises(c) \/ Unlock(c)
  BY <1>6 DEF WriteTemp, Replace, ReplaceRaises, Unlock
<1>7. CASE ReadToClean(c) \/ Expire(c) \/ Unlink(c) \/ UnlinkLock(c)
  BY <1>7 DEF ReadToClean, Expire, Unlink, UnlinkLock
<1>8. CASE Cleaned(c) \/ Booted(c) \/ \E s \in Sessions : AutoRegister(c, s)
  BY <1>8 DEF Cleaned, Booted, AutoRegister, Register
<1>9. CASE Kill(c)
  BY <1>9 DEF Kill
<1> QED
  BY <1>1, <1>2, <1>3, <1>4, <1>5, <1>6, <1>7, <1>8, <1>9 DEF Step, Proceed

-----------------------------------------------------------------------------
(* Types *)

\* The initial states are well typed.
LEMMA InitType == Init => TypeOK
BY StoreAssumption DEF Init, TypeOK, Contents, Files, Steps

\* What the shared part and the locals of the moving call become is typed.
LEMMA StepType ==
    ASSUME TypeOK, StepsAgree, IdsAreTaken, NEW c \in Calls, Step(c)
    PROVE  TypeOK'
<1> USE StoreAssumption DEF TypeOK, disk, history, Goto, Return, Files, Steps
<1>1. CASE \E n \in Names : BeginByName(c, "mutate", n) \/ BeginByName(c, "boot", n)
  BY <1>1 DEF BeginByName, Begin
<1>2. CASE BeginStatic(c)
  BY <1>2 DEF BeginStatic, Begin
<1>3. CASE \E n \in Names, s \in Sessions : BeginRegister(c, n, s)
  <2>1. PICK n \in Names, s \in Sessions : BeginRegister(c, n, s)
    BY <1>3
  <2>2. [name |-> n, by |-> {c}, recent |-> TRUE] \in Contents
    BY DEF Contents
  <2> QED
    BY <2>1, <2>2 DEF BeginRegister, Begin, Register
<1>4. CASE List(c) \/ ReadRaises(c) \/ NotFound(c) \/ Found(c)
  <2>1. CASE List(c)
    BY <2>1 DEF List, Present, Named
  <2>2. CASE ReadRaises(c)
    BY <2>2 DEF ReadRaises, Present, Named
  <2>3. CASE NotFound(c)
    BY <2>3 DEF NotFound, Present, Named
  <2>4. CASE Found(c)
    BY <2>4 DEF Found, Present, Named
  <2> QED
    BY <1>4, <2>1, <2>2, <2>3, <2>4
<1>5. CASE OpenLock(c)
  BY <1>5 DEF OpenLock, StepsAgree, Opened
<1>6. CASE Flock(c)
  BY <1>6 DEF Flock
<1>7. CASE LoadNothing(c)
  BY <1>7 DEF LoadNothing
<1>8. CASE Load(c)
  <2> DEFINE f == target[c]
             old == IF file[f] = NULL THEN [name |-> NULL, by |-> {}, recent |-> TRUE]
                    ELSE file[f]
  <2>1. f \in Files
    BY <1>8 DEF Load, StepsAgree, Opened
  <2>2. old \in Contents
    BY <2>1 DEF Contents
  <2>3. PICK now \in BOOLEAN : copy' = [copy EXCEPT ![c] =
            [name |-> old.name, by |-> old.by \cup {c}, recent |-> old.recent \/ now]]
    BY <1>8 DEF Load
  <2>4. [name |-> old.name, by |-> old.by \cup {c}, recent |-> old.recent \/ now] \in Contents
    BY <2>2 DEF Contents
  <2>5. copy' \in [Calls -> Contents \cup {NULL}]
    BY <2>3, <2>4
  <2> HIDE DEF f, old
  <2> QED
    BY <1>8, <2>5 DEF Load
<1>9. CASE WriteTemp(c) \/ ReplaceRaises(c) \/ Unlock(c)
  <2>1. CASE WriteTemp(c)
    BY <2>1 DEF WriteTemp, AfterSave
  <2>2. CASE ReplaceRaises(c)
    BY <2>2 DEF ReplaceRaises, AfterSave
  <2>3. CASE Unlock(c)
    BY <2>3 DEF Unlock, AfterSave
  <2> QED
    BY <1>9, <2>1, <2>2, <2>3
<1>10. CASE Replace(c)
  BY <1>10 DEF Replace, AfterSave, StepsAgree, Opened
<1>11. CASE ReadToClean(c) \/ Expire(c) \/ UnlinkLock(c)
  <2>1. CASE ReadToClean(c)
    BY <2>1 DEF ReadToClean
  <2>2. CASE Expire(c)
    BY <2>2 DEF Expire
  <2>3. CASE UnlinkLock(c)
    BY <2>3 DEF UnlinkLock
  <2> QED
    BY <1>11, <2>1, <2>2, <2>3
<1>12. CASE Unlink(c)
  <2>1. target[c] \in taken /\ target[c] \in Sessions
    BY <1>12 DEF Unlink, StepsAgree, IdsAreTaken
  <2> QED
    BY <1>12, <2>1 DEF Unlink
<1>13. CASE Cleaned(c) \/ Booted(c)
  <2>1. CASE Cleaned(c)
    BY <2>1 DEF Cleaned
  <2>2. CASE Booted(c)
    BY <2>2 DEF Booted
  <2> QED
    BY <1>13, <2>1, <2>2
<1>14. CASE \E s \in Sessions : AutoRegister(c, s)
  <2>1. PICK s \in Sessions : AutoRegister(c, s)
    BY <1>14
  <2>2. [name |-> name[c], by |-> {c}, recent |-> TRUE] \in Contents
    BY DEF Contents
  <2> QED
    BY <2>1, <2>2 DEF AutoRegister, Register
<1>15. CASE Kill(c)
  BY <1>15 DEF Kill
<1> QED
  BY <1>1, <1>2, <1>3, <1>4, <1>5, <1>6, <1>7, <1>8, <1>9, <1>10, <1>11, <1>12, <1>13,
     <1>14, <1>15 DEF Step, Proceed

-----------------------------------------------------------------------------
(* The strengthening, one part at a time *)

Registers(c) ==
    /\ pc[c] \in {"idle", "look"}
    /\ \E n \in Names \cup {NULL}, s \in Sessions : Register(c, n, s)

\* Each variable is changed by a few of the actions only.
LEMMA Frame ==
    ASSUME TypeOK, NEW c \in Calls, Step(c)
    PROVE  /\ file' = file \/ Replace(c) \/ Unlink(c)
           /\ temp' = temp \/ WriteTemp(c) \/ Replace(c)
           /\ lock' = lock \/ OpenLock(c) \/ UnlinkLock(c)
           /\ held' = held \/ Flock(c) \/ Unlock(c) \/ Kill(c)
           /\ target' = target \/ BeginStatic(c) \/ Registers(c) \/ Found(c) \/ Expire(c)
           /\ listed' = listed \/ List(c) \/ ReadToClean(c) \/ Expire(c)
           /\ outcome' = outcome \/ outcome'[c] = "none"
                 \/ ReadRaises(c) \/ LoadNothing(c) \/ Replace(c) \/ ReplaceRaises(c)
           /\ taken' = taken \/ Registers(c)
           /\ deleted' = deleted \/ Unlink(c)
<1> USE DEF TypeOK, disk, history, Goto, Return, Registers
<1>1. CASE \E n \in Names : BeginByName(c, "mutate", n) \/ BeginByName(c, "boot", n)
  BY <1>1 DEF BeginByName, Begin
<1>2. CASE BeginStatic(c)
  BY <1>2 DEF BeginStatic, Begin
<1>3. CASE \E n \in Names, s \in Sessions : BeginRegister(c, n, s)
  BY <1>3 DEF BeginRegister, Begin, Register
<1>4. CASE List(c)
  BY <1>4 DEF List
<1>5. CASE ReadRaises(c)
  BY <1>5 DEF ReadRaises
<1>6. CASE NotFound(c)
  BY <1>6 DEF NotFound
<1>7. CASE Found(c)
  BY <1>7 DEF Found, Named
<1>8. CASE OpenLock(c)
  BY <1>8 DEF OpenLock
<1>9. CASE Flock(c)
  BY <1>9 DEF Flock
<1>10. CASE LoadNothing(c)
  BY <1>10 DEF LoadNothing
<1>11. CASE Load(c)
  BY <1>11 DEF Load
<1>12. CASE WriteTemp(c)
  BY <1>12 DEF WriteTemp
<1>13. CASE Replace(c)
  BY <1>13 DEF Replace, AfterSave
<1>14. CASE ReplaceRaises(c)
  BY <1>14 DEF ReplaceRaises, AfterSave
<1>15. CASE Unlock(c)
  BY <1>15 DEF Unlock
<1>16. CASE ReadToClean(c)
  BY <1>16 DEF ReadToClean
<1>17. CASE Expire(c)
  BY <1>17 DEF Expire
<1>18. CASE Unlink(c)
  BY <1>18 DEF Unlink
<1>19. CASE UnlinkLock(c)
  BY <1>19 DEF UnlinkLock
<1>20. CASE Cleaned(c)
  BY <1>20 DEF Cleaned
<1>21. CASE Booted(c)
  BY <1>21 DEF Booted
<1>22. CASE \E s \in Sessions : AutoRegister(c, s)
  <2>1. PICK s \in Sessions : AutoRegister(c, s)
    BY <1>22
  <2> QED
    BY <2>1 DEF AutoRegister, Register
<1>23. CASE Kill(c)
  BY <1>23 DEF Kill
<1> QED
  BY <1>1, <1>2, <1>3, <1>4, <1>5, <1>6, <1>7, <1>8, <1>9, <1>10, <1>11, <1>12, <1>13, <1>14,
     <1>15, <1>16, <1>17, <1>18, <1>19, <1>20, <1>21, <1>22, <1>23 DEF Step, Proceed

\* Ids stay taken and deleted.
LEMMA HistoryGrows ==
    ASSUME TypeOK, NEW c \in Calls, Step(c)
    PROVE  taken \subseteq taken' /\ deleted \subseteq deleted'
BY Frame DEF Registers, Register, Unlink

\* Where the moving call arrives, it has what it works on.
LEMMA StepStepsAgree ==
    ASSUME TypeOK, StepsAgree, IdsAreTaken, NEW c \in Calls, Step(c)
    PROVE  StepsAgree'
<1> DEFINE Agrees(d) ==
        /\ pc[d] \in Opened \cup {"open"} => target[d] \in Files
        /\ pc[d] \in {"unlink", "unlinkLock"} => target[d] \in Sessions
        /\ pc[d] = "unlinkLock" => target[d] \in deleted
        /\ pc[d] \in Unopened => fd[d] = NULL
        /\ outcome[d] = "saved" => pc[d] \in {"unlock", "done", "killed"} /\ target[d] \in Files
<1>1. \A d \in Calls : Agrees(d)
  BY DEF StepsAgree
<1>2. ASSUME NEW d \in Calls \ {c} PROVE Agrees(d)'
  BY <1>1, <1>2, OthersWait, HistoryGrows
<1>3. Agrees(c)'
  <2>0. Agrees(c) /\ listed[c] \subseteq Sessions
    BY <1>1 DEF TypeOK
  <2> USE StoreAssumption, NullAssumption
      DEF TypeOK, disk, history, Goto, Return, Files, Opened, Unopened
  <2> HIDE DEF StepsAgree, IdsAreTaken
  <2>1. CASE \E n \in Names : BeginByName(c, "mutate", n) \/ BeginByName(c, "boot", n)
    BY <2>1, <2>0 DEF BeginByName, Begin
  <2>2. CASE BeginStatic(c)
    BY <2>2, <2>0 DEF BeginStatic, Begin
  <2>3. CASE \E n \in Names, s \in Sessions : BeginRegister(c, n, s)
    BY <2>3, <2>0 DEF BeginRegister, Begin, Register
  <2>4. CASE List(c)
    BY <2>4, <2>0 DEF List
  <2>5. CASE ReadRaises(c)
    BY <2>5, <2>0 DEF ReadRaises
  <2>6. CASE NotFound(c)
    BY <2>6, <2>0 DEF NotFound
  <2>7. CASE Found(c)
    BY <2>7, <2>0 DEF Found, Named
  <2>8. CASE OpenLock(c)
    BY <2>8, <2>0 DEF OpenLock
  <2>9. CASE Flock(c)
    BY <2>9, <2>0 DEF Flock
  <2>10. CASE LoadNothing(c)
    BY <2>10, <2>0 DEF LoadNothing
  <2>11. CASE Load(c)
    BY <2>11, <2>0 DEF Load
  <2>12. CASE WriteTemp(c)
    BY <2>12, <2>0 DEF WriteTemp
  <2>13. CASE Replace(c)
    BY <2>13, <2>0 DEF Replace, AfterSave
  <2>14. CASE ReplaceRaises(c)
    BY <2>14, <2>0 DEF ReplaceRaises, AfterSave
  <2>15. CASE Unlock(c)
    BY <2>15, <2>0 DEF Unlock
  <2>16. CASE ReadToClean(c)
    BY <2>16, <2>0 DEF ReadToClean
  <2>17. CASE Expire(c)
    BY <2>17, <2>0 DEF Expire
  <2>18. CASE Unlink(c)
    BY <2>18, <2>0 DEF Unlink
  <2>19. CASE UnlinkLock(c)
    BY <2>19, <2>0 DEF UnlinkLock
  <2>20. CASE Cleaned(c)
    BY <2>20, <2>0 DEF Cleaned
  <2>21. CASE Booted(c)
    BY <2>21, <2>0 DEF Booted
  <2>22. CASE \E s \in Sessions : AutoRegister(c, s)
    BY <2>22, <2>0 DEF AutoRegister, Register
  <2>23. CASE Kill(c)
    BY <2>23, <2>0 DEF Kill
  <2> QED
    BY <2>1, <2>2, <2>3, <2>4, <2>5, <2>6, <2>7, <2>8, <2>9, <2>10, <2>11, <2>12, <2>13, <2>14,
       <2>15, <2>16, <2>17, <2>18, <2>19, <2>20, <2>21, <2>22, <2>23 DEF Step, Proceed
<1> QED
  BY <1>2, <1>3 DEF StepsAgree

\* Ids come from the directory or are new; only a deletion takes a file away.
LEMMA StepIdsAreTaken ==
    ASSUME TypeOK, StepsAgree, IdsAreTaken, NEW c \in Calls, Step(c)
    PROVE  IdsAreTaken'
<1> DEFINE Taken(d) ==
        /\ target[d] \in taken \cup {STATIC, NULL}
        /\ listed[d] \subseteq taken
        /\ \A s \in listed[d] : s \in deleted \/ file[s] # NULL
<1> DEFINE Existed(d) ==
        kind[d] = "mutate" /\ pc[d] \in {"open", "flock", "load"} =>
           target[d] \in deleted \/ file[target[d]] # NULL
<1>1. \A d \in Calls : Taken(d)
  BY DEF IdsAreTaken
<1>2. \A s \in Sessions : file[s] # NULL => s \in taken
  BY DEF IdsAreTaken
<1>3. \A s \in Sessions : file[s] # NULL => file'[s] # NULL \/ s \in deleted'
  BY Frame, NullAssumption DEF TypeOK, Replace, Unlink, Files
<1>4. ASSUME NEW d \in Calls \ {c} PROVE Taken(d)'
  <2>1. Taken(d) /\ listed[d] \subseteq Sessions
    BY <1>1 DEF TypeOK
  <2> QED
    BY <1>3, <2>1, OthersWait, HistoryGrows
<1>5. Taken(c)'
  <2>0. Taken(c) /\ listed[c] \subseteq Sessions
    BY <1>1 DEF TypeOK
  <2>a. \A s \in Sessions : s \in listed[c] => s \in deleted' \/ file'[s] # NULL
    BY <1>3, <2>0, HistoryGrows
  <2>b. listed[c] \subseteq taken'
    BY <2>0, HistoryGrows
  <2>1. target'[c] \in taken' \cup {STATIC, NULL}
    BY <2>0, Frame, HistoryGrows
       DEF TypeOK, BeginStatic, Registers, Register, Found, Named, Expire
  <2>2. \A s \in listed'[c] : s \in taken' /\ (s \in deleted' \/ file'[s] # NULL)
    <3>1. CASE listed' = listed
      BY <2>0, <2>a, <2>b, <3>1
    <3>2. CASE List(c)
      BY <1>2, <3>2 DEF List, Present, TypeOK, disk, history
    <3>3. CASE ReadToClean(c) \/ Expire(c)
      BY <2>0, <2>a, <2>b, <3>3 DEF ReadToClean, Expire, TypeOK
    <3> QED
      BY <3>1, <3>2, <3>3, Frame
  <2> QED
    BY <2>1, <2>2
<1>6. \A s \in Sessions : file'[s] # NULL => s \in taken'
  <2>1. CASE Replace(c)
    BY <1>1, <1>2, <2>1, StoreAssumption DEF Replace, TypeOK, history, Files
  <2>2. CASE ~Replace(c)
    <3>1. \A s \in Sessions : file'[s] # NULL => file[s] # NULL
      BY <2>2, Frame DEF TypeOK, Unlink, Files
    <3> QED
      BY <1>2, <3>1, HistoryGrows
  <2> QED
    BY <2>1, <2>2
<1>7. ASSUME NEW d \in Calls PROVE Existed(d)'
  <2>1. CASE d # c
    <3>1. kind'[d] = kind[d] /\ pc'[d] = pc[d] /\ target'[d] = target[d]
      BY <2>1, OthersWait
    <3>2. target[d] \in Sessions \cup {STATIC, NULL}
      BY DEF TypeOK, Files
    <3>3. kind[d] = "mutate" /\ pc[d] \in {"open", "flock", "load"} =>
             target[d] \in deleted \/ file[target[d]] # NULL
      BY DEF IdsAreTaken
    <3>4. \A f \in Files : file[f] # NULL => file'[f] # NULL \/ f \in deleted'
      BY Frame, NullAssumption DEF TypeOK, Replace, Unlink, Files
    <3>5. pc[d] \in {"open", "flock", "load"} => target[d] \in Files
      BY DEF StepsAgree, Opened
    <3> QED
      BY <3>1, <3>3, <3>4, <3>5, HistoryGrows
  <2>2. CASE d = c
    <3> USE DEF TypeOK, Existed, Goto, Return, disk, history
    <3>1. CASE Found(c)
      BY <2>2, <3>1 DEF Found, Named, Present
    <3>2. CASE OpenLock(c) \/ Flock(c)
      BY <2>2, <3>2 DEF OpenLock, Flock, IdsAreTaken
    <3>3. CASE \E n \in Names : BeginByName(c, "mutate", n) \/ BeginByName(c, "boot", n)
      BY <2>2, <3>3 DEF BeginByName, Begin
    <3>4. CASE BeginStatic(c)
      BY <2>2, <3>4 DEF BeginStatic, Begin
    <3>5. CASE \E n \in Names, s \in Sessions : BeginRegister(c, n, s)
      BY <2>2, <3>5 DEF BeginRegister, Register
    <3>6. CASE List(c) \/ ReadRaises(c) \/ NotFound(c) \/ LoadNothing(c) \/ Load(c)
      BY <2>2, <3>6 DEF List, ReadRaises, NotFound, LoadNothing, Load
    <3>7. CASE WriteTemp(c) \/ Replace(c) \/ ReplaceRaises(c) \/ Unlock(c)
      BY <2>2, <3>7 DEF WriteTemp, Replace, ReplaceRaises, Unlock, AfterSave
    <3>8. CASE ReadToClean(c) \/ Expire(c) \/ Unlink(c) \/ UnlinkLock(c)
      <4>1. pc[c] \in {"read", "expire", "unlink", "unlinkLock"}
        BY <3>8 DEF ReadToClean, Expire, Unlink, UnlinkLock
      <4> QED
        BY <2>2, <3>8, <4>1 DEF ReadToClean, Expire, Unlink, UnlinkLock
    <3>9. CASE Cleaned(c) \/ Booted(c) \/ \E s \in Sessions : AutoRegister(c, s)
      BY <2>2, <3>9 DEF Cleaned, Booted, AutoRegister, Register
    <3>10. CASE Kill(c)
      BY <2>2, <3>10 DEF Kill
    <3> QED
      BY <3>1, <3>2, <3>3, <3>4, <3>5, <3>6, <3>7, <3>8, <3>9, <3>10 DEF Step, Proceed
  <2> QED
    BY <2>1, <2>2
<1> QED
  BY <1>2, <1>4, <1>5, <1>6, <1>7 DEF IdsAreTaken

\* Nobody comes to work on a file that is not there yet.
LEMMA StepRegistersAlone ==
    ASSUME TypeOK, StepsAgree, IdsAreTaken, RegistersAlone, NEW c \in Calls, Step(c)
    PROVE  RegistersAlone'
<1> DEFINE Alone(d) ==
        pc[d] \in Saving /\ fd[d] = NULL =>
            /\ target[d] \in Sessions \ deleted
            /\ file[target[d]] = NULL
            /\ \A e \in Calls : e # d => target[e] # target[d]
            /\ \A e \in Calls : target[d] \notin listed[e]
<1>1. \A d \in Calls : Alone(d)
  BY DEF RegistersAlone
<1>2. ASSUME NEW d \in Calls \ {c} PROVE Alone(d)'
  <2> SUFFICES ASSUME pc[d] \in Saving, fd[d] = NULL
               PROVE  /\ target[d] \in Sessions \ deleted'
                      /\ file'[target[d]] = NULL
                      /\ \A e \in Calls : e # d => target'[e] # target[d]
                      /\ \A e \in Calls : target[d] \notin listed'[e]
    BY OthersWait
  <2>1. /\ target[d] \in Sessions \ deleted /\ target[d] \in taken
        /\ file[target[d]] = NULL
        /\ \A e \in Calls : e # d => target[e] # target[d]
        /\ \A e \in Calls : target[d] \notin listed[e]
    BY <1>1, StoreAssumption DEF IdsAreTaken
  <2>2. \A e \in Calls \ {c} : target'[e] = target[e] /\ listed'[e] = listed[e]
    BY OthersWait
  <2>3. target[c] # target[d] /\ target[d] \notin listed[c]
    BY <2>1
  <2> USE DEF TypeOK
  <2>4. target[d] \notin deleted'
    BY <2>1, <2>3, Frame DEF Unlink
  <2>5. file'[target[d]] = NULL
    BY <2>1, <2>3, Frame DEF Replace, Unlink, Files
  <2>6. target'[c] # target[d]
    BY <2>1, <2>3, Frame, StoreAssumption
       DEF BeginStatic, Registers, Register, Found, Named, Expire
  <2>7. target[d] \notin listed'[c]
    BY <2>1, <2>3, Frame DEF List, ReadToClean, Expire, Present
  <2> QED
    BY <2>1, <2>2, <2>4, <2>5, <2>6, <2>7
<1>3. Alone(c)'
  <2> DEFINE New(s) ==
          /\ s \in Sessions \ deleted
          /\ file[s] = NULL
          /\ \A e \in Calls : target[e] # s
          /\ \A e \in Calls : s \notin listed[e]
  <2>1. \A s \in Sessions \ taken : New(s)
    <3>1. /\ \A e \in Calls : target[e] \in taken \cup {STATIC, NULL} /\ listed[e] \subseteq taken
          /\ \A s \in Sessions : file[s] # NULL => s \in taken
      BY DEF IdsAreTaken
    <3>2. deleted \subseteq taken /\ STATIC \notin Sessions /\ NULL \notin Sessions
      BY StoreAssumption DEF TypeOK
    <3>3. ASSUME NEW s \in Sessions, s \notin taken
          PROVE  /\ s \notin deleted
                 /\ file[s] = NULL
                 /\ \A e \in Calls : target[e] # s /\ s \notin listed[e]
      BY <3>1, <3>2, <3>3
    <3> QED
      BY <3>3
  <2>2. ASSUME NEW s \in Sessions, \E n \in Names \cup {NULL} : Register(c, n, s)
        PROVE  Alone(c)'
    <3>1. New(s) /\ target' = [target EXCEPT ![c] = s] /\ file' = file /\ deleted' = deleted
          /\ listed' = listed
      BY <2>1, <2>2 DEF Register, disk
    <3> QED
      BY <3>1 DEF TypeOK
  <2>3. Alone(c)
    BY <1>1
  <2> HIDE DEF New
  <2> USE StoreAssumption, NullAssumption
      DEF TypeOK, disk, history, Goto, Return, Files, Opened, Unopened, Saving
  <2>4. CASE \E n \in Names : BeginByName(c, "mutate", n) \/ BeginByName(c, "boot", n)
    BY <2>4, <2>3 DEF BeginByName, Begin
  <2>5. CASE BeginStatic(c)
    BY <2>5, <2>3 DEF BeginStatic, Begin
  <2>6. CASE \E n \in Names, s \in Sessions : BeginRegister(c, n, s)
    BY <2>2, <2>6 DEF BeginRegister
  <2>7. CASE List(c)
    BY <2>7, <2>3 DEF List
  <2>8. CASE ReadRaises(c)
    BY <2>8, <2>3 DEF ReadRaises
  <2>9. CASE NotFound(c)
    BY <2>9, <2>3 DEF NotFound
  <2>10. CASE Found(c)
    BY <2>10, <2>3 DEF Found, Named
  <2>11. CASE OpenLock(c)
    BY <2>11, <2>3 DEF OpenLock
  <2>12. CASE Flock(c)
    BY <2>12, <2>3 DEF Flock
  <2>13. CASE LoadNothing(c)
    BY <2>13, <2>3 DEF LoadNothing
  <2>14. CASE Load(c)
    BY <2>14, <2>3 DEF Load
  <2>15. CASE WriteTemp(c)
    BY <2>15, <2>3 DEF WriteTemp
  <2>16. CASE Replace(c)
    BY <2>16, <2>3 DEF Replace, AfterSave
  <2>17. CASE ReplaceRaises(c)
    BY <2>17, <2>3 DEF ReplaceRaises, AfterSave
  <2>18. CASE Unlock(c)
    BY <2>18, <2>3 DEF Unlock
  <2>19. CASE ReadToClean(c)
    BY <2>19, <2>3 DEF ReadToClean
  <2>20. CASE Expire(c)
    BY <2>20, <2>3 DEF Expire
  <2>21. CASE Unlink(c)
    BY <2>21, <2>3 DEF Unlink
  <2>22. CASE UnlinkLock(c)
    BY <2>22, <2>3 DEF UnlinkLock
  <2>23. CASE Cleaned(c)
    BY <2>23, <2>3 DEF Cleaned
  <2>24. CASE Booted(c)
    BY <2>24, <2>3 DEF Booted
  <2>25. CASE \E s \in Sessions : AutoRegister(c, s)
    BY <2>2, <2>25, NullAssumption DEF AutoRegister
  <2>26. CASE Kill(c)
    BY <2>26, <2>3 DEF Kill
  <2> QED
    BY <2>4, <2>5, <2>6, <2>7, <2>8, <2>9, <2>10, <2>11, <2>12, <2>13, <2>14, <2>15, <2>16,
       <2>17, <2>18, <2>19, <2>20, <2>21, <2>22, <2>23, <2>24, <2>25, <2>26 DEF Step, Proceed
<1> QED
  BY <1>2, <1>3 DEF RegistersAlone

\* A lock is taken on entering the critical section and given back on leaving.
LEMMA StepLocksAreInUse ==
    ASSUME TypeOK, StepsAgree, LocksAreInUse, NEW c \in Calls, Step(c)
    PROVE  LocksAreInUse'
<1> USE NullAssumption, StoreAssumption
        DEF LocksAreInUse, TypeOK, disk, history, Goto, Return, Unopened
<1>1. CASE \E n \in Names : BeginByName(c, "mutate", n) \/ BeginByName(c, "boot", n)
  BY <1>1 DEF BeginByName, Begin, StepsAgree
<1>2. CASE BeginStatic(c)
  BY <1>2 DEF BeginStatic, Begin, StepsAgree
<1>3. CASE \E n \in Names, s \in Sessions : BeginRegister(c, n, s)
  BY <1>3 DEF BeginRegister, Begin, Register, StepsAgree
<1>4. CASE List(c)
  BY <1>4 DEF List
<1>5. CASE ReadRaises(c)
  BY <1>5 DEF ReadRaises
<1>6. CASE NotFound(c)
  BY <1>6 DEF NotFound
<1>7. CASE Found(c)
  BY <1>7 DEF Found, Named
<1>8. CASE OpenLock(c)
  BY <1>8 DEF OpenLock, StepsAgree
<1>9. CASE Flock(c)
  BY <1>9 DEF Flock
<1>10. CASE LoadNothing(c)
  BY <1>10 DEF LoadNothing
<1>11. CASE Load(c)
  BY <1>11 DEF Load
<1>12. CASE WriteTemp(c)
  BY <1>12 DEF WriteTemp
<1>13. CASE Replace(c)
  BY <1>13 DEF Replace, AfterSave
<1>14. CASE ReplaceRaises(c)
  BY <1>14 DEF ReplaceRaises, AfterSave
<1>15. CASE Unlock(c)
  BY <1>15 DEF Unlock
<1>16. CASE ReadToClean(c)
  BY <1>16 DEF ReadToClean
<1>17. CASE Expire(c)
  BY <1>17 DEF Expire
<1>18. CASE Unlink(c)
  BY <1>18 DEF Unlink
<1>19. CASE UnlinkLock(c)
  BY <1>19 DEF UnlinkLock
<1>20. CASE Cleaned(c)
  BY <1>20 DEF Cleaned
<1>21. CASE Booted(c)
  BY <1>21 DEF Booted
<1>22. CASE \E s \in Sessions : AutoRegister(c, s)
  BY <1>22 DEF AutoRegister, Register, StepsAgree
<1>23. CASE Kill(c)
  BY <1>23 DEF Kill
<1> QED
  BY <1>1, <1>2, <1>3, <1>4, <1>5, <1>6, <1>7, <1>8, <1>9, <1>10, <1>11, <1>12, <1>13, <1>14,
     <1>15, <1>16, <1>17, <1>18, <1>19, <1>20, <1>21, <1>22, <1>23 DEF Step, Proceed

\* Those who opened a lock file before it was deleted share one, and those
\* who open one find it at the path.
LEMMA StepLocksAreHeld ==
    ASSUME TypeOK, StepsAgree, LocksAreInUse, LocksAreHeld, NEW c \in Calls, Step(c)
    PROVE  LocksAreHeld'
<1> DEFINE Held(d) ==
        fd[d] # NULL =>
            /\ pc[d] \in Opened \ {"flock"} => held[fd[d]] = d
            /\ pc[d] \in Opened /\ target[d] \notin deleted => lock[target[d]] = fd[d]
<1>1. \A d \in Calls : Held(d)
  BY DEF LocksAreHeld
<1>2. ASSUME NEW d \in Calls \ {c} PROVE Held(d)'
  <2> SUFFICES ASSUME fd[d] # NULL, pc[d] \in Opened
               PROVE  /\ pc[d] # "flock" => held'[fd[d]] = d
                      /\ target[d] \notin deleted' => lock'[target[d]] = fd[d]
    BY OthersWait DEF Opened
  <2>1. /\ pc[d] # "flock" => held[fd[d]] = d
        /\ target[d] \notin deleted' => lock[target[d]] = fd[d]
        /\ fd[d] \in Calls /\ target[d] \in Files
    BY <1>1, HistoryGrows DEF TypeOK, StepsAgree, Opened
  <2> USE NullAssumption, StoreAssumption DEF TypeOK
  <2>2. pc[d] # "flock" => held'[fd[d]] = d
    BY <2>1, Frame DEF Flock, Unlock, Kill, LocksAreInUse, LocksAreHeld, Opened
  <2>3. target[d] \notin deleted' => lock'[target[d]] = fd[d]
    BY <2>1, Frame DEF OpenLock, UnlinkLock, StepsAgree, history
  <2> QED
    BY <2>2, <2>3
<1>3. Held(c)'
  <2>1. Held(c)
    BY <1>1
  <2>2. pc[c] \in Opened \cup {"open"} => target[c] \in Files
    BY DEF StepsAgree
  <2>3. pc[c] \in Unopened => fd[c] = NULL
    BY DEF StepsAgree
  <2> USE StoreAssumption, NullAssumption
      DEF TypeOK, disk, history, Goto, Return, Files, Opened, Unopened, Saving
  <2> HIDE DEF StepsAgree, IdsAreTaken
  <2>4. CASE \E n \in Names : BeginByName(c, "mutate", n) \/ BeginByName(c, "boot", n)
    BY <2>4, <2>1, <2>2, <2>3 DEF BeginByName, Begin
  <2>5. CASE BeginStatic(c)
    BY <2>5, <2>1, <2>2, <2>3 DEF BeginStatic, Begin
  <2>6. CASE \E n \in Names, s \in Sessions : BeginRegister(c, n, s)
    BY <2>6, <2>1, <2>2, <2>3 DEF BeginRegister, Begin, Register
  <2>7. CASE List(c)
    BY <2>7, <2>1, <2>2, <2>3 DEF List
  <2>8. CASE ReadRaises(c)
    BY <2>8, <2>1, <2>2, <2>3 DEF ReadRaises
  <2>9. CASE NotFound(c)
    BY <2>9, <2>1, <2>2, <2>3 DEF NotFound
  <2>10. CASE Found(c)
    BY <2>10, <2>1, <2>2, <2>3 DEF Found, Named
  <2>11. CASE OpenLock(c)
    BY <2>11, <2>1, <2>2, <2>3 DEF OpenLock
  <2>12. CASE Flock(c)
    BY <2>12, <2>1, <2>2, <2>3 DEF Flock
  <2>13. CASE LoadNothing(c)
    BY <2>13, <2>1, <2>2, <2>3 DEF LoadNothing
  <2>14. CASE Load(c)
    BY <2>14, <2>1, <2>2, <2>3 DEF Load
  <2>15. CASE WriteTemp(c)
    BY <2>15, <2>1, <2>2, <2>3 DEF WriteTemp
  <2>16. CASE Replace(c)
    BY <2>16, <2>1, <2>2, <2>3 DEF Replace, AfterSave
  <2>17. CASE ReplaceRaises(c)
    BY <2>17, <2>1, <2>2, <2>3 DEF ReplaceRaises, AfterSave
  <2>18. CASE Unlock(c)
    BY <2>18, <2>1, <2>2, <2>3 DEF Unlock
  <2>19. CASE ReadToClean(c)
    BY <2>19, <2>1, <2>2, <2>3 DEF ReadToClean
  <2>20. CASE Expire(c)
    BY <2>20, <2>1, <2>2, <2>3 DEF Expire
  <2>21. CASE Unlink(c)
    BY <2>21, <2>1, <2>2, <2>3 DEF Unlink
  <2>22. CASE UnlinkLock(c)
    BY <2>22, <2>1, <2>2, <2>3 DEF UnlinkLock
  <2>23. CASE Cleaned(c)
    BY <2>23, <2>1, <2>2, <2>3 DEF Cleaned
  <2>24. CASE Booted(c)
    BY <2>24, <2>1, <2>2, <2>3 DEF Booted
  <2>25. CASE \E s \in Sessions : AutoRegister(c, s)
    BY <2>25, <2>1, <2>2, <2>3 DEF AutoRegister, Register
  <2>26. CASE Kill(c)
    BY <2>26, <2>1, <2>2, <2>3 DEF Kill
  <2> QED
    BY <2>4, <2>5, <2>6, <2>7, <2>8, <2>9, <2>10, <2>11, <2>12, <2>13, <2>14, <2>15, <2>16,
       <2>17, <2>18, <2>19, <2>20, <2>21, <2>22, <2>23, <2>24, <2>25, <2>26 DEF Step, Proceed
<1> QED
  BY <1>2, <1>3 DEF LocksAreHeld

\* Two calls are never about to save the same file.
LEMMA OneWriter ==
    ASSUME TypeOK, RegistersAlone, LocksAreHeld,
           NEW c \in Calls, NEW d \in Calls,
           pc[c] \in Saving, pc[d] \in Saving,
           target[c] = target[d], target[c] \notin deleted
    PROVE  c = d
<1>1. CASE fd[c] = NULL \/ fd[d] = NULL
  BY <1>1 DEF RegistersAlone
<1>2. CASE fd[c] # NULL /\ fd[d] # NULL
  <2>1. lock[target[c]] = fd[c] /\ lock[target[d]] = fd[d]
    BY <1>2 DEF LocksAreHeld, Opened, Saving
  <2>2. held[fd[c]] = c /\ held[fd[d]] = d
    BY <1>2 DEF LocksAreHeld, Opened, Saving
  <2> QED
    BY <2>1, <2>2
<1> QED
  BY <1>1, <1>2

\* While a call is about to save a file, no other call touches it, unless to
\* delete it.
LEMMA OthersSaveElsewhere ==
    ASSUME TypeOK, RegistersAlone, LocksAreHeld, NEW c \in Calls, Step(c),
           NEW d \in Calls \ {c}, pc[d] \in Saving, target[d] \in Files \ deleted'
    PROVE  file'[target[d]] = file[target[d]] /\ temp'[target[d]] = temp[target[d]]
<1>1. target[d] \notin deleted
  BY HistoryGrows
<1>2. pc[c] \in Saving => target[c] # target[d]
  BY <1>1, OneWriter
<1> QED
  BY <1>2, Frame DEF TypeOK, Saving, Replace, Unlink, WriteTemp

\* What a registration writes, and what a mutation makes of what it loads.
LEMMA NewCopy ==
    ASSUME TypeOK, NEW c \in Calls, NEW n \in Names \cup {NULL}, NEW s \in Sessions,
           Register(c, n, s), file[s] = NULL
    PROVE  /\ target'[c] = s /\ copy'[c] # NULL /\ pc'[c] = "write"
           /\ copy'[c].by = ChangesIn(s)' \cup {c}
<1>1. [name |-> n, by |-> {c}, recent |-> TRUE] \in Contents
  BY DEF Contents
<1>2. copy'[c] = [name |-> n, by |-> {c}, recent |-> TRUE]
  BY DEF Register, TypeOK
<1> QED
  BY <1>1, <1>2, NullAssumption DEF Register, TypeOK, disk, Goto, ChangesIn

LEMMA LoadedCopy ==
    ASSUME TypeOK, NEW c \in Calls, target[c] \in Files, Load(c)
    PROVE  /\ target'[c] = target[c] /\ copy'[c] # NULL /\ pc'[c] = "write"
           /\ copy'[c].by = ChangesIn(target[c])' \cup {c}
<1> DEFINE f == target[c]
           old == IF file[f] = NULL THEN [name |-> NULL, by |-> {}, recent |-> TRUE]
                  ELSE file[f]
<1>1. PICK now \in BOOLEAN : copy' = [copy EXCEPT ![c] =
          [name |-> old.name, by |-> old.by \cup {c}, recent |-> old.recent \/ now]]
  BY DEF Load
<1>2. old \in Contents /\ old.by = ChangesIn(f)
  BY DEF Contents, TypeOK, ChangesIn
<1>3. [name |-> old.name, by |-> old.by \cup {c}, recent |-> old.recent \/ now] \in Contents
  BY <1>2 DEF Contents
<1>4. copy'[c] = [name |-> old.name, by |-> old.by \cup {c}, recent |-> old.recent \/ now]
  BY <1>1 DEF TypeOK
<1>5. copy'[c] # NULL /\ copy'[c].by = ChangesIn(f) \cup {c}
  BY <1>2, <1>3, <1>4, NullAssumption
<1>6. file' = file /\ target' = target /\ pc'[c] = "write"
  BY DEF Load, disk, Goto, TypeOK
<1> HIDE DEF old
<1> QED
  BY <1>5, <1>6 DEF ChangesIn

\* Between loading and saving the file does not change, for nobody else is
\* about to save it.
LEMMA StepSavesAreCurrent ==
    ASSUME TypeOK, StepsAgree, IdsAreTaken, RegistersAlone, LocksAreHeld, SavesAreCurrent,
           NEW c \in Calls, Step(c)
    PROVE  SavesAreCurrent'
<1> DEFINE Current(d) ==
        pc[d] \in Saving /\ target[d] \notin deleted =>
            /\ copy[d] # NULL
            /\ copy[d].by = ChangesIn(target[d]) \cup {d}
            /\ pc[d] = "replace" => temp[target[d]] = copy[d]
<1>1. \A d \in Calls : Current(d)
  BY DEF SavesAreCurrent
<1>2. ASSUME NEW d \in Calls \ {c} PROVE Current(d)'
  <2> SUFFICES ASSUME pc[d] \in Saving, target[d] \notin deleted' PROVE Current(d)'
    BY OthersWait
  <2>1. Current(d) /\ target[d] \notin deleted /\ target[d] \in Files
    BY <1>1, HistoryGrows DEF StepsAgree, Saving, Opened
  <2>2. file'[target[d]] = file[target[d]] /\ temp'[target[d]] = temp[target[d]]
    BY <2>1, OthersSaveElsewhere
  <2>3. pc'[d] = pc[d] /\ target'[d] = target[d] /\ copy'[d] = copy[d]
    BY OthersWait
  <2> QED
    BY <2>1, <2>2, <2>3 DEF ChangesIn
<1>3. Current(c)'
  <2>1. Current(c)
    BY <1>1
  <2>2. pc[c] \in Opened \cup {"open"} => target[c] \in Files
    BY DEF StepsAgree
  <2>3. \A s \in Sessions \ taken : file[s] = NULL
    BY DEF IdsAreTaken
  <2>4. ASSUME NEW n \in Names \cup {NULL}, NEW s \in Sessions, Register(c, n, s)
        PROVE  Current(c)'
    <3>1. file[s] = NULL
      BY <2>3, <2>4 DEF Register
    <3> QED
      BY <2>4, <3>1, NewCopy
  <2>5. Load(c) => Current(c)'
    BY <2>2, LoadedCopy DEF Load, Opened
  <2> USE StoreAssumption, NullAssumption
      DEF TypeOK, disk, history, Goto, Return, Files, Opened, Unopened, Saving
  <2> USE DEF ChangesIn
  <2>6. CASE \E n \in Names : BeginByName(c, "mutate", n) \/ BeginByName(c, "boot", n)
    BY <2>6, <2>1, <2>2, <2>3 DEF BeginByName, Begin
  <2>7. CASE BeginStatic(c)
    BY <2>7, <2>1, <2>2, <2>3 DEF BeginStatic, Begin
  <2>8. CASE \E n \in Names, s \in Sessions : BeginRegister(c, n, s)
    BY <2>4, <2>8 DEF BeginRegister
  <2>9. CASE List(c)
    BY <2>9, <2>1, <2>2, <2>3 DEF List
  <2>10. CASE ReadRaises(c)
    BY <2>10, <2>1, <2>2, <2>3 DEF ReadRaises
  <2>11. CASE NotFound(c)
    BY <2>11, <2>1, <2>2, <2>3 DEF NotFound
  <2>12. CASE Found(c)
    BY <2>12, <2>1, <2>2, <2>3 DEF Found, Named
  <2>13. CASE OpenLock(c)
    BY <2>13, <2>1, <2>2, <2>3 DEF OpenLock
  <2>14. CASE Flock(c)
    BY <2>14, <2>1, <2>2, <2>3 DEF Flock
  <2>15. CASE LoadNothing(c)
    BY <2>15, <2>1, <2>2, <2>3 DEF LoadNothing
  <2>16. CASE Load(c)
    BY <2>5, <2>16
  <2>17. CASE WriteTemp(c)
    BY <2>17, <2>1, <2>2, <2>3 DEF WriteTemp
  <2>18. CASE Replace(c)
    BY <2>18, <2>1, <2>2, <2>3 DEF Replace, AfterSave
  <2>19. CASE ReplaceRaises(c)
    BY <2>19, <2>1, <2>2, <2>3 DEF ReplaceRaises, AfterSave
  <2>20. CASE Unlock(c)
    BY <2>20, <2>1, <2>2, <2>3 DEF Unlock
  <2>21. CASE ReadToClean(c)
    BY <2>21, <2>1, <2>2, <2>3 DEF ReadToClean
  <2>22. CASE Expire(c)
    BY <2>22, <2>1, <2>2, <2>3 DEF Expire
  <2>23. CASE Unlink(c)
    BY <2>23, <2>1, <2>2, <2>3 DEF Unlink
  <2>24. CASE UnlinkLock(c)
    BY <2>24, <2>1, <2>2, <2>3 DEF UnlinkLock
  <2>25. CASE Cleaned(c)
    BY <2>25, <2>1, <2>2, <2>3 DEF Cleaned
  <2>26. CASE Booted(c)
    BY <2>26, <2>1, <2>2, <2>3 DEF Booted
  <2>27. CASE \E s \in Sessions : AutoRegister(c, s)
    BY <2>4, <2>27 DEF AutoRegister
  <2>28. CASE Kill(c)
    BY <2>28, <2>1, <2>2, <2>3 DEF Kill
  <2> QED
    BY <2>6, <2>7, <2>8, <2>9, <2>10, <2>11, <2>12, <2>13, <2>14, <2>15, <2>16, <2>17, <2>18,
       <2>19, <2>20, <2>21, <2>22, <2>23, <2>24, <2>25, <2>26, <2>27, <2>28 DEF Step, Proceed
<1> QED
  BY <1>2, <1>3 DEF SavesAreCurrent

\* A file that is not deleted changes by a save, of the file as it is.
LEMMA FilesChangeBySaves ==
    ASSUME TypeOK, StepsAgree, SavesAreCurrent, NEW c \in Calls, Step(c),
           NEW f \in Files \ deleted', file'[f] # file[f]
    PROVE  /\ pc[c] = "replace" /\ target[c] = f
           /\ outcome'[c] = "saved"
           /\ file'[f] # NULL
           /\ file'[f].by = ChangesIn(f) \cup {c}
<1>0. f \notin deleted
  BY HistoryGrows
<1>1. CASE Replace(c)
  <2>1. file' = [file EXCEPT ![target[c]] = temp[target[c]]] /\ pc[c] = "replace"
        /\ temp[target[c]] # NULL /\ outcome' = [outcome EXCEPT ![c] = "saved"]
    BY <1>1 DEF Replace
  <2>2. target[c] = f
    BY <2>1 DEF TypeOK
  <2>3. temp[f] = copy[c] /\ copy[c].by = ChangesIn(f) \cup {c}
    BY <1>0, <2>1, <2>2 DEF SavesAreCurrent, Saving
  <2> QED
    BY <2>1, <2>2, <2>3 DEF TypeOK
<1>2. CASE ~Replace(c)
  BY <1>2, Frame DEF TypeOK, Unlink
<1> QED
  BY <1>1, <1>2

\* A save contains what the file contained.
LEMMA StepUpdatesSurvive ==
    ASSUME TypeOK, StepsAgree, SavesAreCurrent, UpdatesSurvive, NEW c \in Calls, Step(c)
    PROVE  UpdatesSurvive'
<1> DEFINE Survives(d) ==
        (outcome[d] = "saved" /\ target[d] \notin deleted) =>
            file[target[d]] # NULL /\ d \in file[target[d]].by
<1>1. \A d \in Calls : Survives(d)
  BY DEF UpdatesSurvive
<1>2. ASSUME NEW d \in Calls, outcome[d] = "saved", outcome'[d] = "saved", target'[d] = target[d]
      PROVE  Survives(d)'
  <2> SUFFICES ASSUME target[d] \notin deleted' PROVE Survives(d)'
    BY <1>2
  <2>1. target[d] \in Files \ deleted' /\ file[target[d]] # NULL /\ d \in file[target[d]].by
    BY <1>1, <1>2, HistoryGrows DEF StepsAgree
  <2>2. CASE file'[target[d]] = file[target[d]]
    BY <1>2, <2>1, <2>2
  <2>3. CASE file'[target[d]] # file[target[d]]
    <3>1. file'[target[d]] # NULL /\ file'[target[d]].by = ChangesIn(target[d]) \cup {c}
      BY <2>1, <2>3, FilesChangeBySaves
    <3> QED
      BY <1>2, <2>1, <3>1 DEF ChangesIn
  <2> QED
    BY <2>2, <2>3
<1>3. ASSUME NEW d \in Calls \ {c} PROVE Survives(d)'
  BY <1>2, OthersWait
<1>4. Survives(c)'
  <2>1. CASE Replace(c)
    <3>1. pc[c] = "replace" /\ target'[c] = target[c] /\ deleted' = deleted
          /\ file' = [file EXCEPT ![target[c]] = temp[target[c]]] /\ temp[target[c]] # NULL
          /\ target[c] \in Files
      BY <2>1 DEF Replace, history, StepsAgree, Opened
    <3>2. target[c] \notin deleted => temp[target[c]] = copy[c] /\ c \in copy[c].by
      BY <3>1 DEF SavesAreCurrent, Saving
    <3> QED
      BY <3>1, <3>2 DEF TypeOK
  <2>2. CASE ~Replace(c)
    <3> SUFFICES ASSUME outcome'[c] = "saved"
                 PROVE  outcome[c] = "saved" /\ target'[c] = target[c]
      BY <1>2
    <3>1. outcome[c] = "saved" => pc[c] \in {"unlock", "done", "killed"}
      BY DEF StepsAgree
    <3>2. outcome' = outcome
      BY <2>2, Frame DEF TypeOK, ReadRaises, LoadNothing, ReplaceRaises, Return
    <3> QED
      BY <3>1, <3>2, Frame DEF TypeOK, BeginStatic, Begin, Registers, Register, Found, Expire
  <2> QED
    BY <2>1, <2>2
<1> QED
  BY <1>3, <1>4 DEF UpdatesSurvive

\* Neither a listed file nor a temporary file goes away without a deletion.
LEMMA StepRaisesAfterDeletion ==
    ASSUME TypeOK, StepsAgree, IdsAreTaken, SavesAreCurrent, RaisesAfterDeletion,
           NEW c \in Calls, Step(c)
    PROVE  RaisesAfterDeletion'
<1>1. ASSUME NEW d \in Calls, outcome[d] = "raised" PROVE deleted' # {}
  BY <1>1, HistoryGrows DEF RaisesAfterDeletion
<1>2. ASSUME NEW d \in Calls \ {c}, outcome'[d] = "raised" PROVE deleted' # {}
  BY <1>1, <1>2, OthersWait
<1>3. ASSUME outcome'[c] = "raised", outcome[c] # "raised" PROVE deleted' # {}
  <2>1. CASE ReadRaises(c)
    BY <2>1 DEF ReadRaises, IdsAreTaken, Present, history, TypeOK
  <2>2. CASE ReplaceRaises(c)
    BY <2>2 DEF ReplaceRaises, SavesAreCurrent, Saving, history
  <2>3. CASE LoadNothing(c)
    <3>1. kind[c] = "mutate" /\ pc[c] = "load" /\ file[target[c]] = NULL
      BY <1>3, <2>3 DEF LoadNothing, TypeOK
    <3>2. target[c] \in deleted
      BY <3>1 DEF IdsAreTaken
    <3> QED
      BY <3>2, HistoryGrows
  <2>4. CASE ~ReadRaises(c) /\ ~ReplaceRaises(c) /\ ~LoadNothing(c)
    BY <1>3, <2>4, Frame DEF Replace, TypeOK
  <2> QED
    BY <2>1, <2>2, <2>3, <2>4
<1> QED
  BY <1>1, <1>2, <1>3 DEF RaisesAfterDeletion

-----------------------------------------------------------------------------
(* The invariant *)

\* The inductive invariant: initially, by every step, and so always.
LEMMA InitInv == Init => IInv
<1> SUFFICES ASSUME Init PROVE IInv
  OBVIOUS
<1>1. TypeOK
  BY InitType
<1>2. StepsAgree /\ IdsAreTaken /\ RegistersAlone
  BY NullAssumption, StoreAssumption
     DEF Init, StepsAgree, IdsAreTaken, RegistersAlone, Opened, Saving, Unopened, Files
<1>3. LocksAreInUse /\ LocksAreHeld /\ SavesAreCurrent
  BY DEF Init, LocksAreInUse, LocksAreHeld, SavesAreCurrent, Saving
<1>4. UpdatesSurvive /\ RaisesAfterDeletion
  BY NullAssumption DEF Init, UpdatesSurvive, RaisesAfterDeletion
<1> QED
  BY <1>1, <1>2, <1>3, <1>4 DEF IInv

LEMMA NextInv == IInv /\ [Next]_vars => IInv'
<1> SUFFICES ASSUME IInv, [Next]_vars PROVE IInv'
  OBVIOUS
<1>1. ASSUME NEW c \in Calls, Step(c) PROVE IInv'
  BY <1>1, StepType, StepStepsAgree, StepIdsAreTaken, StepRegistersAlone, StepLocksAreInUse,
     StepLocksAreHeld, StepSavesAreCurrent, StepUpdatesSurvive, StepRaisesAfterDeletion
     DEF IInv
<1>2. CASE UNCHANGED vars
  BY <1>2 DEF vars, disk, history, IInv, TypeOK, StepsAgree, IdsAreTaken, RegistersAlone,
     LocksAreInUse, LocksAreHeld, SavesAreCurrent, ChangesIn, UpdatesSurvive,
     RaisesAfterDeletion
<1> QED
  BY <1>1, <1>2 DEF Next, Step

LEMMA Invariance == Spec => []IInv
BY InitInv, NextInv, PTL DEF Spec

-----------------------------------------------------------------------------
(* The theorems *)

\* Every variable of the store keeps its type.
THEOREM TypeCorrect == Spec => []TypeOK
BY Invariance, PTL DEF IInv

\* What mutate_session and mutate_static have reported as saved stays in the
\* file of any session that is not deleted: an update is never lost to one
\* that loaded the file before it, whoever is killed when.
THEOREM SavedUpdatesSurvive == Spec => []UpdatesSurvive
BY Invariance, PTL DEF IInv

\* A lock file is held by a call that is inside its critical section.
THEOREM LocksAreNotLeaked == Spec => []LocksAreInUse
BY Invariance, PTL DEF IInv

\* No call raises as long as no session has been deleted.
THEOREM NothingRaisesBeforeDeletion == Spec => []RaisesAfterDeletion
BY Invariance, PTL DEF IInv

\* Each save of a file, as long as it is not deleted, adds the change of the
\* call that saves to what the file is at that moment.
THEOREM SavesAreSerial == Spec => SavesAddOneChange
<1>1. ASSUME IInv, [Next]_vars
      PROVE  [\A f \in Files \ deleted' :
                file'[f] # file[f] =>
                    \E c \in Calls :
                        /\ pc[c] = "replace" /\ target[c] = f
                        /\ file'[f].by = (IF file[f] = NULL THEN {} ELSE file[f].by) \cup {c}]_vars
  <2>1. CASE UNCHANGED vars
    BY <2>1
  <2>2. ASSUME NEW c \in Calls, Step(c), NEW f \in Files \ deleted', file'[f] # file[f]
        PROVE  /\ pc[c] = "replace" /\ target[c] = f
               /\ file'[f].by = (IF file[f] = NULL THEN {} ELSE file[f].by) \cup {c}
    BY <1>1, <2>2, FilesChangeBySaves DEF IInv, ChangesIn
  <2> QED
    BY <1>1, <2>1, <2>2 DEF Next, Step
<1> QED
  BY <1>1, Invariance, PTL DEF Spec, SavesAddOneChange

=============================================================================
