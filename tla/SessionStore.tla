---------------------------- MODULE SessionStore ----------------------------
(***************************************************************************)
(* The files of .session-manager that several processes write              *)
(* (storage/file_store.py): one per session, and the static fields.  MCP   *)
(* servers, wrapper threads and summary workers load, change and save them *)
(* under a flock on a lock file; registering a session and cleaning up     *)
(* expired ones (lifecycle/cleanup.py) take no lock.                       *)
(*                                                                         *)
(* A call is one call of the store by some process, which may be killed    *)
(* (the MCP server is, at every respawn).  A lock file is created by a     *)
(* call, and named after it: two lock files of one session are two locks.  *)
(* Whether transcripts are recent is not the store's: both answers are     *)
(* possible.  Listing the directory and reading it are two steps; reading  *)
(* it is one.                                                              *)
(***************************************************************************)
EXTENDS Integers

CONSTANTS
    Calls,
    Sessions,   \* session ids; numbers, for the directory is read sorted
    Names,
    STATIC,     \* static-field.json
    NULL

ASSUME StoreAssumption ==
    /\ Sessions \subseteq Nat
    /\ STATIC \notin Sessions
    /\ NULL \notin Calls \cup Sessions \cup Names \cup {STATIC}

Files == Sessions \cup {STATIC}

\* What the properties tell of a file: the name in it, the calls whose
\* changes it contains, whether last_accessed is inside the period.
Contents == [name : Names \cup {NULL}, by : SUBSET Calls, recent : BOOLEAN]

ASSUME NullAssumption == NULL \notin Contents /\ NULL \notin {"saved", "raised"}

VARIABLES
    file,      \* the files; NULL where there is none
    temp,      \* <file>.tmp, one for all who write the file
    lock,      \* <file>.lock: the lock file at that path, if any
    held,      \* the call that holds the flock on each lock file
    pc, kind, name,
    target,    \* the file the call works on
    listed,    \* the sessions the call has found in the directory
    fd,        \* the lock file it has opened
    copy,      \* what it has loaded, or is about to write
    outcome,
    taken,     \* ids that have been given to a session
    deleted    \* ids whose file has been deleted once

disk == <<file, temp, lock, held>>
history == <<taken, deleted>>
vars == <<disk, pc, kind, name, target, listed, fd, copy, outcome, history>>

Steps == {"idle", "list", "read", "open", "flock", "load", "write", "replace", "unlock",
          "expire", "unlink", "unlinkLock", "default", "look", "done", "killed"}

TypeOK ==
    /\ file \in [Files -> Contents \cup {NULL}]
    /\ temp \in [Files -> Contents \cup {NULL}]
    /\ lock \in [Files -> Calls \cup {NULL}]
    /\ held \in [Calls -> Calls \cup {NULL}]
    /\ pc \in [Calls -> Steps]
    /\ kind \in [Calls -> {"mutate", "static", "register", "boot", NULL}]
    /\ name \in [Calls -> Names \cup {NULL}]
    /\ target \in [Calls -> Files \cup {NULL}]
    /\ listed \in [Calls -> SUBSET Sessions]
    /\ fd \in [Calls -> Calls \cup {NULL}]
    /\ copy \in [Calls -> Contents \cup {NULL}]
    /\ outcome \in [Calls -> {"saved", "none", "raised", NULL}]
    /\ taken \subseteq Sessions /\ deleted \subseteq taken
    /\ \A c \in Calls : pc[c] \in {"flock", "load", "unlock"} => fd[c] # NULL

Init ==
    /\ \E old \in SUBSET Sessions :
          /\ taken = old
          /\ file \in [Files -> [name : Names, by : {{}}, recent : BOOLEAN] \cup {NULL}]
          /\ \A f \in Files : file[f] # NULL <=> f \in old
    /\ temp = [f \in Files |-> NULL]
    /\ lock = [f \in Files |-> NULL]
    /\ held = [c \in Calls |-> NULL]
    /\ pc = [c \in Calls |-> "idle"]
    /\ kind = [c \in Calls |-> NULL]
    /\ name = [c \in Calls |-> NULL]
    /\ target = [c \in Calls |-> NULL]
    /\ listed = [c \in Calls |-> {}]
    /\ fd = [c \in Calls |-> NULL]
    /\ copy = [c \in Calls |-> NULL]
    /\ outcome = [c \in Calls |-> NULL]
    /\ deleted = {}

Present == {s \in Sessions : file[s] # NULL}

Goto(c, step) == pc' = [pc EXCEPT ![c] = step]
Return(c, o) == Goto(c, "done") /\ outcome' = [outcome EXCEPT ![c] = o]

-----------------------------------------------------------------------------
(* Calls begin *)

Begin(c, k, n) ==
    /\ pc[c] = "idle"
    /\ kind' = [kind EXCEPT ![c] = k]
    /\ name' = [name EXCEPT ![c] = n]

\* mutate_session_by_name, from a session tool, a wrapper thread or the
\* summary worker; the server's boot, which lists the directory to clean up.
BeginByName(c, k, n) ==
    /\ Begin(c, k, n)
    /\ Goto(c, "list")
    /\ UNCHANGED <<disk, target, listed, fd, copy, outcome, history>>

\* mutate_static.
BeginStatic(c) ==
    /\ Begin(c, "static", NULL)
    /\ target' = [target EXCEPT ![c] = STATIC]
    /\ Goto(c, "open")
    /\ UNCHANGED <<disk, listed, fd, copy, outcome, history>>

\* SessionMetadata.new takes an id nobody has; save_session writes without
\* the lock, and nobody checks whether the name is taken.
Register(c, n, s) ==
    /\ s \notin taken
    /\ taken' = taken \cup {s}
    /\ target' = [target EXCEPT ![c] = s]
    /\ copy' = [copy EXCEPT ![c] = [name |-> n, by |-> {c}, recent |-> TRUE]]
    /\ Goto(c, "write")
    /\ UNCHANGED <<disk, listed, fd, outcome, deleted>>

BeginRegister(c, n, s) == Begin(c, "register", n) /\ Register(c, n, s)

-----------------------------------------------------------------------------
(* Looking up a session by its name *)

\* list_sessions, to find a name or, at the end of the boot of a server
\* without a session, to see whether there is any: the paths first ...
List(c) ==
    /\ pc[c] \in {"list", "default"}
    /\ listed' = [listed EXCEPT ![c] = Present]
    /\ Goto(c, IF pc[c] = "list" THEN "read" ELSE "look")
    /\ UNCHANGED <<disk, kind, name, target, fd, copy, outcome, history>>

\* ... then their texts; one that has gone in between raises.
ReadRaises(c) ==
    /\ pc[c] \in {"read", "look"}
    /\ ~ listed[c] \subseteq Present
    /\ Return(c, "raised")
    /\ UNCHANGED <<disk, kind, name, target, listed, fd, copy, history>>

Named(c) == {s \in listed[c] : file[s].name = name[c]}

NotFound(c) ==
    /\ pc[c] = "read" /\ kind[c] = "mutate"
    /\ listed[c] \subseteq Present /\ Named(c) = {}
    /\ Return(c, "none")
    /\ UNCHANGED <<disk, kind, name, target, listed, fd, copy, history>>

\* load_session_by_name: the first one of that name.
Found(c) ==
    /\ pc[c] = "read" /\ kind[c] = "mutate"
    /\ listed[c] \subseteq Present
    /\ \E s \in Named(c) :
          /\ \A r \in Named(c) : s <= r
          /\ target' = [target EXCEPT ![c] = s]
    /\ Goto(c, "open")
    /\ UNCHANGED <<disk, kind, name, listed, fd, copy, outcome, history>>

-----------------------------------------------------------------------------
(* mutate_session and mutate_static: load, change and save under the lock *)

\* open(lock_path, "w") makes the file when there is none.
OpenLock(c) ==
    /\ pc[c] = "open"
    /\ LET at == IF lock[target[c]] = NULL THEN c ELSE lock[target[c]] IN
          /\ lock' = [lock EXCEPT ![target[c]] = at]
          /\ fd' = [fd EXCEPT ![c] = at]
    /\ Goto(c, "flock")
    /\ UNCHANGED <<file, temp, held, kind, name, target, listed, copy, outcome, history>>

\* Mutant: the lock is not waited for.
FlockShared(c) ==
    /\ pc[c] = "flock"
    /\ held' = [held EXCEPT ![fd[c]] = c]
    /\ Goto(c, "load")
    /\ UNCHANGED <<file, temp, lock, kind, name, target, listed, fd, copy, outcome, history>>

Flock(c) ==
    /\ pc[c] = "flock" /\ held[fd[c]] = NULL
    /\ held' = [held EXCEPT ![fd[c]] = c]
    /\ Goto(c, "load")
    /\ UNCHANGED <<file, temp, lock, kind, name, target, listed, fd, copy, outcome, history>>

\* Mutant: returning early leaves the lock with the call.
LoadReturns(c) ==
    /\ pc[c] = "load"
    /\ file[target[c]] = NULL \/ kind[c] = "static"
    /\ Return(c, "none")
    /\ UNCHANGED <<disk, kind, name, target, listed, fd, copy, history>>

\* The session has gone, and load_session raises if it goes between its
\* exists() and the read; or the static fields' mutator finds nothing to
\* change and answers FALSE.
LoadNothing(c) ==
    /\ pc[c] = "load"
    /\ file[target[c]] = NULL \/ kind[c] = "static"
    /\ \/ outcome' = [outcome EXCEPT ![c] = "none"]
       \/ kind[c] = "mutate" /\ outcome' = [outcome EXCEPT ![c] = "raised"]
    /\ Goto(c, "unlock")
    /\ UNCHANGED <<disk, kind, name, target, listed, fd, copy, history>>

\* The session or the static fields, fresh ones when there is no file yet,
\* and the caller's change to them; many changes touch() last_accessed.
Load(c) ==
    /\ pc[c] = "load"
    /\ kind[c] = "static" \/ file[target[c]] # NULL
    /\ \E now \in BOOLEAN :
          LET f == target[c]
              old == IF file[f] = NULL THEN [name |-> NULL, by |-> {}, recent |-> TRUE]
                     ELSE file[f] IN
          copy' = [copy EXCEPT ![c] =
                      [name |-> old.name, by |-> old.by \cup {c}, recent |-> old.recent \/ now]]
    /\ Goto(c, "write")
    /\ UNCHANGED <<disk, kind, name, target, listed, fd, outcome, history>>

\* _atomic_write_text: the text goes to the temporary file ...
WriteTemp(c) ==
    /\ pc[c] = "write"
    /\ temp' = [temp EXCEPT ![target[c]] = copy[c]]
    /\ Goto(c, "replace")
    /\ UNCHANGED <<file, lock, held, kind, name, target, listed, fd, copy, outcome, history>>

\* Mutant: a save without the lock is taken for one under it.
UnlockAlways(c) == "unlock"

\* save_session by itself returns; within a mutation the lock is released.
AfterSave(c) == IF fd[c] = NULL THEN "done" ELSE "unlock"

\* ... which takes the file's place.
Replace(c) ==
    /\ pc[c] = "replace" /\ temp[target[c]] # NULL
    /\ file' = [file EXCEPT ![target[c]] = temp[target[c]]]
    /\ temp' = [temp EXCEPT ![target[c]] = NULL]
    /\ outcome' = [outcome EXCEPT ![c] = "saved"]
    /\ Goto(c, AfterSave(c))
    /\ UNCHANGED <<lock, held, kind, name, target, listed, fd, copy, history>>

\* Another writer of the file has moved the temporary file away.
ReplaceRaises(c) ==
    /\ pc[c] = "replace" /\ temp[target[c]] = NULL
    /\ outcome' = [outcome EXCEPT ![c] = "raised"]
    /\ Goto(c, AfterSave(c))
    /\ UNCHANGED <<disk, kind, name, target, listed, fd, copy, history>>

Unlock(c) ==
    /\ pc[c] = "unlock"
    /\ held' = [held EXCEPT ![fd[c]] = NULL]
    /\ Goto(c, "done")
    /\ UNCHANGED <<file, temp, lock, kind, name, target, listed, fd, copy, outcome, history>>

-----------------------------------------------------------------------------
(* The server's boot *)

\* cleanup_expired_sessions reads them all, and goes on with those whose
\* last_accessed is old.
ReadToClean(c) ==
    /\ pc[c] = "read" /\ kind[c] = "boot"
    /\ listed[c] \subseteq Present
    /\ listed' = [listed EXCEPT ![c] = {s \in @ : ~file[s].recent}]
    /\ Goto(c, "expire")
    /\ UNCHANGED <<disk, kind, name, target, fd, copy, outcome, history>>

\* The next session: its transcripts are old too, or they are not.
Expire(c) ==
    /\ pc[c] = "expire"
    /\ \E s \in listed[c] :
          /\ \A r \in listed[c] : s <= r
          /\ listed' = [listed EXCEPT ![c] = @ \ {s}]
          /\ \/ /\ target' = [target EXCEPT ![c] = s]
                /\ Goto(c, "unlink")
             \/ UNCHANGED <<target, pc>>
    /\ UNCHANGED <<disk, kind, name, fd, copy, outcome, history>>

\* delete_session: the file ...
Unlink(c) ==
    /\ pc[c] = "unlink"
    /\ file' = [file EXCEPT ![target[c]] = NULL]
    /\ deleted' = deleted \cup {target[c]}
    /\ Goto(c, "unlinkLock")
    /\ UNCHANGED <<temp, lock, held, kind, name, target, listed, fd, copy, outcome, taken>>

\* ... and the lock file, whoever holds or awaits it.
UnlinkLock(c) ==
    /\ pc[c] = "unlinkLock"
    /\ lock' = [lock EXCEPT ![target[c]] = NULL]
    /\ Goto(c, "expire")
    /\ UNCHANGED <<file, temp, held, kind, name, target, listed, fd, copy, outcome, history>>

Cleaned(c) ==
    /\ pc[c] = "expire" /\ listed[c] = {}
    /\ Goto(c, "default")
    /\ UNCHANGED <<disk, kind, name, target, listed, fd, copy, outcome, history>>

\* A server without a session registers the default one when it has found
\* the directory empty; one that resumes a session does not look.
AutoRegister(c, s) ==
    /\ pc[c] = "look" /\ listed[c] = {}
    /\ Register(c, name[c], s)
    /\ UNCHANGED <<kind, name>>

Booted(c) ==
    /\ \/ pc[c] = "default"
       \/ pc[c] = "look" /\ listed[c] # {} /\ listed[c] \subseteq Present
    /\ Return(c, "none")
    /\ UNCHANGED <<disk, kind, name, target, listed, fd, copy, history>>

-----------------------------------------------------------------------------
(* The process is killed; the kernel releases its lock *)

Kill(c) ==
    /\ pc[c] \notin {"idle", "done", "killed"}
    /\ Goto(c, "killed")
    /\ held' = [i \in Calls |-> IF held[i] = c THEN NULL ELSE held[i]]
    /\ UNCHANGED <<file, temp, lock, kind, name, target, listed, fd, copy, outcome, history>>

-----------------------------------------------------------------------------
(* The system *)

Proceed(c) ==
    \/ List(c) \/ ReadRaises(c) \/ NotFound(c) \/ Found(c)
    \/ OpenLock(c) \/ Flock(c) \/ LoadNothing(c) \/ Load(c)
    \/ WriteTemp(c) \/ Replace(c) \/ ReplaceRaises(c) \/ Unlock(c)
    \/ ReadToClean(c) \/ Expire(c) \/ Unlink(c) \/ UnlinkLock(c)
    \/ Cleaned(c) \/ Booted(c)
    \/ \E s \in Sessions : AutoRegister(c, s)

Next ==
    \E c \in Calls :
        \/ \E n \in Names : BeginByName(c, "mutate", n) \/ BeginByName(c, "boot", n)
        \/ BeginStatic(c)
        \/ \E n \in Names, s \in Sessions : BeginRegister(c, n, s)
        \/ Proceed(c)
        \/ Kill(c)

Spec == Init /\ [][Next]_vars

-----------------------------------------------------------------------------
(* Properties *)

\* "without a lock, concurrent saves silently drop one side's field
\* changes": what a call has reported as saved stays in the file, whatever
\* other calls do to the file afterwards, are killed doing, or were doing at
\* the time.  Of a session that has been deleted this is not true: a call
\* that waits on the deleted lock file and one that makes a new one are both
\* let in once a third one, which had loaded the session before, has brought
\* it back.
UpdatesSurvive ==
    \A c \in Calls :
        (outcome[c] = "saved" /\ target[c] \notin deleted) =>
            file[target[c]] # NULL /\ c \in file[target[c]].by

\* Every save adds the change of one call to what was in the file when it
\* is saved: no call writes back what it loaded before another one's save,
\* nor the text another one left in the temporary file.
SavesAddOneChange ==
    [][\A f \in Files \ deleted' :
          file'[f] # file[f] =>
              \E c \in Calls :
                  /\ pc[c] = "replace" /\ target[c] = f
                  /\ file'[f].by = (IF file[f] = NULL THEN {} ELSE file[f].by) \cup {c}]_vars

\* The store raises only where a session has been deleted: it does not in
\* two processes that boot, register, look up and save, in any order.
RaisesAfterDeletion == \A c \in Calls : outcome[c] = "raised" => deleted # {}

\* "Hold time is milliseconds, so blocking acquisition is fine": nobody is
\* left waiting on a lock whose holder has gone, also when the holder was
\* killed or returned early, or the lock file was deleted meanwhile.
LocksAreInUse ==
    \A i \in Calls :
        held[i] # NULL =>
            /\ fd[held[i]] = i
            /\ pc[held[i]] \in {"load", "write", "replace", "unlock"}

=============================================================================
