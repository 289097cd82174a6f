--------------------------- MODULE RollbackStore ----------------------------
(***************************************************************************)
(* pkg/license/rollback.go: the persistent anti-rollback store.            *)
(*                                                                         *)
(* Threads of one process call CheckAndSave, Save and Load on their own    *)
(* RollbackStore values.  All of the values reach one state file, possibly *)
(* through different spellings of its path; the mutex of a store is found  *)
(* in the package registry under the cleaned absolute path.  Every step of *)
(* a call that can fail or be overtaken is an action: taking the mutex,    *)
(* reading and checking, staging the temporary file, the rename, and the   *)
(* directory sync.  A power loss may happen between any two of them.       *)
(*                                                                         *)
(* The file holds a last-trusted time (LastVerifiedAt is written but never *)
(* read, and is left out), or cannot be authenticated (Corrupt: too large, *)
(* not the expected JSON, or a wrong MAC), or is missing (NoState).        *)
(***************************************************************************)
EXTENDS AtomicFile, CheckRollback

CONSTANTS
    Thread,       \* goroutines, each with a RollbackStore of its own
    Path,         \* the spellings of the path the stores were built with
    StorePath,    \* StorePath[t]: the spelling of t's store
    CleanAbs,     \* CleanAbs[p]: p, made absolute and cleaned
    MaxTime,      \* bound: instants are 0..MaxTime
    Corrupt,      \* the state file fails its integrity check
    NoThread      \* nobody holds the mutex

VARIABLES
    mu,           \* mu[k]: the thread that holds the registry mutex of key k
    pc,           \* pc[t]: the next step of t's call
    op,           \* op[t]: the method t is in
    arg,          \* arg[t]: the instant t passed to it
    next,         \* next[t]: the last-trusted time t is going to write
    ret,          \* ret[t]: what t's last call returned
    floor,        \* the latest instant a CheckAndSave has accepted, -1 if none
    seen          \* history: the instants calls have presented

vars == <<file, onDisk, mu, pc, op, arg, next, ret, floor, seen>>

Time == 0..MaxTime

ASSUME RollbackConstants ==
    /\ Skew \in Nat
    /\ MaxTime \in Nat
    /\ NoState \notin Int
    /\ Corrupt \notin Int
    /\ NoState # Corrupt
    /\ NoThread \notin Thread
    /\ StorePath \in [Thread -> Path]

Content == Time \cup {NoState, Corrupt}

Results == {"none", "ok", "clock_rollback", "state_integrity_failure"}

-----------------------------------------------------------------------------
\* Mutation of normalizeStatePath: the registry keyed by the path as given.
PathAsGiven(p) == p

(***************************************************************************)
(* The mutex registry.                                                     *)
(***************************************************************************)
normalizeStatePath(p) == CleanAbs[p]

pathLockFor(t) == normalizeStatePath(StorePath[t])

MutexKeys == {normalizeStatePath(p) : p \in Path}

-----------------------------------------------------------------------------
Init ==
    /\ file = NoState
    /\ onDisk = {NoState}
    /\ mu = [k \in MutexKeys |-> NoThread]
    /\ pc = [t \in Thread |-> "idle"]
    /\ op = [t \in Thread |-> "none"]
    /\ arg = [t \in Thread |-> 0]
    /\ next = [t \in Thread |-> 0]
    /\ ret = [t \in Thread |-> "none"]
    /\ floor = -1
    /\ seen = {}

\* Mutation of Return: an error return that skips the Unlock.
ReturnLocked(t, r) ==
    /\ pc' = [pc EXCEPT ![t] = "idle"]
    /\ op' = [op EXCEPT ![t] = "none"]
    /\ arg' = [arg EXCEPT ![t] = 0]
    /\ next' = [next EXCEPT ![t] = 0]
    /\ ret' = [ret EXCEPT ![t] = r]
    /\ mu' = IF r = "ok" THEN [mu EXCEPT ![pathLockFor(t)] = NoThread] ELSE mu

(***************************************************************************)
(* Return r from t's call, which releases the mutex (defer s.mu.Unlock())  *)
(* and forgets the call's local variables.                                 *)
(***************************************************************************)
Return(t, r) ==
    /\ pc' = [pc EXCEPT ![t] = "idle"]
    /\ op' = [op EXCEPT ![t] = "none"]
    /\ arg' = [arg EXCEPT ![t] = 0]
    /\ next' = [next EXCEPT ![t] = 0]
    /\ ret' = [ret EXCEPT ![t] = r]
    /\ mu' = [mu EXCEPT ![pathLockFor(t)] = NoThread]

Goto(t, step) ==
    /\ pc' = [pc EXCEPT ![t] = step]
    /\ UNCHANGED <<mu, op, arg, ret>>

(***************************************************************************)
(* A thread calls method m.  The instant is read from the clock before the *)
(* call and may be any: clocks go back, and another call may overtake.     *)
(* (Load takes no argument; 0 stands for that.)                            *)
(***************************************************************************)
Call(t, m, now) ==
    /\ pc[t] = "idle"
    /\ m = "Load" => now = 0
    /\ pc' = [pc EXCEPT ![t] = "lock"]
    /\ op' = [op EXCEPT ![t] = m]
    /\ arg' = [arg EXCEPT ![t] = now]
    /\ ret' = [ret EXCEPT ![t] = "none"]
    /\ seen' = IF m = "Load" THEN seen ELSE seen \cup {now}
    /\ UNCHANGED <<file, onDisk, mu, next, floor>>

(***************************************************************************)
(* s.mu.Lock().  Save goes on to write its argument, the others read.      *)
(***************************************************************************)
Lock(t) ==
    /\ pc[t] = "lock"
    /\ mu[pathLockFor(t)] = NoThread
    /\ mu' = [mu EXCEPT ![pathLockFor(t)] = t]
    /\ pc' = [pc EXCEPT ![t] = IF op[t] = "Save" THEN "stage" ELSE "load"]
    /\ next' = [next EXCEPT ![t] = IF op[t] = "Save" THEN arg[t] ELSE next[t]]
    /\ UNCHANGED <<file, onDisk, op, arg, ret, floor, seen>>

(***************************************************************************)
(* loadLocked and then CheckRollback.  An unreadable file and one that     *)
(* fails its integrity check are the same error, and end the call.         *)
(***************************************************************************)
LoadFails(t) ==
    /\ pc[t] = "load"
    /\ Return(t, "state_integrity_failure")
    /\ UNCHANGED <<file, onDisk, floor, seen>>

LoadReturns(t) ==
    /\ pc[t] = "load"
    /\ op[t] = "Load"
    /\ file # Corrupt
    /\ Return(t, "ok")
    /\ UNCHANGED <<file, onDisk, floor, seen>>

CheckRejects(t) ==
    /\ pc[t] = "load"
    /\ op[t] = "CheckAndSave"
    /\ file # Corrupt
    /\ RolledBack(file, arg[t])
    /\ Return(t, "clock_rollback")
    /\ UNCHANGED <<file, onDisk, floor, seen>>

CheckPasses(t) ==
    /\ pc[t] = "load"
    /\ op[t] = "CheckAndSave"
    /\ file # Corrupt
    /\ ~RolledBack(file, arg[t])
    /\ next' = [next EXCEPT ![t] = NextTrustedTime(file, arg[t])]
    /\ Goto(t, "stage")
    /\ UNCHANGED <<file, onDisk, floor, seen>>

(***************************************************************************)
(* saveLocked: the temporary file is created, written, given its mode,     *)
(* synced and closed; then it is renamed; then the directory is synced.    *)
(***************************************************************************)
Stage(t) ==
    /\ pc[t] = "stage"
    /\ \/ Goto(t, "rename") /\ UNCHANGED next
       \/ Return(t, "state_integrity_failure")
    /\ UNCHANGED <<file, onDisk, floor, seen>>

RenameFails(t) ==
    /\ pc[t] = "rename"
    /\ Return(t, "state_integrity_failure")
    /\ UNCHANGED <<file, onDisk, floor, seen>>

(***************************************************************************)
(* The unchecked Save overrides whatever had been accepted before.         *)
(***************************************************************************)
Rename(t) ==
    /\ pc[t] = "rename"
    /\ RenameOver(next[t])
    /\ Goto(t, "syncdir")
    /\ floor' = IF op[t] = "Save" THEN -1 ELSE floor
    /\ UNCHANGED <<next, seen>>

SyncDir(t) ==
    /\ pc[t] = "syncdir"
    /\ \E ok \in BOOLEAN :
        /\ fsyncStateDir(ok)
        /\ Return(t, IF ok THEN "ok" ELSE "state_integrity_failure")
        /\ floor' = IF ok /\ op[t] = "CheckAndSave"
                    THEN Later(floor, arg[t]) ELSE floor
    /\ UNCHANGED seen

Step(t) ==
    \/ LoadFails(t) \/ LoadReturns(t)
    \/ CheckRejects(t) \/ CheckPasses(t)
    \/ Stage(t)
    \/ RenameFails(t) \/ Rename(t)
    \/ SyncDir(t)

-----------------------------------------------------------------------------
(***************************************************************************)
(* The surroundings.  A power loss ends every call and empties the         *)
(* registry.  The file may be damaged or deleted while no call is inside   *)
(* the store: the store excludes other writers during a transaction by     *)
(* contract ("deploy exactly one writer process"), not by a lock.          *)
(***************************************************************************)
Crash ==
    /\ PowerLoss
    /\ mu' = [k \in MutexKeys |-> NoThread]
    /\ pc' = [t \in Thread |-> "idle"]
    /\ op' = [t \in Thread |-> "none"]
    /\ arg' = [t \in Thread |-> 0]
    /\ next' = [t \in Thread |-> 0]
    /\ ret' = [t \in Thread |-> "none"]
    /\ UNCHANGED <<floor, seen>>

Quiet == \A t \in Thread : pc[t] \in {"idle", "lock"}

Damaged ==
    /\ Quiet
    /\ \E c \in {NoState, Corrupt} : ReplacedOutside(c)
    /\ floor' = -1
    /\ UNCHANGED <<mu, pc, op, arg, next, ret, seen>>

Next ==
    \/ \E t \in Thread, now \in Time, m \in {"CheckAndSave", "Save", "Load"} :
          Call(t, m, now)
    \/ \E t \in Thread : Lock(t) \/ Step(t)
    \/ Crash
    \/ Damaged

Spec == Init /\ [][Next]_vars

(***************************************************************************)
(* A thread that can run is run, and sync.Mutex hands itself over to a     *)
(* waiter that has starved (its starvation mode), so a waiter for which    *)
(* the mutex is free again and again gets it.  Nobody need call, crash or  *)
(* damage the file.                                                        *)
(***************************************************************************)
Fairness ==
    \A t \in Thread : WF_vars(Step(t)) /\ SF_vars(Lock(t))

FairSpec == Spec /\ Fairness

-----------------------------------------------------------------------------
TypeOK ==
    /\ file \in Content
    /\ onDisk \in SUBSET Content
    /\ mu \in [MutexKeys -> Thread \cup {NoThread}]
    /\ pc \in [Thread -> {"idle", "lock", "load", "stage", "rename", "syncdir"}]
    /\ op \in [Thread -> {"none", "CheckAndSave", "Save", "Load"}]
    /\ arg \in [Thread -> Time]
    /\ next \in [Thread -> Time]
    /\ ret \in [Thread -> Results]
    /\ floor \in Time \cup {-1}
    /\ seen \in SUBSET Time

(***************************************************************************)
(* CheckAndSave: "On success the new high-water mark is durably written    *)
(* before returning."  Whatever a power loss may leave on disk, at any     *)
(* step of any other call, is a mark at or beyond every accepted instant,  *)
(* also when syncs failed and calls were retried.                          *)
(***************************************************************************)
AcceptedIsDurable ==
    floor >= 0 => \A c \in onDisk : c \in Time /\ c >= floor

(***************************************************************************)
(* The persisted mark is never invented: whatever is on disk, or may be    *)
(* after a power loss, is itself one of the instants presented to Save or  *)
(* CheckAndSave (no default, no local variable of another call, no sum     *)
(* with the skew), so a caller is refused with CodeClockRollback only      *)
(* because of a time that really was observed.                             *)
(***************************************************************************)
MarkWasSeen ==
    \A c \in onDisk \cup {file} : c \in Time => c \in seen

(***************************************************************************)
(* "two RollbackStore instances pointing at the same file cannot lose      *)
(* updates or regress the high-water mark": in a step of CheckAndSave the  *)
(* mark in the file does not move back, and a file that fails its          *)
(* integrity check stays as it is ("the state is never silently reset").   *)
(***************************************************************************)
MarkNeverRegresses ==
    [][\A t \in Thread :
          op[t] = "CheckAndSave" /\ Step(t)
             => /\ file \in Time => file' \in Time /\ file' >= file
                /\ file = Corrupt => file' = Corrupt]_vars

(***************************************************************************)
(* The point of anti-rollback: an instant that is behind one accepted      *)
(* earlier, by this or another instance, before or after a power loss, by  *)
(* more than the skew is never accepted.                                   *)
(***************************************************************************)
NoAcceptBehindFloor ==
    [][\A t \in Thread :
          op[t] = "CheckAndSave" /\ ret[t] # "ok" /\ ret'[t] = "ok"
             => arg[t] + Skew >= floor]_vars

(***************************************************************************)
(* Every call returns: no path out of the store keeps the mutex.           *)
(***************************************************************************)
CallsReturn ==
    \A t \in Thread : pc[t] = "lock" ~> pc[t] = "idle"

(***************************************************************************)
(* The store with its threads, mutexes and disk implements the promise.    *)
(***************************************************************************)
Promise == INSTANCE TrustedTime WITH mark <- file, Instant <- Time

PromiseKept == Promise!Spec
=============================================================================
