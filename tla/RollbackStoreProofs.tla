------------------------ MODULE RollbackStoreProofs -------------------------
(***************************************************************************)
(* Proofs about RollbackStore for every set of threads, every skew and     *)
(* every range of instants.  The assumption of the concurrency theorems is *)
(* SameMutex: the stores were built with spellings of the path that clean  *)
(* to one key.  (A symbolic link to the state file breaks it.)             *)
(***************************************************************************)
EXTENDS RollbackStore, TLAPS

SameMutex == \A s, t \in Thread : pathLockFor(s) = pathLockFor(t)

InStore(t) == pc[t] \in {"load", "stage", "rename", "syncdir"}

(***************************************************************************)
(* A thread inside the store holds its mutex.                              *)
(***************************************************************************)
HoldsMutex == \A t \in Thread : InStore(t) => mu[pathLockFor(t)] = t

(***************************************************************************)
(* What is on disk: the visible contents are one of the survivors, and     *)
(* every survivor covers the floor.                                        *)
(***************************************************************************)
DiskInv ==
    /\ file \in onDisk
    /\ AcceptedIsDurable
    /\ MarkWasSeen

(***************************************************************************)
(* The methods reach only their own steps.                                 *)
(***************************************************************************)
OpInv ==
    \A t \in Thread :
        /\ pc[t] = "lock" => op[t] # "none"
        /\ pc[t] = "load" => op[t] \in {"CheckAndSave", "Load"}
        /\ pc[t] \in {"stage", "rename", "syncdir"}
              => op[t] \in {"CheckAndSave", "Save"}
        /\ op[t] \in {"CheckAndSave", "Save"} => arg[t] \in seen
        /\ pc[t] \in {"stage", "rename"} => next[t] \in seen

(***************************************************************************)
(* What a checked transaction knows between its check and its return: no   *)
(* other thread has moved the mark, and its own instant was close enough.  *)
(***************************************************************************)
CheckedInv ==
    \A t \in Thread :
        /\ op[t] = "CheckAndSave" /\ pc[t] \in {"stage", "rename"}
              => /\ file # Corrupt
                 /\ file \in Time => next[t] >= file
                 /\ next[t] >= arg[t]
                 /\ next[t] >= floor
                 /\ arg[t] + Skew >= floor
        /\ op[t] = "CheckAndSave" /\ pc[t] = "syncdir"
              => /\ file \in Time
                 /\ file >= arg[t]
                 /\ arg[t] + Skew >= floor

IInv ==
    /\ TypeOK
    /\ HoldsMutex
    /\ DiskInv
    /\ OpInv
    /\ CheckedInv

-----------------------------------------------------------------------------
(***************************************************************************)
(* The mutex of every store is one of the registry.                        *)
(***************************************************************************)
LEMMA MutexKey ==
  ASSUME NEW t \in Thread
  PROVE  pathLockFor(t) \in MutexKeys
BY RollbackConstants DEF pathLockFor, MutexKeys

(***************************************************************************)
(* The program starts with variables of their types.                       *)
(***************************************************************************)
LEMMA TypeInit == Init => TypeOK
BY RollbackConstants DEF Init, TypeOK, Content, Time, Results

(***************************************************************************)
(* Returning from a method keeps the types of what it resets.              *)
(***************************************************************************)
LEMMA TypeReturn ==
  ASSUME TypeOK, NEW t \in Thread, NEW r \in Results, Return(t, r)
  PROVE  /\ mu' \in [MutexKeys -> Thread \cup {NoThread}]
         /\ pc' \in [Thread -> {"idle", "lock", "load", "stage", "rename", "syncdir"}]
         /\ op' \in [Thread -> {"none", "CheckAndSave", "Save", "Load"}]
         /\ arg' \in [Thread -> Time]
         /\ next' \in [Thread -> Time]
         /\ ret' \in [Thread -> Results]
BY MutexKey, RollbackConstants DEF TypeOK, Return, Time

(***************************************************************************)
(* Every step keeps the types: one case per action.                        *)
(***************************************************************************)
LEMMA TypeNext == TypeOK /\ [Next]_vars => TypeOK'
<1> SUFFICES ASSUME TypeOK, [Next]_vars PROVE TypeOK'
  OBVIOUS
<1>1. ASSUME NEW t \in Thread, NEW now \in Time,
             NEW m \in {"CheckAndSave", "Save", "Load"}, Call(t, m, now)
      PROVE  TypeOK'
  BY <1>1 DEF Call, TypeOK, Later, Time, Results
<1>2. ASSUME NEW t \in Thread, Lock(t) PROVE TypeOK'
  BY <1>2, MutexKey DEF Lock, TypeOK
<1>3. ASSUME NEW t \in Thread, LoadFails(t) PROVE TypeOK'
  BY <1>3, TypeReturn DEF LoadFails, TypeOK, Results
<1>4. ASSUME NEW t \in Thread, LoadReturns(t) PROVE TypeOK'
  BY <1>4, TypeReturn DEF LoadReturns, TypeOK, Results
<1>5. ASSUME NEW t \in Thread, CheckRejects(t) PROVE TypeOK'
  BY <1>5, TypeReturn DEF CheckRejects, TypeOK, Results
<1>6. ASSUME NEW t \in Thread, CheckPasses(t) PROVE TypeOK'
  <2>1. NextTrustedTime(file, arg[t]) \in Time
    BY <1>6, RollbackConstants DEF CheckPasses, NextTrustedTime, Later, TypeOK, Content, Time
  <2> QED BY <1>6, <2>1 DEF CheckPasses, Goto, TypeOK
<1>7. ASSUME NEW t \in Thread, Stage(t) PROVE TypeOK'
  <2>1. CASE Goto(t, "rename") /\ UNCHANGED next
    BY <1>7, <2>1 DEF Stage, Goto, TypeOK
  <2>2. CASE Return(t, "state_integrity_failure")
    BY <1>7, <2>2, TypeReturn DEF Stage, TypeOK, Results
  <2> QED BY <1>7, <2>1, <2>2 DEF Stage
<1>8. ASSUME NEW t \in Thread, RenameFails(t) PROVE TypeOK'
  BY <1>8, TypeReturn DEF RenameFails, TypeOK, Results
<1>9. ASSUME NEW t \in Thread, Rename(t) PROVE TypeOK'
  BY <1>9 DEF Rename, RenameOver, Goto, TypeOK, Content
<1>10. ASSUME NEW t \in Thread, SyncDir(t) PROVE TypeOK'
  <2>1. PICK ok \in BOOLEAN :
          /\ fsyncStateDir(ok)
          /\ Return(t, IF ok THEN "ok" ELSE "state_integrity_failure")
          /\ floor' = IF ok /\ op[t] = "CheckAndSave"
                      THEN Later(floor, arg[t]) ELSE floor
    BY <1>10 DEF SyncDir
  <2>2. floor' \in Time \cup {-1}
    BY <2>1 DEF TypeOK, Later, Time
  <2>3. (IF ok THEN "ok" ELSE "state_integrity_failure") \in Results
    BY DEF Results
  <2>4. file' \in Content /\ onDisk' \in SUBSET Content
    BY <2>1 DEF fsyncStateDir, TypeOK
  <2> QED BY <1>10, <2>1, <2>2, <2>3, <2>4, TypeReturn DEF SyncDir, TypeOK
<1>11. ASSUME Crash PROVE TypeOK'
  BY <1>11, RollbackConstants DEF Crash, PowerLoss, TypeOK, Results, Time
<1>12. ASSUME Damaged PROVE TypeOK'
  BY <1>12 DEF Damaged, ReplacedOutside, TypeOK, Content
<1>13. CASE UNCHANGED vars
  BY <1>13 DEF vars, TypeOK
<1> QED
  BY <1>1, <1>2, <1>3, <1>4, <1>5, <1>6, <1>7, <1>8, <1>9, <1>10, <1>11,
     <1>12, <1>13 DEF Next, Step

(***************************************************************************)
(* The variables of the store keep their types, whatever fails and however *)
(* the threads interleave.                                                 *)
(***************************************************************************)
THEOREM TypeCorrect == Spec => []TypeOK
BY TypeInit, TypeNext, PTL DEF Spec

-----------------------------------------------------------------------------
(***************************************************************************)
(* The inductive invariant holds at the start.                             *)
(***************************************************************************)
LEMMA InvInit == Init => IInv
<1> SUFFICES ASSUME Init PROVE IInv
  OBVIOUS
<1>1. TypeOK
  BY TypeInit
<1> QED
  BY <1>1, RollbackConstants
  DEF Init, IInv, HoldsMutex, InStore, DiskInv, AcceptedIsDurable, MarkWasSeen,
      OpInv, CheckedInv, Time

(***************************************************************************)
(* With one mutex there is at most one thread inside the store.            *)
(***************************************************************************)
LEMMA OneInStore ==
  ASSUME SameMutex, HoldsMutex, NEW s \in Thread, NEW t \in Thread,
         InStore(s), InStore(t)
  PROVE  s = t
BY DEF SameMutex, HoldsMutex

(***************************************************************************)
(* Returning from the store releases the mutex and keeps the invariant,    *)
(* whatever is returned, if the file and the floor are left alone.         *)
(***************************************************************************)
LEMMA InvReturn ==
  ASSUME SameMutex, IInv, TypeOK', NEW t \in Thread, NEW r \in Results,
         InStore(t), Return(t, r), UNCHANGED <<file, onDisk, floor, seen>>
  PROVE  IInv'
<1>1. \A s \in Thread : s # t => ~InStore(s)
  BY OneInStore DEF IInv
<1>2. \A s \in Thread : ~InStore(s)'
  BY <1>1 DEF InStore, Return, IInv, TypeOK
<1>3. DiskInv'
  BY DEF IInv, DiskInv, AcceptedIsDurable, MarkWasSeen
<1>4. OpInv'
  BY DEF IInv, OpInv, Return, TypeOK
<1>5. CheckedInv'
  BY <1>2 DEF CheckedInv, InStore
<1>6. HoldsMutex'
  BY <1>2 DEF HoldsMutex
<1> QED
  BY <1>3, <1>4, <1>5, <1>6 DEF IInv

(***************************************************************************)
(* Every step keeps the inductive invariant, if all stores share one mutex *)
(* and directory syncs are not skipped.                                    *)
(***************************************************************************)
LEMMA InvNext ==
  ASSUME SameMutex, ~Windows
  PROVE  IInv /\ [Next]_vars => IInv'
<1> SUFFICES ASSUME IInv, [Next]_vars PROVE IInv'
  OBVIOUS
<1>0. TypeOK /\ TypeOK'
  BY TypeNext DEF IInv
<1>1. ASSUME NEW t \in Thread, NEW now \in Time,
             NEW m \in {"CheckAndSave", "Save", "Load"}, Call(t, m, now)
      PROVE  IInv'
  <2>1. HoldsMutex'
    BY <1>1, <1>0 DEF IInv, HoldsMutex, InStore, Call, TypeOK
  <2>2. seen \subseteq seen'
    BY <1>1 DEF Call
  <2>3. DiskInv'
    BY <1>1, <1>0, <2>2 DEF IInv, DiskInv, AcceptedIsDurable, MarkWasSeen, Call, TypeOK, Time
  <2>4. OpInv'
    BY <1>1, <1>0, <2>2 DEF IInv, OpInv, Call, TypeOK, Time, Later
  <2>5. CheckedInv'
    BY <1>1, <1>0 DEF IInv, CheckedInv, Call, TypeOK
  <2> QED BY <1>0, <2>1, <2>3, <2>4, <2>5 DEF IInv
<1>2. ASSUME NEW t \in Thread, Lock(t) PROVE IInv'
  <2>1. HoldsMutex'
    <3> SUFFICES ASSUME NEW s \in Thread, InStore(s)'
                 PROVE  mu'[pathLockFor(s)] = s
      BY DEF HoldsMutex
    <3>1. \A u \in Thread : ~InStore(u)
      BY <1>2, RollbackConstants DEF IInv, HoldsMutex, Lock, SameMutex
    <3>2. s = t
      BY <1>2, <1>0, <3>1 DEF Lock, InStore, TypeOK
    <3> QED BY <1>2, <1>0, <3>2, MutexKey DEF Lock, TypeOK
  <2>2. DiskInv'
    BY <1>2 DEF IInv, DiskInv, AcceptedIsDurable, MarkWasSeen, Lock
  <2>3. OpInv'
    BY <1>2, <1>0 DEF IInv, OpInv, Lock, TypeOK
  <2>4. CheckedInv'
    BY <1>2, <1>0 DEF IInv, CheckedInv, Lock, TypeOK
  <2> QED BY <1>0, <2>1, <2>2, <2>3, <2>4 DEF IInv
<1>3. ASSUME NEW t \in Thread, LoadFails(t) PROVE IInv'
  BY <1>3, <1>0, InvReturn DEF LoadFails, InStore, Results
<1>4. ASSUME NEW t \in Thread, LoadReturns(t) PROVE IInv'
  BY <1>4, <1>0, InvReturn DEF LoadReturns, InStore, Results
<1>5. ASSUME NEW t \in Thread, CheckRejects(t) PROVE IInv'
  BY <1>5, <1>0, InvReturn DEF CheckRejects, InStore, Results
<1>6. ASSUME NEW t \in Thread, CheckPasses(t) PROVE IInv'
  <2>1. HoldsMutex'
    BY <1>6, <1>0 DEF IInv, HoldsMutex, InStore, CheckPasses, Goto, TypeOK
  <2>2. DiskInv'
    BY <1>6 DEF IInv, DiskInv, AcceptedIsDurable, MarkWasSeen, CheckPasses, Goto
  <2>3. file = NoState \/ file \in Time
    BY <1>6, <1>0 DEF CheckPasses, TypeOK, Content
  <2>4. /\ file \in Time => next'[t] >= file
        /\ next'[t] >= arg[t]
        /\ next'[t] \in seen
    <3>1. arg[t] \in seen /\ (file \in Time => file \in seen)
      BY <1>6 DEF IInv, OpInv, DiskInv, MarkWasSeen, CheckPasses
    <3> QED
      BY <1>6, <1>0, <2>3, <3>1, RollbackConstants
      DEF CheckPasses, NextTrustedTime, Later, TypeOK, Time
  <2>5. next'[t] >= floor /\ arg[t] + Skew >= floor
    <3>1. CASE floor >= 0
      <4>1. file \in Time /\ file >= floor
        BY <3>1 DEF IInv, DiskInv, AcceptedIsDurable
      <4>2. arg[t] + Skew >= file
        BY <1>6, <1>0, <4>1, RollbackConstants DEF CheckPasses, RolledBack, TypeOK, Time
      <4> QED BY <1>0, <2>4, <4>1, <4>2, RollbackConstants DEF TypeOK, Time
    <3>2. CASE floor = -1
      BY <1>0, <3>2, RollbackConstants DEF TypeOK, Time
    <3> QED BY <1>0, <3>1, <3>2 DEF TypeOK, Time
  <2>6. OpInv'
    BY <1>6, <1>0, <2>4 DEF IInv, OpInv, CheckPasses, Goto, TypeOK
  <2>7. CheckedInv'
    <3>1. \A s \in Thread : s # t => ~InStore(s)
      BY <1>6, OneInStore DEF IInv, CheckPasses, InStore
    <3> QED
      BY <1>6, <1>0, <2>4, <2>5, <3>1 DEF CheckedInv, CheckPasses, Goto, InStore, TypeOK
  <2> QED BY <1>0, <2>1, <2>2, <2>6, <2>7 DEF IInv
<1>7. ASSUME NEW t \in Thread, Stage(t) PROVE IInv'
  <2>1. CASE Goto(t, "rename") /\ UNCHANGED next
    <3>1. HoldsMutex'
      BY <1>7, <1>0, <2>1 DEF IInv, HoldsMutex, InStore, Stage, Goto, TypeOK
    <3>2. DiskInv'
      BY <1>7, <2>1 DEF IInv, DiskInv, AcceptedIsDurable, MarkWasSeen, Stage, Goto
    <3>3. OpInv'
      BY <1>7, <1>0, <2>1 DEF IInv, OpInv, Stage, Goto, TypeOK
    <3>4. CheckedInv'
      BY <1>7, <1>0, <2>1 DEF IInv, CheckedInv, Stage, Goto, TypeOK
    <3> QED BY <1>0, <3>1, <3>2, <3>3, <3>4 DEF IInv
  <2>2. CASE Return(t, "state_integrity_failure")
    BY <1>7, <1>0, <2>2, InvReturn DEF Stage, InStore, Results
  <2> QED BY <1>7, <2>1, <2>2 DEF Stage
<1>8. ASSUME NEW t \in Thread, RenameFails(t) PROVE IInv'
  BY <1>8, <1>0, InvReturn DEF RenameFails, InStore, Results
<1>9. ASSUME NEW t \in Thread, Rename(t) PROVE IInv'
  <2>0. /\ pc[t] = "rename" /\ InStore(t)
        /\ file' = next[t] /\ onDisk' = onDisk \cup {next[t]}
        /\ floor' = IF op[t] = "Save" THEN -1 ELSE floor
        /\ pc' = [pc EXCEPT ![t] = "syncdir"]
        /\ UNCHANGED <<mu, op, arg, ret, next, seen>>
    BY <1>9 DEF Rename, RenameOver, Goto, InStore
  <2>1. HoldsMutex'
    BY <1>0, <2>0 DEF IInv, HoldsMutex, InStore, TypeOK
  <2>2. next[t] \in Time /\ next[t] \in seen
    BY <1>0, <2>0 DEF IInv, OpInv, TypeOK
  <2>3. op[t] = "CheckAndSave" => next[t] >= floor
    BY <2>0 DEF IInv, CheckedInv
  <2>4. op[t] \in {"CheckAndSave", "Save"}
    BY <2>0 DEF IInv, OpInv
  <2>5. DiskInv'
    BY <1>0, <2>0, <2>2, <2>3, <2>4
    DEF IInv, DiskInv, AcceptedIsDurable, MarkWasSeen, TypeOK, Time
  <2>6. OpInv'
    BY <1>0, <2>0 DEF IInv, OpInv, TypeOK
  <2>7. CheckedInv'
    <3>1. \A s \in Thread : s # t => ~InStore(s)
      BY <2>0, OneInStore DEF IInv
    <3> QED
      BY <1>0, <2>0, <2>2, <3>1 DEF IInv, CheckedInv, InStore, TypeOK
  <2> QED BY <1>0, <2>1, <2>5, <2>6, <2>7 DEF IInv
<1>10. ASSUME NEW t \in Thread, SyncDir(t) PROVE IInv'
  <2>1. PICK ok \in BOOLEAN :
          /\ fsyncStateDir(ok)
          /\ Return(t, IF ok THEN "ok" ELSE "state_integrity_failure")
          /\ floor' = IF ok /\ op[t] = "CheckAndSave"
                      THEN Later(floor, arg[t]) ELSE floor
    BY <1>10 DEF SyncDir
  <2>2. pc[t] = "syncdir" /\ InStore(t) /\ seen' = seen /\ file' = file
    BY <1>10, <2>1 DEF SyncDir, InStore, fsyncStateDir
  <2>3. \A s \in Thread : s # t => ~InStore(s)
    BY <2>2, OneInStore DEF IInv
  <2>4. \A s \in Thread : ~InStore(s)'
    BY <1>0, <2>1, <2>3 DEF InStore, Return, TypeOK
  <2>5. AcceptedIsDurable'
    <3>1. CASE ok /\ op[t] = "CheckAndSave"
      <4>1. onDisk' = {file} /\ floor' = Later(floor, arg[t])
        BY <2>1, <3>1 DEF fsyncStateDir
      <4>2. file \in Time /\ file >= arg[t]
        BY <2>2, <3>1 DEF IInv, CheckedInv
      <4>3. floor >= 0 => file >= floor
        BY DEF IInv, DiskInv, AcceptedIsDurable
      <4> QED BY <1>0, <4>1, <4>2, <4>3 DEF AcceptedIsDurable, Later, TypeOK, Time
    <3>2. CASE ~(ok /\ op[t] = "CheckAndSave")
      <4>1. floor' = floor
        BY <2>1, <3>2
      <4>2. onDisk' \subseteq onDisk
        BY <2>1 DEF fsyncStateDir, IInv, DiskInv
      <4> QED BY <4>1, <4>2 DEF IInv, DiskInv, AcceptedIsDurable
    <3> QED BY <3>1, <3>2
  <2>6. DiskInv'
    BY <1>0, <2>1, <2>2, <2>5 DEF IInv, DiskInv, MarkWasSeen, fsyncStateDir
  <2>7. OpInv'
    BY <1>0, <2>1, <2>2 DEF IInv, OpInv, Return, TypeOK
  <2>8. CheckedInv' /\ HoldsMutex'
    BY <2>4 DEF CheckedInv, HoldsMutex, InStore
  <2> QED BY <1>0, <2>6, <2>7, <2>8 DEF IInv
<1>11. ASSUME Crash PROVE IInv'
  <2>1. DiskInv'
    BY <1>11 DEF IInv, DiskInv, AcceptedIsDurable, MarkWasSeen, Crash, PowerLoss
  <2>2. OpInv' /\ CheckedInv' /\ HoldsMutex'
    BY <1>11 DEF OpInv, CheckedInv, HoldsMutex, InStore, Crash
  <2> QED BY <1>0, <2>1, <2>2 DEF IInv
<1>12. ASSUME Damaged PROVE IInv'
  <2>1. PICK c \in {NoState, Corrupt} : file' = c /\ onDisk' = {c}
    BY <1>12 DEF Damaged, ReplacedOutside
  <2>2. c \notin Time
    BY RollbackConstants DEF Time
  <2>3. DiskInv'
    BY <1>12, <2>1, <2>2 DEF DiskInv, AcceptedIsDurable, MarkWasSeen, Damaged
  <2>4. OpInv' /\ HoldsMutex'
    BY <1>12 DEF IInv, OpInv, HoldsMutex, InStore, Damaged
  <2>5. CheckedInv'
    BY <1>12 DEF CheckedInv, Damaged, Quiet
  <2> QED BY <1>0, <2>3, <2>4, <2>5 DEF IInv
<1>13. CASE UNCHANGED vars
  BY <1>13
  DEF vars, IInv, TypeOK, HoldsMutex, InStore, DiskInv, AcceptedIsDurable,
      MarkWasSeen, OpInv, CheckedInv
<1> QED
  BY <1>1, <1>2, <1>3, <1>4, <1>5, <1>6, <1>7, <1>8, <1>9, <1>10, <1>11,
     <1>12, <1>13 DEF Next, Step

(***************************************************************************)
(* So the inductive invariant holds in every reachable state.              *)
(***************************************************************************)
LEMMA InvHolds ==
  ASSUME SameMutex, ~Windows
  PROVE  Spec => []IInv
BY InvInit, InvNext, PTL DEF Spec

(***************************************************************************)
(* Every accepted instant survives a power loss, at any moment, however    *)
(* many renames and directory syncs have failed in between (POSIX).        *)
(***************************************************************************)
THEOREM AcceptedDurable ==
  ASSUME SameMutex, ~Windows
  PROVE  Spec => []AcceptedIsDurable
<1>1. IInv => AcceptedIsDurable
  BY DEF IInv, DiskInv
<1> QED BY <1>1, InvHolds, PTL

(***************************************************************************)
(* The mark is always itself an instant presented to Save or CheckAndSave, *)
(* in the visible file and in everything a power loss may leave.           *)
(***************************************************************************)
THEOREM MarkSeen ==
  ASSUME SameMutex, ~Windows
  PROVE  Spec => []MarkWasSeen
<1>1. IInv => MarkWasSeen
  BY DEF IInv, DiskInv
<1> QED BY <1>1, InvHolds, PTL

(***************************************************************************)
(* No CheckAndSave, of any instance on the file, moves the mark back or    *)
(* writes over a file that fails its integrity check.                      *)
(***************************************************************************)
THEOREM NoRegress ==
  ASSUME SameMutex, ~Windows
  PROVE  Spec => MarkNeverRegresses
<1>1. ASSUME IInv, NEW t \in Thread, op[t] = "CheckAndSave", Step(t)
      PROVE  /\ file \in Time => file' \in Time /\ file' >= file
             /\ file = Corrupt => file' = Corrupt
  <2>1. CASE Rename(t)
    <3>1. pc[t] = "rename" /\ file' = next[t]
      BY <2>1 DEF Rename, RenameOver
    <3>2. file # Corrupt /\ (file \in Time => next[t] >= file)
      BY <1>1, <3>1 DEF IInv, CheckedInv
    <3> QED BY <1>1, <3>1, <3>2 DEF IInv, TypeOK
  <2>2. CASE ~Rename(t)
    <3>1. file' = file
      BY <1>1, <2>2 DEF Step, LoadFails, LoadReturns, CheckRejects, CheckPasses,
                        Stage, RenameFails, SyncDir, fsyncStateDir
    <3> QED BY <3>1 DEF Time
  <2> QED BY <2>1, <2>2
<1>2. IInv => [\A t \in Thread :
                 op[t] = "CheckAndSave" /\ Step(t)
                   => /\ file \in Time => file' \in Time /\ file' >= file
                      /\ file = Corrupt => file' = Corrupt]_vars
  BY <1>1
<1> QED BY <1>2, InvHolds, PTL DEF MarkNeverRegresses

(***************************************************************************)
(* The anti-rollback guarantee: an instant behind an accepted one by more  *)
(* than the skew is never accepted.                                        *)
(***************************************************************************)
THEOREM NoAcceptBehind ==
  ASSUME SameMutex, ~Windows
  PROVE  Spec => NoAcceptBehindFloor
<1>1. ASSUME IInv, [Next]_vars, NEW t \in Thread, op[t] = "CheckAndSave",
             ret[t] # "ok", ret'[t] = "ok"
      PROVE  arg[t] + Skew >= floor
  <2>1. ASSUME NEW s \in Thread, NEW r \in Results, Return(s, r), r # "ok"
        PROVE  FALSE
    BY <1>1, <2>1 DEF Return, IInv, TypeOK
  <2>2. SyncDir(t) \/ LoadReturns(t)
    <3>1. ASSUME NEW s \in Thread, NEW now \in Time,
                 NEW m \in {"CheckAndSave", "Save", "Load"}, Call(s, m, now)
          PROVE  FALSE
      BY <1>1, <3>1 DEF Call, IInv, TypeOK
    <3>2. ASSUME NEW s \in Thread, Lock(s) PROVE FALSE
      BY <1>1, <3>2 DEF Lock
    <3>3. ASSUME NEW s \in Thread, LoadFails(s) \/ CheckRejects(s) \/ RenameFails(s)
          PROVE  FALSE
      BY <3>3, <2>1 DEF LoadFails, CheckRejects, RenameFails, Results
    <3>4. ASSUME NEW s \in Thread, Stage(s) \/ Rename(s) \/ CheckPasses(s)
          PROVE  FALSE
      BY <1>1, <3>4, <2>1 DEF Stage, Rename, CheckPasses, Goto, Results
    <3>5. ASSUME NEW s \in Thread, SyncDir(s) \/ LoadReturns(s) PROVE s = t
      <4>1. PICK r \in Results : Return(s, r)
        BY <3>5 DEF SyncDir, LoadReturns, Results
      <4> QED BY <1>1, <4>1 DEF Return, IInv, TypeOK
    <3>6. ASSUME Crash PROVE FALSE
      BY <1>1, <3>6 DEF Crash
    <3>7. ASSUME Damaged PROVE FALSE
      BY <1>1, <3>7 DEF Damaged
    <3>8. ASSUME UNCHANGED vars PROVE FALSE
      BY <1>1, <3>8 DEF vars
    <3> QED
      BY <1>1, <3>1, <3>2, <3>3, <3>4, <3>5, <3>6, <3>7, <3>8 DEF Next, Step
  <2>3. pc[t] = "syncdir"
    BY <1>1, <2>2 DEF SyncDir, LoadReturns
  <2> QED BY <1>1, <2>3 DEF IInv, CheckedInv
<1>2. IInv /\ [Next]_vars
        => [\A t \in Thread :
              op[t] = "CheckAndSave" /\ ret[t] # "ok" /\ ret'[t] = "ok"
                 => arg[t] + Skew >= floor]_vars
  BY <1>1
<1> QED BY <1>2, InvHolds, PTL DEF NoAcceptBehindFloor, Spec

-----------------------------------------------------------------------------
(***************************************************************************)
(* A mutex of the registry is held by a thread inside the store, and only  *)
(* by one whose store uses it.                                             *)
(***************************************************************************)
HeldInside ==
    \A k \in MutexKeys :
        mu[k] # NoThread => InStore(mu[k]) /\ pathLockFor(mu[k]) = k

HeldInv == TypeOK /\ HeldInside

(***************************************************************************)
(* Every step keeps that, also for stores with mutexes of their own: every *)
(* way out of a call goes through Return.                                  *)
(***************************************************************************)
LEMMA HeldNext == HeldInv /\ [Next]_vars => HeldInv'
<1> SUFFICES ASSUME HeldInv, [Next]_vars PROVE HeldInv'
  OBVIOUS
<1>0. TypeOK /\ TypeOK' /\ HeldInside
  BY TypeNext DEF HeldInv
<1>1. ASSUME NEW t \in Thread, NEW r, Return(t, r) PROVE HeldInv'
  BY <1>0, <1>1, MutexKey DEF HeldInv, HeldInside, Return, InStore, TypeOK
<1>2. ASSUME NEW t \in Thread, NEW step \in {"stage", "rename", "syncdir"},
             Goto(t, step)
      PROVE  HeldInv'
  BY <1>0, <1>2 DEF HeldInv, HeldInside, Goto, InStore, TypeOK
<1>3. ASSUME NEW t \in Thread, NEW now \in Time,
             NEW m \in {"CheckAndSave", "Save", "Load"}, Call(t, m, now)
      PROVE  HeldInv'
  BY <1>0, <1>3 DEF HeldInv, HeldInside, Call, InStore, TypeOK
<1>4. ASSUME NEW t \in Thread, Lock(t) PROVE HeldInv'
  BY <1>0, <1>4, MutexKey DEF HeldInv, HeldInside, Lock, InStore, TypeOK
<1>5. ASSUME NEW t \in Thread, Step(t) PROVE HeldInv'
  <2>1. \/ \E r : Return(t, r)
        \/ \E step \in {"stage", "rename", "syncdir"} : Goto(t, step)
    BY <1>5 DEF Step, LoadFails, LoadReturns, CheckRejects, CheckPasses, Stage,
                RenameFails, Rename, SyncDir
  <2> QED BY <1>1, <1>2, <2>1
<1>6. ASSUME Crash PROVE HeldInv'
  BY <1>0, <1>6 DEF Crash, HeldInv, HeldInside
<1>7. ASSUME Damaged PROVE HeldInv'
  BY <1>0, <1>7 DEF Damaged, HeldInv, HeldInside, InStore
<1>8. CASE UNCHANGED vars
  BY <1>0, <1>8 DEF vars, HeldInv, HeldInside, InStore
<1> QED BY <1>3, <1>4, <1>5, <1>6, <1>7, <1>8 DEF Next

(***************************************************************************)
(* defer s.mu.Unlock(): no way out of CheckAndSave, Save or Load keeps the *)
(* mutex, and none releases that of another store, whatever the spellings  *)
(* of the paths and whatever fails on the way.                             *)
(***************************************************************************)
THEOREM MutexHeldOnlyInside == Spec => []HeldInside
<1>1. Init => HeldInv
  BY TypeInit DEF Init, HeldInv, HeldInside
<1>2. HeldInv => HeldInside
  BY DEF HeldInv
<1> QED BY <1>1, <1>2, HeldNext, PTL DEF Spec

(***************************************************************************)
(* The steps a call has left once it holds the mutex.                      *)
(***************************************************************************)
Left(step) ==
    CASE step = "load"    -> 4
      [] step = "stage"   -> 3
      [] step = "rename"  -> 2
      [] step = "syncdir" -> 1
      [] OTHER            -> 0

(***************************************************************************)
(* CheckAndSave, Save, Load: a call holds the mutex for at most four steps *)
(* of its own, none of which waits for anybody, and no step of one call    *)
(* sends another back.  (That the steps are taken is fairness, and is      *)
(* checked as CallsReturn.)                                                *)
(***************************************************************************)
THEOREM StepsAreFew ==
  Spec => [][\A t \in Thread :
                Step(t) => /\ Left(pc[t]) \in 1..4
                           /\ Left(pc'[t]) < Left(pc[t])
                           /\ \A s \in Thread \ {t} : pc'[s] = pc[s]]_vars
<1>1. ASSUME TypeOK, NEW t \in Thread, Step(t)
      PROVE  /\ Left(pc[t]) \in 1..4
             /\ Left(pc'[t]) < Left(pc[t])
             /\ \A s \in Thread \ {t} : pc'[s] = pc[s]
  <2>1. /\ pc[t] \in {"load", "stage", "rename", "syncdir"}
        /\ \/ pc' = [pc EXCEPT ![t] = "idle"]
           \/ pc[t] = "load" /\ pc' = [pc EXCEPT ![t] = "stage"]
           \/ pc[t] = "stage" /\ pc' = [pc EXCEPT ![t] = "rename"]
           \/ pc[t] = "rename" /\ pc' = [pc EXCEPT ![t] = "syncdir"]
    BY <1>1 DEF Step, LoadFails, LoadReturns, CheckRejects, CheckPasses, Stage,
                RenameFails, Rename, SyncDir, Return, Goto
  <2> QED BY <1>1, <2>1 DEF TypeOK, Left
<1>2. TypeOK /\ [Next]_vars
        => [\A t \in Thread :
               Step(t) => /\ Left(pc[t]) \in 1..4
                          /\ Left(pc'[t]) < Left(pc[t])
                          /\ \A s \in Thread \ {t} : pc'[s] = pc[s]]_vars
  BY <1>1
<1> QED BY <1>2, TypeCorrect, PTL DEF Spec

-----------------------------------------------------------------------------
(***************************************************************************)
(* Every step of the store is a step of TrustedTime or changes nothing     *)
(* that TrustedTime speaks of.                                             *)
(***************************************************************************)
LEMMA StepRefines ==
  ASSUME SameMutex, ~Windows, IInv, [Next]_vars
  PROVE  [Promise!Next]_<<file, floor>>
<1> USE DEF Promise!Next, Promise!Advance, Promise!Accept, Promise!Lose,
            Promise!LoseAll, Promise!Override, Promise!IsMark
<1>0. file \in Content /\ floor \in Time \cup {-1}
  BY DEF IInv, TypeOK
<1>1. ASSUME NEW t \in Thread, Rename(t) PROVE Promise!Next
  <2>1. /\ pc[t] = "rename" /\ file' = next[t] /\ next[t] \in Time
        /\ floor' = IF op[t] = "Save" THEN -1 ELSE floor
    BY <1>1 DEF Rename, RenameOver, IInv, TypeOK
  <2>2. CASE op[t] = "Save"
    <3>1. Promise!Override
      BY <2>1, <2>2
    <3> QED BY <3>1
  <2>3. CASE op[t] = "CheckAndSave"
    <3>1. file # Corrupt /\ (file \in Time => next[t] >= file)
      BY <2>1, <2>3 DEF IInv, CheckedInv
    <3>2. Promise!Advance
      BY <1>0, <2>1, <2>3, <3>1 DEF Content
    <3> QED BY <3>2
  <2> QED BY <2>1, <2>2, <2>3 DEF IInv, OpInv
<1>2. ASSUME NEW t \in Thread, SyncDir(t)
      PROVE  Promise!Next \/ UNCHANGED <<file, floor>>
  <2>1. PICK ok \in BOOLEAN :
          /\ fsyncStateDir(ok)
          /\ floor' = IF ok /\ op[t] = "CheckAndSave"
                      THEN Later(floor, arg[t]) ELSE floor
    BY <1>2 DEF SyncDir
  <2>2. pc[t] = "syncdir" /\ file' = file
    BY <1>2, <2>1 DEF SyncDir, fsyncStateDir
  <2>3. CASE ok /\ op[t] = "CheckAndSave"
    <3>1. file \in Time /\ file >= arg[t] /\ arg[t] + Skew >= floor
      BY <2>2, <2>3 DEF IInv, CheckedInv
    <3>2. arg[t] \in Time
      BY DEF IInv, TypeOK
    <3>3. Promise!Accept(arg[t])
      BY <2>1, <2>2, <2>3, <3>1, <3>2, RollbackConstants
      DEF Promise!Later, Later, Time
    <3> QED BY <3>2, <3>3
  <2>4. CASE ~(ok /\ op[t] = "CheckAndSave")
    BY <2>1, <2>2, <2>4
  <2> QED BY <2>3, <2>4
<1>3. ASSUME Crash PROVE Promise!Next
  <2>1. PICK c \in onDisk : file' = c
    BY <1>3 DEF Crash, PowerLoss
  <2>2. floor' = floor /\ c \in Content
    BY <1>3 DEF Crash, IInv, TypeOK
  <2>3. floor >= 0 => c \in Time /\ c >= floor
    BY DEF IInv, DiskInv, AcceptedIsDurable
  <2>4. CASE c \in Time
    <3>1. c >= floor
      BY <1>0, <2>3, <2>4 DEF Time
    <3>2. Promise!Lose
      BY <2>1, <2>2, <2>4, <3>1
    <3> QED BY <3>2
  <2>5. CASE c \notin Time
    <3>1. floor = -1
      BY <1>0, <2>3, <2>5 DEF Time
    <3>2. Promise!LoseAll
      BY <2>1, <2>2, <2>5, <3>1 DEF Content
    <3> QED BY <3>2
  <2> QED BY <2>4, <2>5
<1>4. ASSUME Damaged PROVE Promise!Next
  <2>1. Promise!Override
    BY <1>4 DEF Damaged, ReplacedOutside
  <2> QED BY <2>1
<1>5. ASSUME NEW t \in Thread,
             \/ LoadFails(t) \/ LoadReturns(t) \/ CheckRejects(t)
             \/ CheckPasses(t) \/ Stage(t) \/ RenameFails(t) \/ Lock(t)
      PROVE  UNCHANGED <<file, floor>>
  BY <1>5 DEF LoadFails, LoadReturns, CheckRejects, CheckPasses, Stage,
              RenameFails, Lock
<1>6. ASSUME NEW t \in Thread, NEW now \in Time,
             NEW m \in {"CheckAndSave", "Save", "Load"}, Call(t, m, now)
      PROVE  UNCHANGED <<file, floor>>
  BY <1>6 DEF Call
<1>7. CASE UNCHANGED vars
  BY <1>7 DEF vars
<1> QED
  BY <1>1, <1>2, <1>3, <1>4, <1>5, <1>6, <1>7 DEF Next, Step

(***************************************************************************)
(* The store implements what it promises: threads, instances, failing      *)
(* writes and power losses are invisible behind TrustedTime.               *)
(***************************************************************************)
THEOREM Refinement ==
  ASSUME SameMutex, ~Windows
  PROVE  Spec => PromiseKept
<1>1. Init => Promise!Init
  BY DEF Init, Promise!Init
<1>2. IInv /\ [Next]_vars => [Promise!Next]_<<file, floor>>
  BY StepRefines
<1> QED
  BY <1>1, <1>2, InvHolds, PTL DEF Spec, PromiseKept, Promise!Spec, Promise!tvars
=============================================================================
