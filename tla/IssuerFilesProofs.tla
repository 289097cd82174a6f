------------------------- MODULE IssuerFilesProofs --------------------------
(***************************************************************************)
(* Proofs about IssuerFiles for any number of calls, whatever their -force *)
(* arguments and the files they find.  What they say of key files assumes  *)
(* OneKeygen: two calls of keygen for one key id may take each other's     *)
(* files away.                                                             *)
(***************************************************************************)
EXTENDS IssuerFiles, Integers, SequenceTheorems, TLAPS

FileNames == Names \cup {Out}

Content ==
    {Absent, Old} \cup Writer \cup Output \cup {Partial(c) : c \in Writer \cup Output}

Directories == [FileNames -> Content]

(***************************************************************************)
(* The best-effort operations there are.                                   *)
(***************************************************************************)
Removal(n) == [do |-> "remove", name |-> n, to |-> n]

Restoring(k, w) ==
    [do |-> "rename", name |-> Backup(k, w), to |-> Target(k)]

Operation(w) ==
    {Removal(Target(k)) : k \in Key} \cup {Removal(Backup(k, w)) : k \in Key}
        \cup {Restoring(k, w) : k \in Key}

Step ==
    ({"check", "stage", "sync staged", "back up", "commit", "sync"} \X Key)
        \cup {<<"verify">>, <<"best effort">>, <<"chmod">>,
              <<"ok">>, <<"error">>, <<"killed">>, <<"none">>}

OutStep ==
    {"stage", "sync staged", "rename", "create", "write", "sync", "close",
     "discard", "sync dir"} \cup Ended

DirInv ==
    /\ dir \in onDisk
    /\ onDisk \subseteq Directories

GivenInv ==
    /\ start \in [Targets -> {Old, Absent}]
    /\ force \in [DOMAIN force -> BOOLEAN]
    /\ force \in Calls

KeyType ==
    /\ pc \in [Writers -> Step]
    /\ bak \in [Writers -> SUBSET Key]
    /\ DOMAIN todo = Writers
    /\ todo = [w \in Writers |-> todo[w]]
    /\ \A w \in Writers : todo[w] \in Seq(Operation(w))
    /\ after \in [Writers -> {<<"none">>, <<"error">>, <<"chmod">>}]
    /\ stuck \in BOOLEAN

OutType == at \in [Outputs -> OutStep] /\ temp \in [Outputs -> Content]

TypeInv == DirInv /\ GivenInv /\ KeyType /\ OutType

-----------------------------------------------------------------------------
(***************************************************************************)
(* The names of the files are different names.                             *)
(***************************************************************************)
LEMMA TargetNames ==
  /\ \A k \in Key : Target(k) \in FileNames /\ Target(k) # Out
  /\ \A k \in Key : Target(k) \in Targets
  /\ \A k, l \in Key : Target(k) = Target(l) => k = l
  /\ Out \in FileNames /\ Out \in Targets
BY DEF Target, Out, FileNames, Names, Targets, Key

(***************************************************************************)
(* Each staged file has a name of its own, that of no target.              *)
(***************************************************************************)
LEMMA StagedNames ==
  ASSUME NEW w \in Writer
  PROVE  /\ \A k \in Key : Staged(k, w) \in FileNames /\ Staged(k, w) # Out
         /\ \A k, l \in Key : Staged(k, w) # Target(l)
         /\ \A k, l \in Key, v \in Writer :
               Staged(k, w) = Staged(l, v) => k = l /\ w = v
BY DEF Target, Staged, Out, FileNames, Names

(***************************************************************************)
(* Each backup has a name of its own, that of no target or staged file.    *)
(***************************************************************************)
LEMMA BackupNames ==
  ASSUME NEW w \in Writer
  PROVE  /\ \A k \in Key : Backup(k, w) \in FileNames /\ Backup(k, w) # Out
         /\ \A k, l \in Key : Backup(k, w) # Target(l)
         /\ \A k, l \in Key, v \in Writer : Backup(k, w) # Staged(l, v)
         /\ \A k, l \in Key, v \in Writer :
               Backup(k, w) = Backup(l, v) => k = l /\ w = v
BY DEF Target, Staged, Backup, Out, FileNames, Names

(***************************************************************************)
(* What the changes to a directory do to each of its files.                *)
(***************************************************************************)
LEMMA WithFile ==
  ASSUME NEW n \in FileNames, NEW c \in Content, dir \in Directories
  PROVE  /\ With(n, c) \in Directories
         /\ \A m \in FileNames : With(n, c)[m] = IF m = n THEN c ELSE dir[m]
BY DEF With, Directories

(***************************************************************************)
(* A rename takes one file away and replaces another.                      *)
(***************************************************************************)
LEMMA MovedFile ==
  ASSUME NEW n \in FileNames, NEW m \in FileNames, n # m, dir \in Directories
  PROVE  /\ Moved(n, m) \in Directories
         /\ Moved(n, m)[n] = Absent /\ Moved(n, m)[m] = dir[n]
         /\ \A x \in FileNames \ {n, m} : Moved(n, m)[x] = dir[x]
BY DEF Moved, Directories, Content

(***************************************************************************)
(* Removing files leaves the others.                                       *)
(***************************************************************************)
LEMMA WithoutFiles ==
  ASSUME NEW S, dir \in Directories
  PROVE  /\ Without(S) \in Directories
         /\ \A m \in FileNames :
               Without(S)[m] = IF m \in S THEN Absent ELSE dir[m]
BY DEF Without, Directories, Content

(***************************************************************************)
(* The steps of keygen leave the output file alone.                        *)
(***************************************************************************)
LeavesOut ==
    /\ dir' \in onDisk' /\ onDisk' \subseteq Directories
    /\ dir'[Out] = dir[Out]
    /\ \A e \in onDisk' : \E d \in onDisk : e[Out] = d[Out]

(***************************************************************************)
(* A change to other files is a step that leaves the output file alone.    *)
(***************************************************************************)
LEMMA ChangeLeavesOut ==
  ASSUME DirInv, NEW d \in Directories, d[Out] = dir[Out], Change(d)
  PROVE  LeavesOut
BY DEF Change, LeavesOut, DirInv

(***************************************************************************)
(* So is a rename of one key file to another,                              *)
(***************************************************************************)
LEMMA MovedLeavesOut ==
  ASSUME DirInv, NEW n \in FileNames \ {Out}, NEW m \in FileNames \ {Out},
         n # m, Change(Moved(n, m))
  PROVE  LeavesOut
<1>1. dir \in Directories
  BY DEF DirInv
<1>2. Moved(n, m) \in Directories /\ Moved(n, m)[Out] = dir[Out]
  BY <1>1, MovedFile, TargetNames
<1> QED BY <1>2, ChangeLeavesOut

(***************************************************************************)
(* a step that does not touch the directory,                               *)
(***************************************************************************)
LEMMA QuietLeavesOut ==
  ASSUME DirInv, UNCHANGED dirVars
  PROVE  LeavesOut
BY DEF dirVars, LeavesOut, DirInv

(***************************************************************************)
(* a sync of the directory,                                                *)
(***************************************************************************)
LEMMA SyncLeavesOut ==
  ASSUME DirInv, NEW ok, fsyncDir(ok)
  PROVE  LeavesOut
BY DEF fsyncDir, LeavesOut, DirInv

(***************************************************************************)
(* What a sync of the contents of a staged key does to a directory.        *)
(***************************************************************************)
SyncedKey(d, w, k) ==
    IF d[Staged(k, w)] = Partial(w) THEN [d EXCEPT ![Staged(k, w)] = w] ELSE d

(***************************************************************************)
(* It makes that file whole and leaves the others.                         *)
(***************************************************************************)
LEMMA SyncedKeyFiles ==
  ASSUME NEW w \in Writer, NEW k \in Key, NEW d \in Directories
  PROVE  /\ SyncedKey(d, w, k) \in Directories
         /\ \A n \in FileNames \ {Staged(k, w)} : SyncedKey(d, w, k)[n] = d[n]
         /\ SyncedKey(d, w, k)[Staged(k, w)] =
               IF d[Staged(k, w)] = Partial(w) THEN w ELSE d[Staged(k, w)]
BY StagedNames DEF SyncedKey, Directories, Content

(***************************************************************************)
(* It is done to every directory that may survive.                         *)
(***************************************************************************)
LEMMA SyncedByFileSync ==
  ASSUME NEW w, NEW k, FileSync(Staged(k, w), Partial(w), w)
  PROVE  /\ dir' = SyncedKey(dir, w, k)
         /\ onDisk' = {SyncedKey(d, w, k) : d \in onDisk}
BY DEF FileSync, SyncedKey

(***************************************************************************)
(* a sync of the contents of a staged key,                                 *)
(***************************************************************************)
LEMMA FileSyncLeavesOut ==
  ASSUME DirInv, NEW w \in Writers, NEW k \in Key,
         FileSync(Staged(k, w), Partial(w), w)
  PROVE  LeavesOut
<1>1. w \in Writer
  BY DEF Writers
<1>2. dir' = SyncedKey(dir, w, k) /\ onDisk' = {SyncedKey(d, w, k) : d \in onDisk}
  BY SyncedByFileSync
<1> QED BY <1>1, <1>2, SyncedKeyFiles, StagedNames, TargetNames
        DEF LeavesOut, DirInv

(***************************************************************************)
(* and the removal of the staged files.                                    *)
(***************************************************************************)
LEMMA ReturnLeavesOut ==
  ASSUME DirInv, NEW w \in Writers, NEW r, Return(w, r)
  PROVE  LeavesOut
<1>1. PICK S \in SUBSET {Staged(k, w) : k \in Key} : Change(Without(S))
  BY DEF Return
<1>2. w \in Writer /\ dir \in Directories
  BY DEF Writers, DirInv
<1>3. Out \notin S
  BY <1>2, StagedNames
<1> QED BY <1>1, <1>2, <1>3, WithoutFiles, TargetNames, ChangeLeavesOut

(***************************************************************************)
(* Two operations in turn.                                                 *)
(***************************************************************************)
LEMMA OneAndOne ==
  ASSUME NEW S, NEW x \in S, NEW y \in S
  PROVE  <<x>> \o <<y>> = <<x, y>>
<1>1. <<x>> \in Seq(S) /\ <<y>> \in Seq(S) /\ <<x, y>> \in Seq(S)
  OBVIOUS
<1>2. /\ <<x>> \o <<y>> \in Seq(S) /\ Len(<<x>> \o <<y>>) = 2
      /\ (<<x>> \o <<y>>)[1] = x /\ (<<x>> \o <<y>>)[2] = y
  BY <1>1, ConcatProperties
<1>3. Len(<<x, y>>) = 2 /\ <<x, y>>[1] = x /\ <<x, y>>[2] = y
  OBVIOUS
<1> DEFINE s == <<x>> \o <<y>>
           t == <<x, y>>
<1>4. s \in Seq(S) /\ t \in Seq(S) /\ Len(s) = Len(t)
  BY <1>1, <1>2, <1>3
<1>5. \A i \in 1 .. Len(s) : s[i] = t[i]
  BY <1>2, <1>3
<1> HIDE DEF s, t
<1>6. s = t
  BY <1>4, <1>5, SeqEqual
<1> QED BY <1>6 DEF s, t

(***************************************************************************)
(* The best-effort operations of a call are on its own files.              *)
(***************************************************************************)
LEMMA PlansAreOperations ==
  ASSUME NEW w \in Writers, NEW k \in Key, NEW B
  PROVE  /\ RemoveFile(Target(k)) = <<Removal(Target(k))>>
         /\ restoreBackup(w, k, B) =
               IF k \in B THEN <<Removal(Target(k)), Restoring(k, w)>> ELSE <<>>
         /\ removeBackup(w, k) =
               IF k \in bak[w] THEN <<Removal(Backup(k, w))>> ELSE <<>>
         /\ RemoveFile(Target(k)) \in Seq(Operation(w))
         /\ restoreBackup(w, k, B) \in Seq(Operation(w))
         /\ removeBackup(w, k) \in Seq(Operation(w))
<1>1. /\ Removal(Target(k)) \in Operation(w)
      /\ Removal(Backup(k, w)) \in Operation(w)
      /\ Restoring(k, w) \in Operation(w)
  BY DEF Operation
<1>2. <<Removal(Target(k))>> \o <<Restoring(k, w)>>
         = <<Removal(Target(k)), Restoring(k, w)>>
  BY <1>1, OneAndOne
<1>3. RemoveFile(Target(k)) = <<Removal(Target(k))>>
  BY DEF RemoveFile, Removal
<1>4. restoreBackup(w, k, B) =
               IF k \in B THEN <<Removal(Target(k)), Restoring(k, w)>> ELSE <<>>
  BY <1>2, <1>3 DEF restoreBackup, Restoring
<1>5. removeBackup(w, k) =
               IF k \in bak[w] THEN <<Removal(Backup(k, w))>> ELSE <<>>
  BY DEF removeBackup, RemoveFile, Removal
<1>6. restoreBackup(w, k, B) \in Seq(Operation(w))
  BY <1>1, <1>4
<1>7. RemoveFile(Target(k)) \in Seq(Operation(w))
  BY <1>1, <1>3
<1>8. removeBackup(w, k) \in Seq(Operation(w))
  BY <1>1, <1>5
<1> QED BY <1>3, <1>4, <1>5, <1>6, <1>7, <1>8

(***************************************************************************)
(* What an operation does to the directory.                                *)
(***************************************************************************)
LEMMA EffectOf ==
  /\ \A n : Effect(Removal(n)) = With(n, Absent)
  /\ \A k, w : Effect(Restoring(k, w)) =
        IF dir[Backup(k, w)] = Absent THEN dir
        ELSE Moved(Backup(k, w), Target(k))
BY DEF Effect, Removal, Restoring

(***************************************************************************)
(* It leaves the output file alone.                                        *)
(***************************************************************************)
LEMMA EffectLeavesOut ==
  ASSUME DirInv, NEW w \in Writers, NEW o \in Operation(w)
  PROVE  Effect(o) \in Directories /\ Effect(o)[Out] = dir[Out]
<1> USE DEF Content
<1>1. w \in Writer /\ dir \in Directories
  BY DEF Writers, DirInv
<1>2. CASE \E k \in Key : o = Removal(Target(k))
  BY <1>1, <1>2, EffectOf, TargetNames, WithFile
<1>3. CASE \E k \in Key : o = Removal(Backup(k, w))
  BY <1>1, <1>3, EffectOf, TargetNames, BackupNames, WithFile
<1>4. CASE \E k \in Key : o = Restoring(k, w)
  BY <1>1, <1>4, EffectOf, TargetNames, BackupNames, MovedFile
<1> QED BY <1>2, <1>3, <1>4 DEF Operation

-----------------------------------------------------------------------------
(***************************************************************************)
(* The steps that go on, return or begin to recover keep the types.        *)
(***************************************************************************)
LEMMA SameWriters ==
  ASSUME UNCHANGED given
  PROVE  Writers' = Writers /\ Outputs' = Outputs /\ start' = start /\ force' = force
BY DEF Writers, Outputs, given

(***************************************************************************)
(* Going on to a step keeps the types.                                     *)
(***************************************************************************)
LEMMA GotoType ==
  ASSUME KeyType, UNCHANGED given, NEW w \in Writers, NEW s \in Step, Goto(w, s)
  PROVE  KeyType'
BY SameWriters DEF KeyType, Goto, local

(***************************************************************************)
(* Returning keeps the types.                                              *)
(***************************************************************************)
LEMMA ReturnType ==
  ASSUME KeyType, UNCHANGED given, NEW w \in Writers, NEW r \in Step, Return(w, r)
  PROVE  KeyType'
<1>1. /\ pc' = [pc EXCEPT ![w] = r] /\ UNCHANGED <<bak, todo, after>>
  BY DEF Return, local
<1>2. stuck' \in BOOLEAN
  BY DEF Return
<1> QED BY <1>1, <1>2, SameWriters DEF KeyType

(***************************************************************************)
(* Beginning best-effort operations keeps the types.                       *)
(***************************************************************************)
LEMMA BestEffortType ==
  ASSUME KeyType, UNCHANGED given, NEW w \in Writers, NEW ops \in Seq(Operation(w)),
         NEW s \in {<<"error">>, <<"chmod">>}, BestEffort(w, ops, s)
  PROVE  KeyType'
<1>1. /\ pc' = [pc EXCEPT ![w] = <<"best effort">>]
      /\ todo' = [todo EXCEPT ![w] = ops]
      /\ after' = [after EXCEPT ![w] = s]
      /\ UNCHANGED <<bak, stuck>>
  BY DEF BestEffort
<1>2. pc' \in [Writers -> Step] /\ after' \in [Writers -> {<<"none">>, <<"error">>, <<"chmod">>}]
  BY <1>1 DEF KeyType, Step
<1>3. /\ DOMAIN todo' = Writers /\ todo' = [v \in Writers |-> todo'[v]]
      /\ \A v \in Writers : todo'[v] \in Seq(Operation(v))
  BY <1>1 DEF KeyType
<1> QED BY <1>1, <1>2, <1>3, SameWriters DEF KeyType

(***************************************************************************)
(* Every step of keygen keeps the types and leaves the output file alone.  *)
(***************************************************************************)
LEMMA KeygenType ==
  ASSUME DirInv, KeyType, UNCHANGED given, NEW w \in Writers,
         WriteKeyFiles(w) \/ Kill(w)
  PROVE  KeyType' /\ LeavesOut
<1>0. /\ w \in Writer /\ dir \in Directories /\ w \in Content /\ Absent \in Content
      /\ Partial(w) \in Content /\ "private" \in Key /\ "public" \in Key
  BY DEF Writers, DirInv, Content, Key
<1>s. /\ \A k \in Key : /\ <<"check", k>> \in Step /\ <<"stage", k>> \in Step
                        /\ <<"sync staged", k>> \in Step
                        /\ <<"back up", k>> \in Step /\ <<"commit", k>> \in Step
                        /\ <<"sync", k>> \in Step
      /\ <<"verify">> \in Step /\ <<"best effort">> \in Step
      /\ <<"chmod">> \in Step /\ <<"ok">> \in Step /\ <<"error">> \in Step
      /\ <<"killed">> \in Step /\ <<"none">> \in Step
  BY DEF Step
<1>1. ASSUME NEW k \in Key, NEW next \in Step, CheckTarget(w, k, next)
      PROVE  KeyType' /\ LeavesOut
  BY <1>1, <1>s, GotoType, ReturnType, QuietLeavesOut, ReturnLeavesOut
  DEF CheckTarget
<1>2. ASSUME NEW k \in Key, Stage(w, k)
      PROVE  KeyType' /\ LeavesOut
  <2>1. CASE Change(With(Staged(k, w), Partial(w))) /\ Goto(w, <<"sync staged", k>>)
    <3>1. /\ With(Staged(k, w), Partial(w)) \in Directories
          /\ With(Staged(k, w), Partial(w))[Out] = dir[Out]
      BY <1>0, StagedNames, WithFile, TargetNames
    <3> QED BY <1>s, <2>1, <3>1, GotoType, ChangeLeavesOut
  <2>2. CASE Return(w, <<"error">>)
    BY <1>s, <2>2, ReturnType, ReturnLeavesOut
  <2> QED BY <1>2, <2>1, <2>2 DEF Stage
<1>14. ASSUME NEW k \in Key, NEW next \in Step, SyncStaged(w, k, next)
       PROVE  KeyType' /\ LeavesOut
  BY <1>14, <1>s, GotoType, ReturnType, FileSyncLeavesOut, ReturnLeavesOut
  DEF SyncStaged
<1>3. CASE verifyStagedPair(w)
  BY <1>0, <1>3, <1>s, GotoType, ReturnType, QuietLeavesOut, ReturnLeavesOut
  DEF verifyStagedPair
<1>4. ASSUME NEW k \in Key, NEW next \in Step, backupExisting(w, k, next)
      PROVE  KeyType' /\ LeavesOut
  <2>1. CASE Goto(w, next) /\ UNCHANGED dirVars
    BY <2>1, GotoType, QuietLeavesOut
  <2>2. CASE /\ Change(Moved(Target(k), Backup(k, w)))
             /\ bak' = [bak EXCEPT ![w] = @ \cup {k}]
             /\ pc' = [pc EXCEPT ![w] = next]
             /\ UNCHANGED <<todo, after, stuck>>
    <3>1. LeavesOut
      BY <1>0, <2>2, TargetNames, BackupNames, MovedFile, ChangeLeavesOut
    <3>2. KeyType'
      BY <2>2, SameWriters DEF KeyType
    <3> QED BY <3>1, <3>2
  <2>3. CASE /\ BestEffort(w, restoreBackup(w, "private", bak[w]), <<"error">>)
             /\ UNCHANGED dirVars
    BY <1>0, <2>3, PlansAreOperations, BestEffortType, QuietLeavesOut
  <2> QED BY <1>4, <2>1, <2>2, <2>3 DEF backupExisting
<1>5. /\ Restored(w) \in Seq(Operation(w))
      /\ RemoveFile(Target("private")) \o Restored(w) \in Seq(Operation(w))
      /\ PublicFailed(w) \in Seq(Operation(w))
      /\ \A k, l \in Key :
            removeBackup(w, k) \o removeBackup(w, l) \in Seq(Operation(w))
  <2>1. Restored(w) \in Seq(Operation(w)) /\ PublicFailed(w) \in Seq(Operation(w))
    BY <1>0, PlansAreOperations, ConcatProperties DEF Restored, PublicFailed
  <2>2. \A k, l \in Key :
            removeBackup(w, k) \o removeBackup(w, l) \in Seq(Operation(w))
    BY PlansAreOperations, ConcatProperties
  <2>3. RemoveFile(Target("private")) \o Restored(w) \in Seq(Operation(w))
    BY <1>0, <2>1, PlansAreOperations, ConcatProperties
  <2> QED BY <2>1, <2>2, <2>3
<1>6. CASE CommitPrivate(w)
  <2>1. CASE Change(Moved(Staged("private", w), Target("private")))
                /\ Goto(w, <<"sync", "private">>)
    <3>1. LeavesOut
      BY <1>0, <2>1, TargetNames, StagedNames, MovedLeavesOut
    <3> QED BY <1>0, <1>s, <2>1, <3>1, GotoType
  <2>2. CASE BestEffort(w, Restored(w), <<"error">>) /\ UNCHANGED dirVars
    BY <1>5, <2>2, BestEffortType, QuietLeavesOut
  <2> QED BY <1>6, <2>1, <2>2 DEF CommitPrivate
<1>7. CASE SyncPrivate(w)
  BY <1>0, <1>5, <1>7, <1>s, GotoType, BestEffortType, SyncLeavesOut
  DEF SyncPrivate
<1>8. CASE CommitPublic(w)
  <2>1. CASE Change(Moved(Staged("public", w), Target("public")))
                /\ Goto(w, <<"sync", "public">>)
    <3>1. LeavesOut
      BY <1>0, <2>1, TargetNames, StagedNames, MovedLeavesOut
    <3> QED BY <1>0, <1>s, <2>1, <3>1, GotoType
  <2>2. CASE BestEffort(w, PublicFailed(w), <<"error">>) /\ UNCHANGED dirVars
    BY <1>5, <2>2, BestEffortType, QuietLeavesOut
  <2> QED BY <1>8, <2>1, <2>2 DEF CommitPublic
<1>9. CASE SyncPublic(w)
  BY <1>0, <1>5, <1>9, BestEffortType, SyncLeavesOut DEF SyncPublic
<1>10. CASE Chmod(w)
  BY <1>s, <1>10, ReturnType, ReturnLeavesOut DEF Chmod
<1>11. CASE Try(w)
  <2>1. todo[w] \in Seq(Operation(w)) /\ todo[w] # <<>>
    BY <1>11 DEF Try, KeyType
  <2>2. Head(todo[w]) \in Operation(w) /\ Tail(todo[w]) \in Seq(Operation(w))
    BY <2>1, HeadTailProperties
  <2>3. LeavesOut
    BY <1>11, <2>2, EffectLeavesOut, ChangeLeavesOut, QuietLeavesOut DEF Try
  <2>4. /\ todo' = [todo EXCEPT ![w] = Tail(todo[w])]
        /\ UNCHANGED <<pc, bak, after>> /\ stuck' \in BOOLEAN
    BY <1>11 DEF Try, KeyType
  <2>5. KeyType'
    BY <2>2, <2>4, SameWriters DEF KeyType
  <2> QED BY <2>3, <2>5
<1>12. CASE Tried(w)
  <2>1. after[w] \in Step
    BY <1>s DEF KeyType
  <2> QED BY <1>12, <1>s, <2>1, GotoType, ReturnType, QuietLeavesOut,
             ReturnLeavesOut DEF Tried
<1>13. CASE Kill(w)
  BY <1>13, <1>s, GotoType, QuietLeavesOut DEF Kill
<1> QED BY <1>0, <1>s, <1>1, <1>2, <1>3, <1>4, <1>6, <1>7, <1>8, <1>9, <1>10,
           <1>11, <1>12, <1>13, <1>14 DEF WriteKeyFiles

-----------------------------------------------------------------------------
(***************************************************************************)
(* The steps of issue and revoke-list leave the key files alone.           *)
(***************************************************************************)
LeavesKeys ==
    /\ dir' \in onDisk' /\ onDisk' \subseteq Directories
    /\ \A n \in Names : dir'[n] = dir[n]
    /\ \A e \in onDisk' : \E d \in onDisk : \A n \in Names : e[n] = d[n]

(***************************************************************************)
(* The output file has the name of no key file.                            *)
(***************************************************************************)
LEMMA OutIsNoKey == Out \notin Names /\ Names \subseteq FileNames
BY TargetNames, StagedNames, BackupNames DEF Names, FileNames

(***************************************************************************)
(* Writing or removing the output file leaves the key files alone.         *)
(***************************************************************************)
LEMMA OutChange ==
  ASSUME DirInv, NEW c \in Content, Change(With(Out, c))
  PROVE  /\ LeavesKeys
         /\ dir'[Out] = c
         /\ onDisk' = onDisk \cup {dir'}
<1>1. dir \in Directories /\ With(Out, c) \in Directories
  BY WithFile, TargetNames DEF DirInv
<1>2. dir' = With(Out, c) /\ onDisk' = onDisk \cup {dir'}
  BY DEF Change
<1>3. \A n \in Names : dir'[n] = dir[n]
  BY <1>1, <1>2, OutIsNoKey, WithFile, TargetNames
<1>4. dir'[Out] = c
  BY <1>1, <1>2, WithFile, TargetNames
<1> QED BY <1>1, <1>2, <1>3, <1>4 DEF LeavesKeys, DirInv

(***************************************************************************)
(* So does syncing its contents,                                           *)
(***************************************************************************)
LEMMA OutSync ==
  ASSUME DirInv, NEW o \in Output, FileSync(Out, Partial(o), o)
  PROVE  /\ LeavesKeys
         /\ dir'[Out] = IF dir[Out] = Partial(o) THEN o ELSE dir[Out]
         /\ \A e \in onDisk' : \E d \in onDisk :
               e[Out] = IF d[Out] = Partial(o) THEN o ELSE d[Out]
<1> DEFINE Synced(d) == IF d[Out] = Partial(o) THEN [d EXCEPT ![Out] = o] ELSE d
<1>1. dir' = Synced(dir) /\ onDisk' = {Synced(d) : d \in onDisk}
  BY DEF FileSync
<1>2. ASSUME NEW d \in Directories
      PROVE  /\ Synced(d) \in Directories
             /\ Synced(d)[Out] = IF d[Out] = Partial(o) THEN o ELSE d[Out]
             /\ \A n \in Names : Synced(d)[n] = d[n]
  BY <1>2, OutIsNoKey, TargetNames DEF Directories, Content
<1> HIDE DEF Synced
<1> QED BY <1>1, <1>2 DEF LeavesKeys, DirInv

(***************************************************************************)
(* a step that does not touch the directory,                               *)
(***************************************************************************)
LEMMA OutQuiet ==
  ASSUME DirInv, UNCHANGED dirVars
  PROVE  LeavesKeys
BY DEF dirVars, LeavesKeys, DirInv

(***************************************************************************)
(* and a sync of the directory.                                            *)
(***************************************************************************)
LEMMA OutDirSync ==
  ASSUME DirInv, NEW ok, fsyncDir(ok)
  PROVE  LeavesKeys
BY DEF fsyncDir, LeavesKeys, DirInv

(***************************************************************************)
(* Every step of issue and revoke-list keeps the types and leaves the key  *)
(* files alone.                                                            *)
(***************************************************************************)
LEMMA OutputType ==
  ASSUME DirInv, OutType, UNCHANGED given, NEW o \in Outputs,
         writeFileNoClobber(o) \/ KillOut(o)
  PROVE  OutType' /\ LeavesKeys
<1>0. /\ o \in Output /\ o \in Content /\ Partial(o) \in Content
      /\ Absent \in Content /\ temp[o] \in Content
  BY DEF Outputs, Content, OutType
<1>t. ASSUME NEW s \in OutStep, GotoOut(o, s) PROVE OutType'
  BY <1>t, SameWriters DEF GotoOut, OutType
<1>s. ASSUME NEW c \in Content, NEW s \in OutStep, Staging(o, c, s) PROVE OutType'
  BY <1>s, SameWriters DEF Staging, OutType
<1> USE DEF OutStep, Ended
<1>1. CASE CreateExclusive(o)
  BY <1>0, <1>t, <1>1, OutChange, OutQuiet DEF CreateExclusive
<1>2. CASE Write(o)
  BY <1>t, <1>2, OutQuiet DEF Write
<1>3. CASE Sync(o)
  BY <1>0, <1>t, <1>3, OutSync, OutQuiet DEF Sync
<1>4. CASE Close(o)
  BY <1>t, <1>4, OutQuiet DEF Close
<1>5. CASE Discard(o)
  BY <1>0, <1>t, <1>5, OutChange, OutQuiet DEF Discard
<1>6. CASE StageOut(o)
  BY <1>0, <1>s, <1>t, <1>6, OutQuiet DEF StageOut
<1>10. CASE SyncStagedOut(o)
  BY <1>0, <1>s, <1>t, <1>10, OutQuiet DEF SyncStagedOut
<1>7. CASE RenameOut(o)
  BY <1>0, <1>t, <1>7, OutChange, OutQuiet DEF RenameOut
<1>8. CASE SyncOut(o)
  BY <1>t, <1>8, OutDirSync DEF SyncOut
<1>9. CASE KillOut(o)
  BY <1>t, <1>9, OutQuiet DEF KillOut
<1> QED BY <1>1, <1>2, <1>3, <1>4, <1>5, <1>6, <1>7, <1>8, <1>9, <1>10
        DEF writeFileNoClobber

(***************************************************************************)
(* The types hold at the start and are kept by every step.                 *)
(***************************************************************************)
LEMMA TypeInit == Init => TypeInv
<1> SUFFICES ASSUME Init PROVE TypeInv
  OBVIOUS
<1>1. GivenInv
  BY IssuerFilesConstants DEF Init, GivenInv
<1>2. DirInv
  BY <1>1 DEF Init, DirInv, DirectoryInit, GivenInv, Directories, FileNames,
              Content, Targets
<1>3. KeyType
  <2>1. \A w \in Writers : FirstStep(w) \in Step
    BY <1>1 DEF FirstStep, Step, Key
  <2>2. \A w \in Writers : <<>> \in Seq(Operation(w))
    BY EmptySeq
  <2>3. KeyInit
    BY DEF Init
  <2>4. todo = [w \in Writers |-> <<>>]
    BY <2>3 DEF KeyInit
  <2>5. /\ DOMAIN todo = Writers /\ todo = [w \in Writers |-> todo[w]]
        /\ \A w \in Writers : todo[w] \in Seq(Operation(w))
    BY <2>2, <2>4
  <2> QED BY <2>1, <2>3, <2>5 DEF KeyInit, KeyType
<1>4. OutType
  BY DEF Init, OutputInit, OutType, OutStep, First, Content
<1> QED BY <1>1, <1>2, <1>3, <1>4 DEF TypeInv

(***************************************************************************)
(* Every step keeps the types.                                             *)
(***************************************************************************)
LEMMA TypeNext == TypeInv /\ [Next]_vars => TypeInv'
<1> SUFFICES ASSUME TypeInv, [Next]_vars PROVE TypeInv'
  OBVIOUS
<1> USE DEF TypeInv
<1>1. UNCHANGED given /\ GivenInv'
  BY DEF Next, Keygen, WriteOut, LosePower, vars, given, GivenInv
<1>2. CASE Keygen
  <2>1. KeyType' /\ LeavesOut /\ UNCHANGED outVars
    BY <1>1, <1>2, KeygenType DEF Keygen
  <2>2. DirInv'
    BY <2>1 DEF LeavesOut, DirInv
  <2> QED BY <1>1, <2>1, <2>2, SameWriters DEF OutType, outVars
<1>3. CASE WriteOut
  <2>1. OutType' /\ LeavesKeys /\ UNCHANGED kvars
    BY <1>1, <1>3, OutputType DEF WriteOut
  <2>2. DirInv'
    BY <2>1 DEF LeavesKeys, DirInv
  <2> QED BY <1>1, <2>1, <2>2, SameWriters DEF KeyType, kvars, local
<1>4. CASE LosePower
  <2>1. DirInv'
    BY <1>4 DEF LosePower, PowerLoss, DirInv
  <2>2. KeyType'
    BY <1>1, <1>4, SameWriters DEF LosePower, KeysLost, KeyType, Step, local
  <2>3. OutType'
    BY <1>1, <1>4, SameWriters DEF LosePower, OutputsLost, OutType, OutStep, First, Ended
  <2> QED BY <1>1, <2>1, <2>2, <2>3
<1>5. CASE UNCHANGED vars
  BY <1>1, <1>5, SameWriters
  DEF vars, dirVars, given, kvars, local, DirInv, KeyType, OutType, outVars
<1> QED BY <1>2, <1>3, <1>4, <1>5 DEF Next

-----------------------------------------------------------------------------
(***************************************************************************)
(* The output file.  Each call keeps to the steps of its -force argument.  *)
(***************************************************************************)
ForcePath ==
    \A o \in Outputs :
        IF force[o]
        THEN at[o] \in {"stage", "sync staged", "rename", "sync dir",
                        "ok", "error", "killed"}
        ELSE at[o] \notin {"stage", "sync staged", "rename"}

(***************************************************************************)
(* What is renamed over the path is whole.                                 *)
(***************************************************************************)
StagedWhole == \A o \in Outputs : at[o] = "rename" => temp[o] = o

(***************************************************************************)
(* Without force, one call at most has created the file and has not failed *)
(* since, and it is there for as long as that call goes on.                *)
(***************************************************************************)
Creates(o) ==
    at[o] \in {"write", "sync", "discard", "close", "sync dir", "ok"}

Unforced == \A o \in Outputs : ~force[o]

OneCreator ==
    Unforced =>
        /\ start[Out] # Absent =>
              /\ \A d \in onDisk : d[Out] = start[Out]
              /\ \A o \in Outputs : at[o] \in {"create", "refused", "killed"}
        /\ \A o, p \in Outputs : Creates(o) /\ Creates(p) => o = p
        /\ \A o \in Outputs : Creates(o) => dir[Out] # Absent

(***************************************************************************)
(* While no call without force has failed: the file of one that has        *)
(* created it is there in part or whole until it has synced it, whole      *)
(* from then on, and in every directory that may survive once the          *)
(* directory is synced.                                                    *)
(***************************************************************************)
Discarded == \E o \in Outputs : ~force[o] /\ at[o] = "error"

WholeOnceSynced ==
    ~Discarded =>
        \A o \in Outputs :
          /\ at[o] \in {"write", "sync", "discard"} =>
                dir[Out] \in {Partial(o)} \cup Output
          /\ at[o] \in {"close", "sync dir"} => dir[Out] \in Output
          /\ at[o] = "ok" => \A d \in onDisk : d[Out] \in Output

OutInv ==
    ForcePath /\ StagedWhole /\ ReplacedWhole /\ OneCreator /\ WholeOnceSynced

(***************************************************************************)
(* The invariant of the output file holds at the start.                    *)
(***************************************************************************)
LEMMA OutInit == Init => OutInv
<1> SUFFICES ASSUME Init PROVE OutInv
  OBVIOUS
<1>1. TypeInv
  BY TypeInit
<1>2. \A o \in Outputs : at[o] = (IF force[o] THEN "stage" ELSE "create")
  BY DEF Init, OutputInit, First
<1>3. \A d \in onDisk : d[Out] = start[Out]
  BY <1>1, TargetNames
  DEF Init, DirectoryInit, TypeInv, GivenInv, FileNames, Targets
<1>4. ForcePath
  BY <1>1, <1>2 DEF ForcePath
<1>5. ReplacedWhole
  BY <1>3 DEF ReplacedWhole
<1>6. OneCreator
  <2>1. \A o \in Outputs : Unforced => at[o] = "create" /\ ~Creates(o)
    BY <1>2 DEF Unforced, Creates
  <2> QED BY <1>3, <2>1 DEF OneCreator
<1>7. WholeOnceSynced /\ StagedWhole
  BY <1>2 DEF WholeOnceSynced, StagedWhole
<1> QED BY <1>4, <1>5, <1>6, <1>7 DEF OutInv

(***************************************************************************)
(* Steps of keygen, and steps of nobody, show the output file nothing new. *)
(***************************************************************************)
LEMMA OutSeesNothing ==
  ASSUME OutInv, UNCHANGED given, UNCHANGED outVars, dir'[Out] = dir[Out],
         \A e \in onDisk' : \E d \in onDisk : e[Out] = d[Out]
  PROVE  OutInv'
<1>1. /\ Outputs' = Outputs /\ force' = force /\ start' = start
      /\ at' = at /\ temp' = temp
  BY SameWriters DEF outVars
<1>2. ForcePath'
  BY <1>1 DEF OutInv, ForcePath
<1>3. ReplacedWhole'
  BY <1>1 DEF OutInv, ReplacedWhole
<1>4. OneCreator'
  <2>1. (Unforced' <=> Unforced) /\ \A o \in Outputs : (Creates(o)' <=> Creates(o))
    BY <1>1 DEF Unforced, Creates
  <2> QED BY <1>1, <2>1 DEF OutInv, OneCreator
<1>5. WholeOnceSynced' /\ StagedWhole'
  BY <1>1 DEF OutInv, WholeOnceSynced, Discarded, StagedWhole
<1> QED BY <1>2, <1>3, <1>4, <1>5 DEF OutInv

(***************************************************************************)
(* The steps that do not touch the directory.                              *)
(***************************************************************************)
QuietStep ==
    {<<"create", "refused">>, <<"write", "sync">>, <<"write", "discard">>,
     <<"sync", "discard">>, <<"close", "sync dir">>, <<"close", "error">>,
     <<"discard", "error">>, <<"stage", "sync staged">>, <<"stage", "error">>,
     <<"sync staged", "rename">>, <<"sync staged", "error">>,
     <<"rename", "error">>}
        \cup {<<s, "killed">> : s \in OutStep \ Ended}

(***************************************************************************)
(* A step of a command that does not touch the directory keeps it.         *)
(***************************************************************************)
LEMMA OutQuietKeeps ==
  ASSUME TypeInv, OutInv, UNCHANGED given, UNCHANGED dirVars, NEW o \in Outputs,
         NEW s, <<at[o], s>> \in QuietStep, at' = [at EXCEPT ![o] = s], StagedWhole'
  PROVE  OutInv'
<1>0. /\ Outputs' = Outputs /\ force' = force /\ start' = start
      /\ dir' = dir /\ onDisk' = onDisk
      /\ \A p \in Outputs : at'[p] = IF p = o THEN s ELSE at[p]
  BY SameWriters DEF TypeInv, OutType, dirVars
<1>1. /\ s = "rename" => at[o] = "sync staged"
      /\ s = "sync staged" => at[o] = "stage"
      /\ s \in {"sync", "discard"} => at[o] \in {"write", "sync"}
      /\ s = "sync dir" => at[o] = "close"
      /\ s \notin {"stage", "create", "write", "close", "ok"}
      /\ s = "refused" => at[o] = "create"
      /\ at[o] \notin {"ok", "refused", "error", "killed"}
      /\ at[o] \in {"stage", "sync staged", "rename", "sync dir"} =>
            s \in {"sync staged", "rename", "error", "killed"}
      /\ s = "error" =>
            at[o] \in {"close", "discard", "stage", "sync staged", "rename"}
  BY DEF QuietStep, Ended
<1>2. ForcePath'
  BY <1>0, <1>1 DEF OutInv, ForcePath
<1>3. ReplacedWhole'
  BY <1>0 DEF OutInv, ReplacedWhole
<1>4. OneCreator'
  <2>1. Unforced' <=> Unforced
    BY <1>0 DEF Unforced
  <2>2. \A p \in Outputs : Creates(p)' => Creates(p)
    BY <1>0, <1>1 DEF Creates
  <2>3. ASSUME Unforced, start[Out] # Absent
        PROVE  \A p \in Outputs : at'[p] \in {"create", "refused", "killed"}
    <3>1. at[o] \in {"create", "refused", "killed"}
      BY <2>3 DEF OutInv, OneCreator
    <3>2. s \in {"refused", "killed"}
      BY <3>1 DEF QuietStep, Ended
    <3> QED BY <1>0, <2>3, <3>2 DEF OutInv, OneCreator
  <2> QED BY <1>0, <2>1, <2>2, <2>3 DEF OutInv, OneCreator
<1>5. WholeOnceSynced'
  <2>1. Discarded => Discarded'
    BY <1>0, <1>1 DEF Discarded
  <2> QED BY <1>0, <1>1, <2>1 DEF OutInv, WholeOnceSynced
<1> QED BY <1>2, <1>3, <1>4, <1>5 DEF OutInv

(***************************************************************************)
(* Every step of issue and revoke-list keeps the invariant.                *)
(***************************************************************************)
LEMMA OutKeeps ==
  ASSUME TypeInv, OutInv, UNCHANGED given, NEW o \in Outputs,
         writeFileNoClobber(o) \/ KillOut(o)
  PROVE  OutInv'
<1>0. /\ DirInv /\ dir \in onDisk
      /\ Outputs' = Outputs /\ force' = force /\ start' = start
      /\ o \in Output /\ o # Absent /\ Partial(o) # Absent
      /\ o \in Content /\ Partial(o) \in Content /\ Absent \in Content
      /\ Absent \notin Output
  BY SameWriters, IssuerFilesConstants DEF TypeInv, DirInv, Outputs, Content
<1>t. ASSUME NEW s, GotoOut(o, s)
      PROVE  /\ \A p \in Outputs : at'[p] = IF p = o THEN s ELSE at[p]
             /\ s # "rename" => StagedWhole'
  <2>1. at' = [at EXCEPT ![o] = s] /\ temp' = temp /\ at \in [Outputs -> OutStep]
    BY <1>t DEF GotoOut, TypeInv, OutType
  <2> QED BY <1>0, <2>1 DEF OutInv, StagedWhole
<1>s. ASSUME NEW c, NEW s, Staging(o, c, s), s = "rename" => c = o
      PROVE  StagedWhole' /\ at' = [at EXCEPT ![o] = s]
  <2>1. /\ at' = [at EXCEPT ![o] = s] /\ temp' = [temp EXCEPT ![o] = c]
        /\ at \in [Outputs -> OutStep] /\ temp \in [Outputs -> Content]
    BY <1>s DEF Staging, TypeInv, OutType
  <2> QED BY <1>0, <1>s, <2>1 DEF OutInv, StagedWhole
<1>u. Unforced' <=> Unforced
  BY <1>0 DEF Unforced
<1>q. ASSUME NEW s, <<at[o], s>> \in QuietStep, UNCHANGED dirVars,
             GotoOut(o, s), s # "rename"
      PROVE  OutInv'
  BY <1>q, <1>t, OutQuietKeeps DEF GotoOut
<1>1. CASE CreateExclusive(o)
  <2>1. CASE dir[Out] = Absent /\ Change(With(Out, Partial(o))) /\ GotoOut(o, "write")
    <3>1. /\ dir'[Out] = Partial(o) /\ onDisk' = onDisk \cup {dir'}
          /\ at[o] = "create" /\ ~force[o]
          /\ \A p \in Outputs : at'[p] = IF p = o THEN "write" ELSE at[p]
      BY <1>0, <1>1, <1>t, <2>1, OutChange DEF CreateExclusive, OutInv, ForcePath
    <3>2. ForcePath' /\ StagedWhole'
      BY <1>0, <1>t, <2>1, <3>1 DEF OutInv, ForcePath
    <3>3. ReplacedWhole'
      BY <1>0, <3>1 DEF ReplacedWhole
    <3>4. OneCreator'
      <4>1. Unforced => start[Out] = Absent /\ \A p \in Outputs : ~Creates(p)
        BY <1>0, <2>1 DEF OutInv, OneCreator
      <4>2. /\ Creates(o)'
            /\ \A p \in Outputs \ {o} : Creates(p)' <=> Creates(p)
        BY <3>1 DEF Creates
      <4> QED BY <1>0, <1>u, <3>1, <4>1, <4>2 DEF OneCreator
    <3>5. WholeOnceSynced'
      <4>1. Discarded' <=> Discarded
        BY <1>0, <3>1 DEF Discarded
      <4>2. ~Discarded => \A p \in Outputs \ {o} :
              /\ at[p] \in {"write", "sync", "discard"} => dir[Out] = Partial(p)
              /\ at[p] \notin {"close", "sync dir", "ok"}
        BY <1>0, <2>1 DEF OutInv, WholeOnceSynced
      <4>3. \A p \in Outputs : Partial(p) # Absent
        BY IssuerFilesConstants DEF Outputs
      <4> QED BY <1>0, <2>1, <3>1, <4>1, <4>2, <4>3 DEF WholeOnceSynced
    <3> QED BY <3>2, <3>3, <3>4, <3>5 DEF OutInv
  <2>2. CASE UNCHANGED dirVars /\ GotoOut(o, "refused")
    BY <1>1, <1>q, <2>2 DEF CreateExclusive, QuietStep
  <2> QED BY <1>1, <2>1, <2>2 DEF CreateExclusive
<1>2. CASE Write(o)
  BY <1>2, <1>q DEF Write, QuietStep
<1>3. CASE Sync(o)
  <2>1. CASE FileSync(Out, Partial(o), o) /\ GotoOut(o, "close")
    <3>1. /\ dir'[Out] = IF dir[Out] = Partial(o) THEN o ELSE dir[Out]
          /\ \A e \in onDisk' : \E d \in onDisk :
                e[Out] = IF d[Out] = Partial(o) THEN o ELSE d[Out]
          /\ at[o] = "sync" /\ ~force[o]
          /\ \A p \in Outputs : at'[p] = IF p = o THEN "close" ELSE at[p]
      BY <1>0, <1>3, <1>t, <2>1, OutSync DEF Sync, OutInv, ForcePath
    <3>2. ForcePath' /\ StagedWhole'
      BY <1>0, <1>t, <2>1, <3>1 DEF OutInv, ForcePath
    <3>3. ReplacedWhole'
      BY <1>0, <3>1 DEF ReplacedWhole
    <3>4. OneCreator'
      <4>1. Unforced => start[Out] = Absent
        BY <3>1 DEF OutInv, OneCreator
      <4>2. \A p \in Outputs : Creates(p)' <=> Creates(p)
        BY <3>1 DEF Creates
      <4> QED BY <1>0, <1>u, <3>1, <4>1, <4>2 DEF OutInv, OneCreator
    <3>5. WholeOnceSynced'
      <4>1. Discarded' <=> Discarded
        BY <1>0, <3>1 DEF Discarded
      <4>2. ~Discarded => dir'[Out] \in Output
        BY <1>0, <3>1 DEF OutInv, WholeOnceSynced
      <4> QED BY <1>0, <3>1, <4>1, <4>2 DEF OutInv, WholeOnceSynced
    <3> QED BY <3>2, <3>3, <3>4, <3>5 DEF OutInv
  <2>2. CASE UNCHANGED dirVars /\ GotoOut(o, "discard")
    BY <1>3, <1>q, <2>2 DEF Sync, QuietStep
  <2> QED BY <1>3, <2>1, <2>2 DEF Sync
<1>4. CASE Close(o)
  BY <1>4, <1>q DEF Close, QuietStep
<1>5. CASE Discard(o)
  <2>1. CASE Change(With(Out, Absent)) /\ GotoOut(o, "error")
    <3>1. /\ dir'[Out] = Absent /\ onDisk' = onDisk \cup {dir'}
          /\ at[o] = "discard" /\ ~force[o]
          /\ \A p \in Outputs : at'[p] = IF p = o THEN "error" ELSE at[p]
      BY <1>0, <1>5, <1>t, <2>1, OutChange DEF Discard, OutInv, ForcePath
    <3>2. ForcePath' /\ StagedWhole'
      BY <1>0, <1>t, <2>1, <3>1 DEF OutInv, ForcePath
    <3>3. ReplacedWhole'
      BY <1>0, <3>1 DEF ReplacedWhole
    <3>4. OneCreator'
      <4>1. Unforced => start[Out] = Absent
        BY <3>1 DEF OutInv, OneCreator
      <4>2. Creates(o) /\ ~Creates(o)'
            /\ \A p \in Outputs \ {o} : Creates(p)' <=> Creates(p)
        BY <3>1 DEF Creates
      <4>3. Unforced => \A p \in Outputs : ~Creates(p)'
        BY <4>2 DEF OutInv, OneCreator
      <4> QED BY <1>0, <1>u, <4>1, <4>3 DEF OneCreator
    <3>5. WholeOnceSynced'
      <4>1. Discarded'
        BY <1>0, <3>1 DEF Discarded
      <4> QED BY <4>1 DEF WholeOnceSynced
    <3> QED BY <3>2, <3>3, <3>4, <3>5 DEF OutInv
  <2>2. CASE UNCHANGED dirVars /\ GotoOut(o, "error")
    BY <1>5, <1>q, <2>2 DEF Discard, QuietStep
  <2> QED BY <1>5, <2>1, <2>2 DEF Discard
<1>6. CASE StageOut(o)
  <2>1. CASE Staging(o, Partial(o), "sync staged")
    BY <1>6, <1>s, <2>1, OutQuietKeeps DEF StageOut, QuietStep
  <2>2. CASE GotoOut(o, "error")
    BY <1>6, <1>q, <2>2 DEF StageOut, QuietStep
  <2> QED BY <1>6, <2>1, <2>2 DEF StageOut
<1>10. CASE SyncStagedOut(o)
  <2>1. CASE Staging(o, o, "rename")
    BY <1>10, <1>s, <2>1, OutQuietKeeps DEF SyncStagedOut, QuietStep
  <2>2. CASE GotoOut(o, "error")
    BY <1>10, <1>q, <2>2 DEF SyncStagedOut, QuietStep
  <2> QED BY <1>10, <2>1, <2>2 DEF SyncStagedOut
<1>7. CASE RenameOut(o)
  <2>1. CASE Change(With(Out, temp[o])) /\ GotoOut(o, "sync dir")
    <3>0. temp[o] = o
      BY <1>7 DEF RenameOut, OutInv, StagedWhole
    <3>1. /\ dir'[Out] = o /\ onDisk' = onDisk \cup {dir'}
          /\ at[o] = "rename" /\ force[o]
          /\ \A p \in Outputs : at'[p] = IF p = o THEN "sync dir" ELSE at[p]
      BY <1>0, <1>7, <1>t, <2>1, <3>0, OutChange DEF RenameOut, OutInv, ForcePath
    <3>2. ForcePath' /\ StagedWhole'
      BY <1>0, <1>t, <2>1, <3>1 DEF OutInv, ForcePath
    <3>3. ReplacedWhole'
      BY <1>0, <3>1 DEF OutInv, ReplacedWhole
    <3>4. OneCreator'
      BY <1>u, <3>1 DEF OneCreator, Unforced
    <3>5. WholeOnceSynced'
      <4>1. Discarded' <=> Discarded
        BY <1>0, <3>1 DEF Discarded
      <4> QED BY <1>0, <3>1, <4>1 DEF OutInv, WholeOnceSynced
    <3> QED BY <3>2, <3>3, <3>4, <3>5 DEF OutInv
  <2>2. CASE UNCHANGED dirVars /\ GotoOut(o, "error")
    BY <1>7, <1>q, <2>2 DEF RenameOut, QuietStep
  <2> QED BY <1>7, <2>1, <2>2 DEF RenameOut
<1>8. CASE SyncOut(o)
  <2>1. PICK ok \in BOOLEAN :
           /\ dir' = dir /\ dir \in onDisk' /\ onDisk' \subseteq onDisk
           /\ ok => onDisk' = {dir}
           /\ GotoOut(o, IF ok THEN "ok" ELSE "error")
    BY <1>0, <1>8 DEF SyncOut, fsyncDir
  <2> DEFINE s == IF ok THEN "ok" ELSE "error"
  <2>2. /\ at[o] = "sync dir" /\ s \in {"ok", "error"}
        /\ \A p \in Outputs : at'[p] = IF p = o THEN s ELSE at[p]
    BY <1>8, <1>t, <2>1 DEF SyncOut
  <2>3. ForcePath' /\ StagedWhole'
    BY <1>0, <1>t, <2>1, <2>2 DEF OutInv, ForcePath
  <2>4. ReplacedWhole'
    BY <1>0, <2>1 DEF OutInv, ReplacedWhole
  <2>5. OneCreator'
    <3>1. Unforced => start[Out] = Absent
      BY <2>2 DEF OutInv, OneCreator
    <3>2. \A p \in Outputs : Creates(p)' => Creates(p)
      BY <2>2 DEF Creates
    <3> QED BY <1>0, <1>u, <2>1, <3>1, <3>2 DEF OutInv, OneCreator
  <2>6. WholeOnceSynced'
    <3>1. Discarded => Discarded'
      BY <1>0, <2>2 DEF Discarded
    <3>2. ~Discarded => dir[Out] \in Output
      BY <2>2 DEF OutInv, WholeOnceSynced
    <3>3. s = "ok" => onDisk' = {dir}
      BY <2>1
    <3> HIDE DEF s
    <3> QED BY <1>0, <2>1, <2>2, <3>1, <3>2, <3>3 DEF OutInv, WholeOnceSynced
  <2> QED BY <2>3, <2>4, <2>5, <2>6 DEF OutInv
<1>9. CASE KillOut(o)
  BY <1>9, <1>q DEF KillOut, QuietStep, TypeInv, OutType
<1> QED BY <1>1, <1>2, <1>3, <1>4, <1>5, <1>6, <1>7, <1>8, <1>9, <1>10
        DEF writeFileNoClobber

(***************************************************************************)
(* Every step of the system keeps it.                                      *)
(***************************************************************************)
LEMMA OutNext == TypeInv /\ OutInv /\ [Next]_vars => OutInv'
<1> SUFFICES ASSUME TypeInv, OutInv, [Next]_vars PROVE OutInv'
  OBVIOUS
<1>1. UNCHANGED given
  BY DEF Next, Keygen, WriteOut, LosePower, vars, given
<1>2. CASE Keygen
  <2>1. LeavesOut /\ UNCHANGED outVars
    BY <1>1, <1>2, KeygenType DEF Keygen, TypeInv
  <2>2. dir \in onDisk
    BY DEF TypeInv, DirInv
  <2> QED BY <1>1, <2>1, <2>2, OutSeesNothing DEF LeavesOut
<1>3. CASE WriteOut
  BY <1>1, <1>3, OutKeeps DEF WriteOut
<1>4. CASE LosePower
  <2>1. /\ Outputs' = Outputs /\ force' = force /\ start' = start
        /\ dir' \in onDisk /\ onDisk' = {dir'}
        /\ \A o \in Outputs :
              at'[o] = IF at[o] = First(o) THEN First(o) ELSE "killed"
    BY <1>1, <1>4, SameWriters DEF LosePower, PowerLoss, OutputsLost
  <2>2. \A o \in Outputs :
          /\ force[o] => at'[o] \in {"stage", "killed"}
          /\ ~force[o] => at'[o] \in {"create", "killed"}
    BY <2>1 DEF First
  <2>3. ForcePath' /\ StagedWhole'
    BY <2>1, <2>2 DEF ForcePath, StagedWhole
  <2>4. ReplacedWhole'
    BY <2>1 DEF OutInv, ReplacedWhole
  <2>5. OneCreator'
    <3>1. Unforced' <=> Unforced
      BY <2>1 DEF Unforced
    <3>2. Unforced => \A o \in Outputs :
            at'[o] \in {"create", "killed"} /\ ~Creates(o)'
      BY <2>2 DEF Unforced, Creates
    <3> QED BY <2>1, <3>1, <3>2 DEF OutInv, OneCreator
  <2>6. WholeOnceSynced'
    BY <2>1, <2>2 DEF WholeOnceSynced
  <2> QED BY <2>3, <2>4, <2>5, <2>6 DEF OutInv
<1>5. CASE UNCHANGED vars
  BY <1>1, <1>5, OutSeesNothing DEF vars, dirVars, given
<1> QED BY <1>2, <1>3, <1>4, <1>5 DEF Next

(***************************************************************************)
(* It holds always.                                                        *)
(***************************************************************************)
LEMMA OutAlways == Spec => [](TypeInv /\ OutInv)
<1>1. Init => TypeInv /\ OutInv
  BY TypeInit, OutInit
<1>2. TypeInv /\ OutInv /\ [Next]_vars => (TypeInv /\ OutInv)'
  BY TypeNext, OutNext
<1> QED BY <1>1, <1>2, PTL DEF Spec

(***************************************************************************)
(* util.go:95: commands without -force leave a file that was there alone,  *)
(* and one of them at most reports a new one.                              *)
(***************************************************************************)
THEOREM NothingIsClobbered == Spec => []NoForceNeverClobbers
<1>1. OutInv => NoForceNeverClobbers
  BY DEF OutInv, OneCreator, Unforced, Creates, NoForceNeverClobbers
<1> QED BY <1>1, OutAlways, PTL

(***************************************************************************)
(* util.go:99-100: a file that has been reported as written is whole after *)
(* every power loss, unless a command without -force has failed.           *)
(***************************************************************************)
THEOREM ReportedIsWhole == Spec => []ReportedOutputSurvives
<1>1. OutInv => ReportedOutputSurvives
  BY DEF OutInv, WholeOnceSynced, Discarded, ReportedOutputSurvives
<1> QED BY <1>1, OutAlways, PTL

(***************************************************************************)
(* util.go: with -force the path holds the old file or a whole new one,    *)
(* whoever fails, is killed or loses power.                                *)
(***************************************************************************)
THEOREM NeverTruncatedFirst == Spec => []ReplacedWhole
<1>1. OutInv => ReplacedWhole
  BY DEF OutInv
<1> QED BY <1>1, OutAlways, PTL

-----------------------------------------------------------------------------
(***************************************************************************)
(* The key files, of which one call of keygen at a time is made: two calls *)
(* for one key id may take each other's files away.                        *)
(***************************************************************************)
OneKeygen == \A c \in Calls : \A v, w \in Writer \cap DOMAIN c : v = w

Former(k) == start[Target(k)]

(***************************************************************************)
(* What holds of every directory that may survive.                         *)
(***************************************************************************)
Sound(d, w) ==
    /\ \A k \in Key :
          /\ d[Target(k)] \in {Old, Absent, w}
          /\ d[Backup(k, w)] \in {Old, Absent}
          /\ d[Staged(k, w)] \in {w, Partial(w), Absent}
    /\ Former("private") # Absent =>
          d[Target("private")] # Absent \/ d[Backup("private", w)] # Absent
    /\ d[Target("public")] = w => d[Target("private")] = w

Untouched(d, w) ==
    \A k \in Key : d[Target(k)] = Former(k) /\ d[Backup(k, w)] = Absent

(***************************************************************************)
(* The call has backed up the file of key k, if there was one.             *)
(***************************************************************************)
Aside(k, w) ==
    /\ dir[Backup(k, w)] = Former(k)
    /\ k \in bak[w] <=> Former(k) # Absent

(***************************************************************************)
(* The steps of a call in their order; a call that is killed is past all.  *)
(***************************************************************************)
Rank(s) ==
    CASE s = <<"check", "private">>   -> 1
      [] s = <<"check", "public">>    -> 2
      [] s = <<"stage", "private">>   -> 3
      [] s = <<"stage", "public">>    -> 4
      [] s = <<"sync staged", "private">> -> 3
      [] s = <<"sync staged", "public">>  -> 4
      [] s = <<"verify">>             -> 5
      [] s = <<"back up", "private">> -> 6
      [] s = <<"back up", "public">>  -> 7
      [] s = <<"commit", "private">>  -> 8
      [] s = <<"sync", "private">>    -> 9
      [] s = <<"commit", "public">>   -> 10
      [] s = <<"sync", "public">>     -> 11
      [] s = <<"best effort">>        -> 12
      [] s = <<"chmod">>              -> 13
      [] s = <<"ok">>                 -> 14
      [] s = <<"error">>              -> 15
      [] OTHER                        -> 16

(***************************************************************************)
(* The numbers of the steps.                                               *)
(***************************************************************************)
LEMMA Ranks ==
  /\ Rank(<<"check", "private">>) = 1
  /\ Rank(<<"check", "public">>) = 2
  /\ Rank(<<"stage", "private">>) = 3
  /\ Rank(<<"stage", "public">>) = 4
  /\ Rank(<<"sync staged", "private">>) = 3
  /\ Rank(<<"sync staged", "public">>) = 4
  /\ Rank(<<"verify">>) = 5
  /\ Rank(<<"back up", "private">>) = 6
  /\ Rank(<<"back up", "public">>) = 7
  /\ Rank(<<"commit", "private">>) = 8
  /\ Rank(<<"sync", "private">>) = 9
  /\ Rank(<<"commit", "public">>) = 10
  /\ Rank(<<"sync", "public">>) = 11
  /\ Rank(<<"best effort">>) = 12
  /\ Rank(<<"chmod">>) = 13
  /\ Rank(<<"ok">>) = 14
  /\ Rank(<<"error">>) = 15
  /\ Rank(<<"killed">>) = 16
BY DEF Rank

(***************************************************************************)
(* The files at each step of a call that goes well.                        *)
(***************************************************************************)
StepInv(w) ==
    /\ Rank(pc[w]) \in 1..6 =>
          bak[w] = {} /\ \A d \in onDisk : Untouched(d, w)
    /\ Rank(pc[w]) = 7 =>
          /\ Aside("private", w) /\ dir[Target("private")] = Absent
          /\ "public" \notin bak[w]
          /\ dir[Target("public")] = Former("public")
          /\ dir[Backup("public", w)] = Absent
    /\ Rank(pc[w]) = 8 =>
          \A k \in Key : Aside(k, w) /\ dir[Target(k)] = Absent
    /\ Rank(pc[w]) \in 9..10 =>
          /\ \A k \in Key : Aside(k, w)
          /\ dir[Target("private")] = w /\ dir[Target("public")] = Absent
    /\ Rank(pc[w]) = 11 =>
          \A k \in Key : Aside(k, w) /\ dir[Target(k)] = w

Syncing(w, k) == pc[w] = <<"sync staged", k>>

StagedInv(w) ==
    /\ Rank(pc[w]) \in 4..8 => dir[Staged("private", w)] = w
    /\ Rank(pc[w]) \in 5..10 => dir[Staged("public", w)] = w
    /\ Rank(pc[w]) \in 9..11 => dir[Staged("private", w)] = Absent
    /\ Rank(pc[w]) = 11 => dir[Staged("public", w)] = Absent
    /\ Rank(pc[w]) \in 3..4 =>
          \A k \in Key : Syncing(w, k) => dir[Staged(k, w)] = Partial(w)

(***************************************************************************)
(* The best-effort operations that are left: the target is removed before  *)
(* its backup, which is there, is put back once; a backup is removed only  *)
(* if the new key is in its place and stays there; a key that has no       *)
(* restoring to come is in place, unless one has failed.                   *)
(***************************************************************************)
Has(s, o) == \E i \in DOMAIN s : s[i] = o

Touches(s, k, w) == Has(s, Removal(Target(k))) \/ Has(s, Restoring(k, w))

Ordered(s, w) ==
    \A k \in Key : \A i, j \in DOMAIN s :
        s[i] = Restoring(k, w) /\ s[j] \in {Restoring(k, w), Removal(Target(k))}
            => j <= i

PlanInv(s, w) ==
    /\ Ordered(s, w)
    /\ \A k \in Key :
          /\ Has(s, Removal(Backup(k, w))) =>
                dir[Target(k)] = w /\ ~Touches(s, k, w)
          /\ Has(s, Restoring(k, w)) => dir[Backup(k, w)] = Old
          /\ Former(k) # Absent /\ Has(s, Removal(Target(k))) =>
                Has(s, Restoring(k, w))
          /\ Former(k) # Absent /\ ~stuck /\ ~Has(s, Restoring(k, w)) =>
                dir[Target(k)] # Absent
    /\ dir[Target("public")] = w =>
          dir[Target("private")] = w /\ ~Touches(s, "private", w)

RecoveryInv(w) ==
    Rank(pc[w]) = 12 =>
        after[w] \in {<<"error">>, <<"chmod">>} /\ PlanInv(todo[w], w)

(***************************************************************************)
(* After the last sync the new pair is in place, and of the other files    *)
(* there are the backups that are still to be removed.                     *)
(***************************************************************************)
Succeeding(w) ==
    \/ Rank(pc[w]) = 12 /\ after[w] = <<"chmod">>
    \/ Rank(pc[w]) \in 13..14

ReportedInv(w) ==
    Succeeding(w) =>
        \A k \in Key :
          /\ \A d \in onDisk : d[Target(k)] = w
          /\ dir[Staged(k, w)] = Absent
          /\ Rank(pc[w]) = 12 => ~Touches(todo[w], k, w)
          /\ ~stuck /\ dir[Backup(k, w)] # Absent =>
                Rank(pc[w]) = 12 /\ Has(todo[w], Removal(Backup(k, w)))

EndInv(w) ==
    Rank(pc[w]) = 15 /\ ~stuck =>
        \A k \in Key : Former(k) # Absent => dir[Target(k)] # Absent

RefusedInv(w) ==
    ~force[w] /\ (\E k \in Key : Former(k) # Absent) =>
        /\ Rank(pc[w]) \in {1, 2, 15, 16}
        /\ Rank(pc[w]) = 2 => Former("private") = Absent
        /\ \A d \in onDisk, k \in Key :
              /\ d[Target(k)] = Former(k)
              /\ d[Staged(k, w)] = Absent /\ d[Backup(k, w)] = Absent

CallInv(w) ==
    /\ \A d \in onDisk : Sound(d, w)
    /\ StepInv(w) /\ StagedInv(w)
    /\ RecoveryInv(w) /\ ReportedInv(w)
    /\ EndInv(w) /\ RefusedInv(w)

(***************************************************************************)
(* Calls that are not made leave no files; if none is, the keys are left.  *)
(***************************************************************************)
OthersAbsent ==
    \A v \in Writer \ Writers, k \in Key, d \in onDisk :
        d[Staged(k, v)] = Absent /\ d[Backup(k, v)] = Absent

NoCall ==
    Writers = {} => \A d \in onDisk, k \in Key : d[Target(k)] = Former(k)

KeyInv == OthersAbsent /\ NoCall /\ \A w \in Writers : CallInv(w)

(***************************************************************************)
(* They hold at the start.                                                 *)
(***************************************************************************)
LEMMA KeysInit == Init => KeyInv
<1> SUFFICES ASSUME Init PROVE KeyInv
  OBVIOUS
<1>1. TypeInv /\ onDisk = {dir}
  BY TypeInit DEF Init, DirectoryInit
<1>2. \A k \in Key : /\ dir[Target(k)] = Former(k)
                     /\ Former(k) \in {Old, Absent}
  BY <1>1, TargetNames
  DEF Init, DirectoryInit, TypeInv, GivenInv, FileNames, Targets, Former
<1>3. ASSUME NEW w \in Writer, NEW k \in Key
      PROVE  dir[Staged(k, w)] = Absent /\ dir[Backup(k, w)] = Absent
  <2>1. /\ Staged(k, w) \in FileNames /\ Backup(k, w) \in FileNames
        /\ Staged(k, w) \notin Targets /\ Backup(k, w) \notin Targets
    BY StagedNames, BackupNames DEF Targets
  <2> QED BY <1>1, <2>1
          DEF Init, DirectoryInit, TypeInv, GivenInv, FileNames
<1>4. OthersAbsent
  BY <1>1, <1>3 DEF OthersAbsent
<1>5. ASSUME NEW w \in Writers PROVE CallInv(w)
  <2>1. w \in Writer /\ w # Absent /\ w # Old
    BY IssuerFilesConstants DEF Writers
  <2>2. /\ Rank(pc[w]) = IF force[w] THEN 3 ELSE 1
        /\ bak[w] = {}
    BY Ranks DEF Init, KeyInit, FirstStep
  <2>3. Untouched(dir, w) /\ Sound(dir, w)
    BY <1>2, <1>3, <2>1 DEF Untouched, Sound, Key
  <2>p. \A k : ~Syncing(w, k)
    BY DEF Init, KeyInit, FirstStep, Syncing
  <2>4. StepInv(w) /\ StagedInv(w) /\ EndInv(w)
    BY <1>1, <2>2, <2>3, <2>p DEF StepInv, StagedInv, EndInv
  <2>5. RecoveryInv(w) /\ ReportedInv(w)
    BY <2>2 DEF RecoveryInv, ReportedInv, Succeeding
  <2>6. RefusedInv(w)
    BY <1>1, <1>2, <1>3, <2>1, <2>2 DEF RefusedInv
  <2> QED BY <1>1, <2>3, <2>4, <2>5, <2>6 DEF CallInv
<1>6. NoCall
  BY <1>1, <1>2 DEF NoCall
<1> QED BY <1>4, <1>5, <1>6 DEF KeyInv

-----------------------------------------------------------------------------
(***************************************************************************)
(* What a step of call w shows: the files of the other calls as they were, *)
(* and of its own (and the targets) what targets, backups and staged give. *)
(***************************************************************************)
OthersKept(w) ==
    \A v \in Writer \ {w}, k \in Key :
        /\ dir'[Staged(k, v)] = dir[Staged(k, v)]
        /\ dir'[Backup(k, v)] = dir[Backup(k, v)]

Shows(w, targets, backups, staged) ==
    /\ \A k \in Key : /\ dir'[Target(k)] = targets[k]
                      /\ dir'[Backup(k, w)] = backups[k]
                      /\ dir'[Staged(k, w)] = staged[k]
    /\ OthersKept(w)

TargetsNow == [k \in Key |-> dir[Target(k)]]

BackupsNow(w) == [k \in Key |-> dir[Backup(k, w)]]

StagedNow(w) == [k \in Key |-> dir[Staged(k, w)]]

(***************************************************************************)
(* Constants, types and names, as the steps of a call w use them.          *)
(***************************************************************************)
LEMMA CallFacts ==
  ASSUME TypeInv, NEW w \in Writers
  PROVE  /\ w \in Writer /\ w # Old /\ w # Absent /\ Old # Absent
         /\ w \in Content /\ Absent \in Content
         /\ dir \in onDisk /\ dir \in Directories
         /\ \A k \in Key : Former(k) \in {Old, Absent}
         /\ "private" \in Key /\ "public" \in Key
         /\ \A k \in Key : k = "private" \/ k = "public"
BY IssuerFilesConstants, TargetNames
DEF Writers, Content, TypeInv, DirInv, GivenInv, Former, Key

(***************************************************************************)
(* A step that does not touch the directory shows every file as it was.    *)
(***************************************************************************)
LEMMA QuietShows ==
  ASSUME NEW w, dir' = dir
  PROVE  Shows(w, TargetsNow, BackupsNow(w), StagedNow(w))
BY DEF Shows, OthersKept, TargetsNow, BackupsNow, StagedNow

(***************************************************************************)
(* Staging a key shows the new staged file.                                *)
(***************************************************************************)
LEMMA StageShows ==
  ASSUME TypeInv, NEW w \in Writers, NEW k \in Key,
         Change(With(Staged(k, w), Partial(w)))
  PROVE  Shows(w, TargetsNow, BackupsNow(w), [StagedNow(w) EXCEPT ![k] = Partial(w)])
<1>1. w \in Writer /\ Partial(w) \in Content /\ dir \in Directories
  BY CallFacts DEF Content
<1>2. \A m \in FileNames :
         dir'[m] = IF m = Staged(k, w) THEN Partial(w) ELSE dir[m]
  BY <1>1, StagedNames, WithFile DEF Change
<1> QED BY <1>1, <1>2, TargetNames, StagedNames, BackupNames
        DEF Shows, OthersKept, TargetsNow, BackupsNow, StagedNow

(***************************************************************************)
(* Syncing a staged key shows it whole.                                    *)
(***************************************************************************)
LEMMA SyncStagedShows ==
  ASSUME TypeInv, NEW w \in Writers, NEW k \in Key, dir[Staged(k, w)] = Partial(w),
         FileSync(Staged(k, w), Partial(w), w)
  PROVE  Shows(w, TargetsNow, BackupsNow(w), [StagedNow(w) EXCEPT ![k] = w])
<1>1. w \in Writer /\ dir \in Directories /\ dir' = SyncedKey(dir, w, k)
  BY CallFacts, SyncedByFileSync
<1>2. /\ dir'[Staged(k, w)] = w
      /\ \A m \in FileNames \ {Staged(k, w)} : dir'[m] = dir[m]
  BY <1>1, SyncedKeyFiles
<1> QED BY <1>1, <1>2, TargetNames, StagedNames, BackupNames
        DEF Shows, OthersKept, TargetsNow, BackupsNow, StagedNow

(***************************************************************************)
(* Removing a target shows it gone.                                        *)
(***************************************************************************)
LEMMA RemoveTargetShows ==
  ASSUME TypeInv, NEW w \in Writers, NEW k \in Key, Change(With(Target(k), Absent))
  PROVE  Shows(w, [TargetsNow EXCEPT ![k] = Absent], BackupsNow(w), StagedNow(w))
<1>1. w \in Writer /\ Absent \in Content /\ dir \in Directories
  BY CallFacts
<1>2. \A m \in FileNames : dir'[m] = IF m = Target(k) THEN Absent ELSE dir[m]
  BY <1>1, TargetNames, WithFile DEF Change
<1> QED BY <1>1, <1>2, TargetNames, StagedNames, BackupNames
        DEF Shows, OthersKept, TargetsNow, BackupsNow, StagedNow

(***************************************************************************)
(* Removing a backup shows it gone.                                        *)
(***************************************************************************)
LEMMA RemoveBackupShows ==
  ASSUME TypeInv, NEW w \in Writers, NEW k \in Key,
         Change(With(Backup(k, w), Absent))
  PROVE  Shows(w, TargetsNow, [BackupsNow(w) EXCEPT ![k] = Absent], StagedNow(w))
<1>1. w \in Writer /\ Absent \in Content /\ dir \in Directories
  BY CallFacts
<1>2. \A m \in FileNames : dir'[m] = IF m = Backup(k, w) THEN Absent ELSE dir[m]
  BY <1>1, BackupNames, WithFile DEF Change
<1> QED BY <1>1, <1>2, TargetNames, StagedNames, BackupNames
        DEF Shows, OthersKept, TargetsNow, BackupsNow, StagedNow

(***************************************************************************)
(* Moving a target aside shows its backup in its stead.                    *)
(***************************************************************************)
LEMMA BackupShows ==
  ASSUME TypeInv, NEW w \in Writers, NEW k \in Key,
         Change(Moved(Target(k), Backup(k, w)))
  PROVE  Shows(w, [TargetsNow EXCEPT ![k] = Absent],
               [BackupsNow(w) EXCEPT ![k] = dir[Target(k)]], StagedNow(w))
<1>1. /\ w \in Writer /\ dir \in Directories
      /\ Target(k) \in FileNames /\ Backup(k, w) \in FileNames
      /\ Target(k) # Backup(k, w)
  BY CallFacts, TargetNames, BackupNames
<1>2. /\ dir'[Target(k)] = Absent /\ dir'[Backup(k, w)] = dir[Target(k)]
      /\ \A m \in FileNames \ {Target(k), Backup(k, w)} : dir'[m] = dir[m]
  BY <1>1, MovedFile DEF Change
<1> QED BY <1>1, <1>2, TargetNames, StagedNames, BackupNames
        DEF Shows, OthersKept, TargetsNow, BackupsNow, StagedNow

(***************************************************************************)
(* Putting a backup back shows its target in its stead.                    *)
(***************************************************************************)
LEMMA RestoreShows ==
  ASSUME TypeInv, NEW w \in Writers, NEW k \in Key,
         Change(Moved(Backup(k, w), Target(k)))
  PROVE  Shows(w, [TargetsNow EXCEPT ![k] = dir[Backup(k, w)]],
               [BackupsNow(w) EXCEPT ![k] = Absent], StagedNow(w))
<1>1. /\ w \in Writer /\ dir \in Directories
      /\ Target(k) \in FileNames /\ Backup(k, w) \in FileNames
      /\ Target(k) # Backup(k, w)
  BY CallFacts, TargetNames, BackupNames
<1>2. /\ dir'[Backup(k, w)] = Absent /\ dir'[Target(k)] = dir[Backup(k, w)]
      /\ \A m \in FileNames \ {Target(k), Backup(k, w)} : dir'[m] = dir[m]
  BY <1>1, MovedFile DEF Change
<1> QED BY <1>1, <1>2, TargetNames, StagedNames, BackupNames
        DEF Shows, OthersKept, TargetsNow, BackupsNow, StagedNow

(***************************************************************************)
(* Committing a staged file shows its target in its stead.                 *)
(***************************************************************************)
LEMMA CommitShows ==
  ASSUME TypeInv, NEW w \in Writers, NEW k \in Key,
         Change(Moved(Staged(k, w), Target(k)))
  PROVE  Shows(w, [TargetsNow EXCEPT ![k] = dir[Staged(k, w)]],
               BackupsNow(w), [StagedNow(w) EXCEPT ![k] = Absent])
<1>1. /\ w \in Writer /\ dir \in Directories
      /\ Target(k) \in FileNames /\ Staged(k, w) \in FileNames
      /\ Target(k) # Staged(k, w)
  BY CallFacts, TargetNames, StagedNames
<1>2. /\ dir'[Staged(k, w)] = Absent /\ dir'[Target(k)] = dir[Staged(k, w)]
      /\ \A m \in FileNames \ {Target(k), Staged(k, w)} : dir'[m] = dir[m]
  BY <1>1, MovedFile DEF Change
<1> QED BY <1>1, <1>2, TargetNames, StagedNames, BackupNames
        DEF Shows, OthersKept, TargetsNow, BackupsNow, StagedNow

(***************************************************************************)
(* Returning shows some of the staged files gone; if others are left that  *)
(* were there, a best-effort operation has failed.                         *)
(***************************************************************************)
LEMMA ReturnShows ==
  ASSUME TypeInv, NEW w \in Writers, NEW r, Return(w, r)
  PROVE  \E left \in [Key -> Content] :
           /\ Shows(w, TargetsNow, BackupsNow(w), left)
           /\ \A k \in Key : left[k] = Absent \/ left[k] = dir[Staged(k, w)]
           /\ stuck => stuck'
           /\ ~stuck' => \A k \in Key : left[k] = Absent
           /\ onDisk' = onDisk \cup {dir'}
           /\ pc'[w] = r
<1> DEFINE staged == {Staged(k, w) : k \in Key}
<1>1. PICK S \in SUBSET staged :
         /\ Change(Without(S))
         /\ stuck' = (stuck \/ \E n \in staged \ S : dir[n] # Absent)
         /\ pc' = [pc EXCEPT ![w] = r]
  BY DEF Return
<1>2. w \in Writer /\ dir \in Directories
  BY CallFacts
<1>3. \A m \in FileNames : dir'[m] = IF m \in S THEN Absent ELSE dir[m]
  BY <1>1, <1>2, WithoutFiles DEF Change
<1>4. dir' \in Directories /\ onDisk' = onDisk \cup {dir'}
  BY <1>1, <1>2, WithoutFiles DEF Change
<1> DEFINE left == [k \in Key |-> dir'[Staged(k, w)]]
<1>5. left \in [Key -> Content]
  BY <1>2, <1>4, StagedNames DEF Directories
<1>6. \A k \in Key : /\ Target(k) \notin S /\ Backup(k, w) \notin S
                     /\ \A v \in Writer \ {w} :
                           Staged(k, v) \notin S /\ Backup(k, v) \notin S
  BY <1>2, StagedNames, BackupNames, TargetNames
<1>7. Shows(w, TargetsNow, BackupsNow(w), left)
  BY <1>2, <1>3, <1>6, TargetNames, BackupNames, StagedNames
  DEF Shows, OthersKept, TargetsNow, BackupsNow
<1>8. \A k \in Key : left[k] = Absent \/ left[k] = dir[Staged(k, w)]
  BY <1>2, <1>3, StagedNames
<1>9. ASSUME ~stuck' PROVE \A k \in Key : left[k] = Absent
  <2>1. \A k \in Key : Staged(k, w) \in S \/ dir[Staged(k, w)] = Absent
    BY <1>1, <1>9
  <2> QED BY <1>2, <1>3, <2>1, StagedNames
<1>10. (stuck => stuck') /\ pc'[w] = r
  BY <1>1 DEF TypeInv, KeyType
<1> HIDE DEF left
<1> QED BY <1>4, <1>5, <1>7, <1>8, <1>9, <1>10

-----------------------------------------------------------------------------
(***************************************************************************)
(* A step keeps every surviving directory sound if the new one is.         *)
(***************************************************************************)
LEMMA SoundKept ==
  ASSUME UNCHANGED given, NEW w, \A d \in onDisk : Sound(d, w),
         onDisk' \subseteq onDisk \cup {dir'}, dir' \in onDisk \/ Sound(dir', w)
  PROVE  \A d \in onDisk' : Sound(d, w)'
<1>1. \A k \in Key : Former(k)' = Former(k)
  BY SameWriters DEF Former
<1>2. \A d \in onDisk' : Sound(d, w)
  OBVIOUS
<1>3. "private" \in Key
  BY DEF Key
<1> QED BY <1>1, <1>2, <1>3 DEF Sound

(***************************************************************************)
(* A call that is killed.                                                  *)
(***************************************************************************)
LEMMA KilledKeeps ==
  ASSUME TypeInv, UNCHANGED given, NEW w \in Writers, CallInv(w),
         dir' \in onDisk, onDisk' \subseteq onDisk, pc'[w] = <<"killed">>
  PROVE  CallInv(w)'
<1>0. Rank(pc[w])' = 16
  BY Ranks
<1>1. \A d \in onDisk' : Sound(d, w)'
  BY SoundKept DEF CallInv
<1>2. StepInv(w)' /\ StagedInv(w)' /\ EndInv(w)'
  BY <1>0 DEF StepInv, StagedInv, EndInv
<1>3. RecoveryInv(w)' /\ ReportedInv(w)'
  BY <1>0 DEF RecoveryInv, ReportedInv, Succeeding
<1>4. RefusedInv(w)'
  BY <1>0, SameWriters DEF CallInv, RefusedInv, Former
<1> QED BY <1>1, <1>2, <1>3, <1>4 DEF CallInv

(***************************************************************************)
(* A call that returns an error while the former keys are in place.        *)
(***************************************************************************)
LEMMA ErrorKeeps ==
  ASSUME TypeInv, UNCHANGED given, NEW w \in Writers, CallInv(w),
         Return(w, <<"error">>),
         ~stuck => \A k \in Key : Former(k) # Absent => dir[Target(k)] # Absent
  PROVE  CallInv(w)'
<1>1. PICK left :
           /\ Shows(w, TargetsNow, BackupsNow(w), left)
           /\ \A k \in Key : left[k] = Absent \/ left[k] = dir[Staged(k, w)]
           /\ stuck => stuck'
           /\ onDisk' = onDisk \cup {dir'}
           /\ pc'[w] = <<"error">>
  BY ReturnShows
<1>2. \A k \in Key : /\ dir'[Target(k)] = dir[Target(k)]
                     /\ dir'[Backup(k, w)] = dir[Backup(k, w)]
                     /\ dir'[Staged(k, w)] = left[k]
                     /\ Former(k)' = Former(k)
  BY <1>1, SameWriters DEF Shows, TargetsNow, BackupsNow, Former
<1>3. Sound(dir, w) /\ dir \in onDisk /\ \A d \in onDisk : Sound(d, w)
  BY CallFacts DEF CallInv
<1>4. Sound(dir', w)
  BY <1>1, <1>2, <1>3, CallFacts DEF Sound
<1>5. \A d \in onDisk' : Sound(d, w)'
  BY <1>1, <1>3, <1>4, SoundKept
<1>r. Rank(pc[w])' = 15
  BY <1>1, Ranks
<1>6. StepInv(w)' /\ StagedInv(w)'
  BY <1>r DEF StepInv, StagedInv
<1>7. RecoveryInv(w)' /\ ReportedInv(w)'
  BY <1>r DEF RecoveryInv, ReportedInv, Succeeding
<1>8. EndInv(w)'
  BY <1>1, <1>2 DEF EndInv
<1>9. RefusedInv(w)'
  BY <1>1, <1>2, <1>3, <1>r, SameWriters DEF CallInv, RefusedInv
<1> QED BY <1>5, <1>6, <1>7, <1>8, <1>9 DEF CallInv

(***************************************************************************)
(* Until the first backup the former keys are in place.                    *)
(***************************************************************************)
LEMMA InPlaceBefore ==
  ASSUME TypeInv, NEW w \in Writers, CallInv(w), Rank(pc[w]) \in 1..6
  PROVE  \A k \in Key : dir[Target(k)] = Former(k)
BY CallFacts DEF CallInv, StepInv, Untouched

(***************************************************************************)
(* A call goes on from one of the first steps to another: the files of the *)
(* key are those there were.                                               *)
(***************************************************************************)
SameButStaged(e, d, w) ==
    \A k \in Key :
        /\ e[Target(k)] = d[Target(k)] /\ e[Backup(k, w)] = d[Backup(k, w)]
        /\ e[Staged(k, w)] \in {d[Staged(k, w)], w}

LEMMA EarlyKeeps ==
  ASSUME TypeInv, UNCHANGED given, NEW w \in Writers, CallInv(w), Rank(pc[w]) \in 1..6,
         NEW staged, Shows(w, TargetsNow, BackupsNow(w), staged),
         \A k \in Key : staged[k] \in {w, Partial(w), Absent},
         \A e \in onDisk' : e = dir' \/ \E d \in onDisk : SameButStaged(e, d, w),
         bak' = bak, Rank(pc[w])' \in 1..6, StagedInv(w)',
         ~force[w] /\ (\E k \in Key : Former(k) # Absent) =>
            /\ Rank(pc[w])' = 2 /\ Former("private") = Absent
            /\ onDisk' = onDisk
  PROVE  CallInv(w)'
<1>1. \A k \in Key : /\ dir'[Target(k)] = dir[Target(k)]
                     /\ dir'[Backup(k, w)] = dir[Backup(k, w)]
                     /\ dir'[Staged(k, w)] = staged[k]
                     /\ Former(k)' = Former(k)
  BY SameWriters DEF Shows, TargetsNow, BackupsNow, Former
<1>2. Sound(dir, w) /\ dir \in onDisk /\ \A d \in onDisk : Sound(d, w)
  BY CallFacts DEF CallInv
<1>3. Sound(dir', w)
  BY <1>1, <1>2, CallFacts DEF Sound
<1>4. \A d \in onDisk' : Sound(d, w)'
  <2>1. ASSUME NEW e, NEW d \in onDisk, SameButStaged(e, d, w) PROVE Sound(e, w)
    BY <1>2, <2>1, CallFacts DEF Sound, SameButStaged
  <2>2. \A e \in onDisk' : Sound(e, w)
    BY <1>3, <2>1
  <2> QED BY <1>1, <2>2, CallFacts DEF Sound
<1>5. bak'[w] = {} /\ \A d \in onDisk' : Untouched(d, w)'
  <2>1. bak[w] = {} /\ \A d \in onDisk : Untouched(d, w)
    BY DEF CallInv, StepInv
  <2>2. Untouched(dir', w)
    BY <1>1, <1>2, <2>1 DEF Untouched
  <2>3. \A d \in onDisk' : Untouched(d, w)
    BY <2>1, <2>2 DEF Untouched, SameButStaged
  <2> QED BY <1>1, <2>1, <2>3 DEF Untouched
<1>6. /\ StepInv(w)' /\ RecoveryInv(w)' /\ ReportedInv(w)' /\ EndInv(w)'
  BY <1>5 DEF StepInv, RecoveryInv, ReportedInv, Succeeding, EndInv
<1>7. RefusedInv(w)'
  <2> SUFFICES ASSUME ~force[w], \E k \in Key : Former(k) # Absent
               PROVE  /\ Rank(pc[w])' = 2
                      /\ Former("private") = Absent
                      /\ \A d \in onDisk', k \in Key :
                            /\ d[Target(k)] = Former(k)
                            /\ d[Staged(k, w)] = Absent /\ d[Backup(k, w)] = Absent
    BY <1>1, CallFacts, SameWriters DEF RefusedInv
  <2> QED BY DEF CallInv, RefusedInv
<1> QED BY <1>4, <1>6, <1>7 DEF CallInv

(***************************************************************************)
(* The checks of the targets, without force.                               *)
(***************************************************************************)
LEMMA CheckKeeps ==
  ASSUME TypeInv, UNCHANGED given, NEW w \in Writers, CallInv(w),
         \/ CheckTarget(w, "private", <<"check", "public">>)
         \/ CheckTarget(w, "public", <<"stage", "private">>)
  PROVE  CallInv(w)'
<1>0. Rank(pc[w]) \in 1..2 /\ \A k \in Key : dir[Target(k)] = Former(k)
  <2>0. pc[w] = <<"check", "private">> \/ pc[w] = <<"check", "public">>
    BY DEF CheckTarget
  <2>1. Rank(pc[w]) = 1 \/ Rank(pc[w]) = 2
    BY <2>0, Ranks
  <2> QED BY <2>1, InPlaceBefore
<1>1. CASE Return(w, <<"error">>)
  BY <1>0, <1>1, ErrorKeeps
<1>2. ASSUME UNCHANGED dirVars, NEW s, Rank(s) \in 2..3, Goto(w, s),
             \A k \in Key : ~Syncing(w, k)',
             ~force[w] /\ (\E k \in Key : Former(k) # Absent) =>
                Rank(s) = 2 /\ Former("private") = Absent
      PROVE  CallInv(w)'
  <2>1. pc'[w] = s /\ bak' = bak /\ Rank(pc[w])' = Rank(s)
    BY <1>2 DEF Goto, local, TypeInv, KeyType
  <2>2. /\ dir' = dir /\ onDisk' = onDisk
        /\ \A e \in onDisk' : e = dir' \/ \E d \in onDisk : SameButStaged(e, d, w)
    BY <1>2 DEF dirVars, SameButStaged
  <2>3. Sound(dir, w)
    BY CallFacts DEF CallInv
  <2>4. \A k \in Key : StagedNow(w)[k] \in {w, Partial(w), Absent}
    BY <2>3 DEF Sound, StagedNow
  <2>r. Rank(pc[w])' = 2 \/ Rank(pc[w])' = 3
    BY <1>2, <2>1
  <2>5. StagedInv(w)'
    BY <1>2, <2>r DEF StagedInv
  <2> QED BY <1>0, <1>2, <2>1, <2>r, <2>2, <2>4, <2>5, QuietShows, EarlyKeeps
<1>s. /\ \A k : <<"check", "public">> # <<"sync staged", k>>
      /\ \A k : <<"stage", "private">> # <<"sync staged", k>>
  OBVIOUS
<1>p. ASSUME NEW s, s = <<"check", "public">> \/ s = <<"stage", "private">>, Goto(w, s)
      PROVE  \A k \in Key : ~Syncing(w, k)'
  <2>1. pc'[w] = s
    BY <1>p DEF Goto, TypeInv, KeyType
  <2> QED BY <1>s, <1>p, <2>1 DEF Syncing
<1>3. CASE /\ pc[w] = <<"check", "private">> /\ dir[Target("private")] = Absent
           /\ Goto(w, <<"check", "public">>) /\ UNCHANGED dirVars
  <2>1. Former("private") = Absent
    BY <1>0, <1>3, CallFacts
  <2>2. Rank(<<"check", "public">>) = 2
    BY Ranks
  <2>3. \A k \in Key : ~Syncing(w, k)'
    BY <1>3, <1>p
  <2> QED BY <1>2, <1>3, <2>1, <2>2, <2>3
<1>4. CASE /\ pc[w] = <<"check", "public">> /\ dir[Target("public")] = Absent
           /\ Goto(w, <<"stage", "private">>) /\ UNCHANGED dirVars
  <2>1. ~(~force[w] /\ \E k \in Key : Former(k) # Absent)
    BY <1>0, <1>4, CallFacts, Ranks DEF CallInv, RefusedInv
  <2>2. Rank(<<"stage", "private">>) = 3
    BY Ranks
  <2>3. \A k \in Key : ~Syncing(w, k)'
    BY <1>4, <1>p
  <2> QED BY <1>2, <1>4, <2>1, <2>2, <2>3
<1> QED BY <1>1, <1>3, <1>4 DEF CheckTarget

(***************************************************************************)
(* A call that is refused gets no further than the checks.                 *)
(***************************************************************************)
LEMMA NotRefused ==
  ASSUME NEW w, CallInv(w), Rank(pc[w]) \in 3..14
  PROVE  ~(~force[w] /\ \E k \in Key : Former(k) # Absent)
BY DEF CallInv, RefusedInv

(***************************************************************************)
(* The staging of a key of the new pair.                                   *)
(***************************************************************************)
LEMMA StageKeeps ==
  ASSUME TypeInv, UNCHANGED given, NEW w \in Writers, CallInv(w),
         NEW k \in Key, Stage(w, k)
  PROVE  CallInv(w)'
<1>k. k = "private" \/ k = "public"
  BY CallFacts
<1>r. /\ k = "private" => Rank(pc[w]) = 3
      /\ k = "public" => Rank(pc[w]) = 4
  BY <1>k, Ranks DEF Stage
<1>4. Rank(<<"sync staged", k>>) = Rank(pc[w])
  BY <1>k, <1>r, Ranks
<1>3. Rank(pc[w]) = 3 \/ Rank(pc[w]) = 4
  BY <1>k, <1>r
<1>0. /\ Rank(pc[w]) \in 3..4 /\ \A l \in Key : dir[Target(l)] = Former(l)
      /\ ~(~force[w] /\ \E l \in Key : Former(l) # Absent)
  BY <1>3, InPlaceBefore, NotRefused
<1>1. CASE Return(w, <<"error">>)
  BY <1>0, <1>1, ErrorKeeps
<1>2. CASE Change(With(Staged(k, w), Partial(w))) /\ Goto(w, <<"sync staged", k>>)
  <2>1. pc'[w] = <<"sync staged", k>>
    BY <1>2 DEF Goto, TypeInv, KeyType
  <2>8. bak' = bak /\ Rank(pc[w])' = Rank(pc[w])
    BY <1>2, <1>4, <2>1 DEF Goto, local
  <2>2. \A e \in onDisk' : e = dir' \/ \E d \in onDisk : SameButStaged(e, d, w)
    BY <1>2 DEF Change, SameButStaged
  <2>3. Sound(dir, w)
    BY CallFacts DEF CallInv
  <2> DEFINE staged == [StagedNow(w) EXCEPT ![k] = Partial(w)]
  <2>4. \A l \in Key : staged[l] \in {w, Partial(w), Absent}
    BY <2>3 DEF Sound, StagedNow
  <2>5. Shows(w, TargetsNow, BackupsNow(w), staged)
    BY <1>2, StageShows
  <2>6. \A l \in Key :
          dir'[Staged(l, w)] = IF l = k THEN Partial(w) ELSE dir[Staged(l, w)]
    BY <2>5 DEF Shows, StagedNow
  <2>7. StagedInv(w)'
    <3>1. k = "public" => dir[Staged("private", w)] = w
      BY <1>r DEF CallInv, StagedInv
    <3>2. ASSUME NEW l, Syncing(w, l)' PROVE l = k
      <4>1. <<"sync staged", l>> = <<"sync staged", k>>
        BY <2>1, <3>2 DEF Syncing
      <4>2. <<"sync staged", l>>[2] = l /\ <<"sync staged", k>>[2] = k
        OBVIOUS
      <4> QED BY <4>1, <4>2
    <3>3. Rank(pc[w])' = 3 \/ Rank(pc[w])' = 4
      BY <1>3, <2>8
    <3>4. (k = "public" \/ Rank(pc[w])' = 3) /\ (k = "private" \/ Rank(pc[w])' = 4)
      BY <1>k, <1>r, <2>8
    <3> QED BY <1>k, <2>6, <3>1, <3>2, <3>3, <3>4, CallFacts DEF StagedInv
  <2>9. Rank(pc[w]) \in 1..6 /\ Rank(pc[w])' \in 1..6
    BY <1>3, <2>8
  <2> HIDE DEF staged
  <2> QED BY <1>0, <2>2, <2>4, <2>5, <2>7, <2>8, <2>9, EarlyKeeps
<1> QED BY <1>1, <1>2 DEF Stage

(***************************************************************************)
(* Its sync.                                                               *)
(***************************************************************************)
LEMMA SyncStagedKeeps ==
  ASSUME TypeInv, UNCHANGED given, NEW w \in Writers, CallInv(w), NEW k \in Key,
         NEW next, SyncStaged(w, k, next),
         next = IF k = "private" THEN <<"stage", "public">> ELSE <<"verify">>
  PROVE  CallInv(w)'
<1>k. k = "private" \/ k = "public"
  BY CallFacts
<1>r. /\ Syncing(w, k)
      /\ k = "private" => Rank(pc[w]) = 3 /\ Rank(next) = 4
      /\ k = "public" => Rank(pc[w]) = 4 /\ Rank(next) = 5
  BY <1>k, Ranks DEF SyncStaged, Syncing
<1>3. (Rank(pc[w]) = 3 \/ Rank(pc[w]) = 4) /\ (Rank(next) = 4 \/ Rank(next) = 5)
  BY <1>k, <1>r
<1>0. /\ Rank(pc[w]) \in 3..4 /\ \A l \in Key : dir[Target(l)] = Former(l)
      /\ ~(~force[w] /\ \E l \in Key : Former(l) # Absent)
      /\ dir[Staged(k, w)] = Partial(w)
  <2>1. Rank(pc[w]) \in 3..4
    BY <1>3
  <2>2. dir[Staged(k, w)] = Partial(w)
    BY <1>r, <2>1 DEF CallInv, StagedInv
  <2> QED BY <1>3, <2>1, <2>2, InPlaceBefore, NotRefused
<1>1. CASE Return(w, <<"error">>)
  BY <1>0, <1>1, ErrorKeeps
<1>2. CASE FileSync(Staged(k, w), Partial(w), w) /\ Goto(w, next)
  <2>1. pc'[w] = next /\ bak' = bak /\ Rank(pc[w])' = Rank(next)
    BY <1>2 DEF Goto, local, TypeInv, KeyType
  <2>2. \A e \in onDisk' : \E d \in onDisk : SameButStaged(e, d, w)
    <3>1. w \in Writer /\ onDisk' = {SyncedKey(d, w, k) : d \in onDisk}
      BY <1>2, CallFacts, SyncedByFileSync
    <3>2. \A d \in onDisk : SameButStaged(SyncedKey(d, w, k), d, w)
      BY <3>1, SyncedKeyFiles, TargetNames, StagedNames, BackupNames
      DEF SameButStaged, TypeInv, DirInv
    <3> QED BY <3>1, <3>2
  <2>3. Sound(dir, w)
    BY CallFacts DEF CallInv
  <2> DEFINE staged == [StagedNow(w) EXCEPT ![k] = w]
  <2>4. \A l \in Key : staged[l] \in {w, Partial(w), Absent}
    BY <2>3 DEF Sound, StagedNow
  <2>5. Shows(w, TargetsNow, BackupsNow(w), staged)
    BY <1>0, <1>2, SyncStagedShows
  <2>6. \A l \in Key : dir'[Staged(l, w)] = IF l = k THEN w ELSE dir[Staged(l, w)]
    BY <2>5 DEF Shows, StagedNow
  <2>7. StagedInv(w)'
    <3>1. k = "public" => dir[Staged("private", w)] = w
      BY <1>r DEF CallInv, StagedInv
    <3>2. \A l : ~Syncing(w, l)'
      <4>1. next = <<"stage", "public">> \/ next = <<"verify">>
        BY <1>k
      <4>2. \A l : /\ <<"stage", "public">> # <<"sync staged", l>>
                   /\ <<"verify">> # <<"sync staged", l>>
        OBVIOUS
      <4> QED BY <2>1, <4>1, <4>2 DEF Syncing
    <3> QED BY <1>k, <1>r, <1>3, <2>1, <2>6, <3>1, <3>2, CallFacts DEF StagedInv
  <2> HIDE DEF staged
  <2> QED BY <1>0, <1>3, <2>1, <2>2, <2>4, <2>5, <2>7, EarlyKeeps
<1> QED BY <1>1, <1>2 DEF SyncStaged

(***************************************************************************)
(* The staged pair is read back.                                           *)
(***************************************************************************)
LEMMA VerifyKeeps ==
  ASSUME TypeInv, UNCHANGED given, NEW w \in Writers, CallInv(w),
         verifyStagedPair(w)
  PROVE  CallInv(w)'
<1>1. /\ Rank(pc[w]) = 5 /\ \A k \in Key : dir[Target(k)] = Former(k)
      /\ ~(~force[w] /\ \E k \in Key : Former(k) # Absent)
  <2>1. Rank(pc[w]) = 5
    BY Ranks DEF verifyStagedPair
  <2> QED BY <2>1, InPlaceBefore, NotRefused
<1>2. CASE Return(w, <<"error">>)
  BY <1>1, <1>2, ErrorKeeps
<1>3. CASE Goto(w, <<"back up", "private">>) /\ UNCHANGED dirVars
  <2>1. Rank(pc[w])' = 6 /\ bak' = bak
    BY <1>3, Ranks DEF Goto, local, TypeInv, KeyType
  <2>2. /\ dir' = dir /\ onDisk' = onDisk
        /\ \A e \in onDisk' : e = dir' \/ \E d \in onDisk : SameButStaged(e, d, w)
    BY <1>3 DEF dirVars, SameButStaged
  <2>3. Sound(dir, w)
    BY CallFacts DEF CallInv
  <2>4. StagedInv(w)'
    BY <1>1, <2>1, <2>2 DEF CallInv, StagedInv
  <2>5. \A k \in Key : StagedNow(w)[k] \in {w, Partial(w), Absent}
    BY <2>3 DEF Sound, StagedNow
  <2> QED BY <1>1, <2>1, <2>2, <2>4, <2>5, QuietShows, EarlyKeeps
<1> QED BY <1>2, <1>3 DEF verifyStagedPair

-----------------------------------------------------------------------------
(***************************************************************************)
(* The operations of the plans are different operations.                   *)
(***************************************************************************)
LEMMA OperationsDiffer ==
  ASSUME NEW w \in Writer
  PROVE  /\ \A k, l \in Key : Removal(Target(k)) = Removal(Target(l)) => k = l
         /\ \A k, l \in Key : Restoring(k, w) = Restoring(l, w) => k = l
         /\ \A k, l \in Key :
               Removal(Backup(k, w)) = Removal(Backup(l, w)) => k = l
         /\ \A k, l \in Key : Removal(Target(k)) # Removal(Backup(l, w))
         /\ \A k, l \in Key : Removal(Target(k)) # Restoring(l, w)
         /\ \A k, l \in Key : Removal(Backup(k, w)) # Restoring(l, w)
<1>1. /\ \A m, n : Removal(m) = Removal(n) => m = n
      /\ \A n : \A k, l \in Key : Removal(n) # Restoring(k, w)
  BY DEF Removal, Restoring
<1>2. \A k, l \in Key : Restoring(k, w) = Restoring(l, w) => Target(k) = Target(l)
  BY DEF Restoring
<1> QED BY <1>1, <1>2, TargetNames, BackupNames

(***************************************************************************)
(* What is in a sequence of one operation, of two, and in two sequences.   *)
(***************************************************************************)
LEMMA HasFew ==
  /\ \A o : ~Has(<<>>, o)
  /\ \A x, o : Has(<<x>>, o) <=> o = x
  /\ \A x, y, o : Has(<<x, y>>, o) <=> o = x \/ o = y
BY DEF Has

(***************************************************************************)
(* Two sequences in turn have the operations of both.                      *)
(***************************************************************************)
LEMMA HasBoth ==
  ASSUME NEW S, NEW s \in Seq(S), NEW t \in Seq(S)
  PROVE  \A o : Has(s \o t, o) <=> Has(s, o) \/ Has(t, o)
<1>1. /\ s \o t \in Seq(S) /\ Len(s \o t) = Len(s) + Len(t)
      /\ \A i \in 1 .. Len(s) + Len(t) :
            (s \o t)[i] = IF i <= Len(s) THEN s[i] ELSE t[i - Len(s)]
  BY ConcatProperties
<1>2. /\ DOMAIN s = 1 .. Len(s) /\ DOMAIN t = 1 .. Len(t)
      /\ DOMAIN (s \o t) = 1 .. Len(s) + Len(t)
      /\ Len(s) \in Nat /\ Len(t) \in Nat
  BY <1>1
<1> DEFINE st == s \o t
<1> HIDE DEF st
<1>3. ASSUME NEW o, Has(s, o) PROVE Has(st, o)
  BY <1>1, <1>2, <1>3 DEF Has, st
<1>4. ASSUME NEW o, Has(t, o) PROVE Has(st, o)
  <2>1. PICK i \in 1 .. Len(t) : t[i] = o
    BY <1>2, <1>4 DEF Has
  <2>2. i + Len(s) \in 1 .. Len(s) + Len(t) /\ st[i + Len(s)] = o
    BY <1>1, <1>2, <2>1 DEF st
  <2> QED BY <1>2, <2>2 DEF Has, st
<1>5. ASSUME NEW o, Has(st, o) PROVE Has(s, o) \/ Has(t, o)
  <2>1. PICK i \in 1 .. Len(s) + Len(t) : st[i] = o
    BY <1>2, <1>5 DEF Has, st
  <2>2. CASE i <= Len(s)
    BY <1>1, <1>2, <2>1, <2>2 DEF Has, st
  <2>3. CASE i > Len(s)
    <3>1. i - Len(s) \in 1 .. Len(t) /\ t[i - Len(s)] = o
      BY <1>1, <1>2, <2>1, <2>3 DEF st
    <3> QED BY <1>2, <3>1 DEF Has
  <2> QED BY <1>2, <2>2, <2>3
<1> QED BY <1>3, <1>4, <1>5 DEF st

(***************************************************************************)
(* Two plans in turn are a plan if the second does not touch what the      *)
(* first has restored.                                                     *)
(***************************************************************************)
LEMMA OrderedBoth ==
  ASSUME NEW S, NEW s \in Seq(S), NEW t \in Seq(S), NEW w,
         Ordered(s, w), Ordered(t, w),
         \A k \in Key : Has(s, Restoring(k, w)) => ~Touches(t, k, w)
  PROVE  Ordered(s \o t, w)
<1>1. /\ s \o t \in Seq(S) /\ Len(s \o t) = Len(s) + Len(t)
      /\ \A i \in 1 .. Len(s) + Len(t) :
            (s \o t)[i] = IF i <= Len(s) THEN s[i] ELSE t[i - Len(s)]
  BY ConcatProperties
<1>2. /\ DOMAIN s = 1 .. Len(s) /\ DOMAIN t = 1 .. Len(t)
      /\ DOMAIN (s \o t) = 1 .. Len(s) + Len(t)
      /\ Len(s) \in Nat /\ Len(t) \in Nat
  BY <1>1
<1> DEFINE st == s \o t
<1> HIDE DEF st
<1> SUFFICES ASSUME NEW k \in Key, NEW i \in 1 .. Len(s) + Len(t),
                    NEW j \in 1 .. Len(s) + Len(t),
                    NEW o \in {Restoring(k, w), Removal(Target(k))},
                    st[i] = Restoring(k, w), st[j] = o
             PROVE  j <= i
  BY <1>2 DEF Ordered, st
<1>3. CASE i <= Len(s) /\ j <= Len(s)
  BY <1>1, <1>2, <1>3 DEF Ordered, st
<1>4. CASE i <= Len(s) /\ j > Len(s)
  <2>1. Has(s, Restoring(k, w))
    BY <1>1, <1>2, <1>4 DEF Has, st
  <2>2. j - Len(s) \in 1 .. Len(t) /\ t[j - Len(s)] = o
    BY <1>1, <1>2, <1>4 DEF st
  <2>3. Touches(t, k, w)
    BY <1>2, <2>2 DEF Has, Touches
  <2> QED BY <2>1, <2>3
<1>5. CASE i > Len(s) /\ j <= Len(s)
  BY <1>2, <1>5
<1>6. CASE i > Len(s) /\ j > Len(s)
  <2>1. /\ i - Len(s) \in 1 .. Len(t) /\ t[i - Len(s)] = Restoring(k, w)
        /\ j - Len(s) \in 1 .. Len(t) /\ t[j - Len(s)] = o
    BY <1>1, <1>2, <1>6 DEF st
  <2>2. j - Len(s) <= i - Len(s)
    BY <1>2, <2>1 DEF Ordered
  <2> QED BY <1>2, <2>2
<1> QED BY <1>2, <1>3, <1>4, <1>5, <1>6

(***************************************************************************)
(* A sequence of operations that restores the backups in R, removes the    *)
(* targets in T and the backups in B.                                      *)
(***************************************************************************)
Does(s, w, R, T, B) ==
    /\ s \in Seq(Operation(w))
    /\ Ordered(s, w)
    /\ \A k \in Key :
          /\ Has(s, Restoring(k, w)) <=> k \in R
          /\ Has(s, Removal(Target(k))) <=> k \in T
          /\ Has(s, Removal(Backup(k, w))) <=> k \in B

(***************************************************************************)
(* Two of them in turn: the second removes no target that the first has    *)
(* restored.                                                               *)
(***************************************************************************)
LEMMA DoesBoth ==
  ASSUME NEW w, NEW s, NEW R, NEW T, NEW B, Does(s, w, R, T, B),
         NEW t, NEW S, NEW U, NEW C, Does(t, w, S, U, C),
         \A k \in Key \cap R : k \notin S \cup U
  PROVE  Does(s \o t, w, R \cup S, T \cup U, B \cup C)
<1>1. s \in Seq(Operation(w)) /\ t \in Seq(Operation(w))
  BY DEF Does
<1>2. \A o : Has(s \o t, o) <=> Has(s, o) \/ Has(t, o)
  BY <1>1, HasBoth
<1>3. s \o t \in Seq(Operation(w))
  BY <1>1, ConcatProperties
<1>4. \A k \in Key : Has(s, Restoring(k, w)) => ~Touches(t, k, w)
  BY DEF Does, Touches
<1>5. Ordered(s \o t, w)
  BY <1>1, <1>4, OrderedBoth DEF Does
<1> DEFINE st == s \o t
<1> HIDE DEF st
<1>6. \A k \in Key :
        /\ Has(st, Restoring(k, w)) <=> k \in R \cup S
        /\ Has(st, Removal(Target(k))) <=> k \in T \cup U
        /\ Has(st, Removal(Backup(k, w))) <=> k \in B \cup C
  BY <1>2 DEF Does, st
<1> QED BY <1>3, <1>5, <1>6 DEF Does, st

(***************************************************************************)
(* What each plan of a call does.                                          *)
(***************************************************************************)
LEMMA PlanDoes ==
  ASSUME NEW w \in Writers, NEW k \in Key
  PROVE  /\ Does(<<>>, w, {}, {}, {})
         /\ Does(RemoveFile(Target(k)), w, {}, {k}, {})
         /\ \A B : Does(restoreBackup(w, k, B), w, B \cap {k}, B \cap {k}, {})
         /\ Does(removeBackup(w, k), w, {}, {}, bak[w] \cap {k})
<1>1. w \in Writer
  BY DEF Writers
<1>2. Does(<<>>, w, {}, {}, {})
  BY HasFew, EmptySeq DEF Does, Ordered
<1>3. Does(<<Removal(Target(k))>>, w, {}, {k}, {})
  <2>1. <<Removal(Target(k))>> \in Seq(Operation(w))
    BY DEF Operation
  <2>2. Ordered(<<Removal(Target(k))>>, w)
    BY <1>1, OperationsDiffer DEF Ordered
  <2> QED BY <1>1, <2>1, <2>2, HasFew, OperationsDiffer DEF Does
<1>4. Does(<<Removal(Target(k)), Restoring(k, w)>>, w, {k}, {k}, {})
  <2>1. <<Removal(Target(k)), Restoring(k, w)>> \in Seq(Operation(w))
    BY DEF Operation
  <2>2. Ordered(<<Removal(Target(k)), Restoring(k, w)>>, w)
    BY <1>1, OperationsDiffer DEF Ordered
  <2> QED BY <1>1, <2>1, <2>2, HasFew, OperationsDiffer DEF Does
<1>5. Does(<<Removal(Backup(k, w))>>, w, {}, {}, {k})
  <2>1. <<Removal(Backup(k, w))>> \in Seq(Operation(w))
    BY DEF Operation
  <2>2. Ordered(<<Removal(Backup(k, w))>>, w)
    BY <1>1, OperationsDiffer DEF Ordered
  <2> QED BY <1>1, <2>1, <2>2, HasFew, OperationsDiffer DEF Does
<1>6. ASSUME NEW B
      PROVE  Does(restoreBackup(w, k, B), w, B \cap {k}, B \cap {k}, {})
  <2>1. CASE k \in B
    <3>1. B \cap {k} = {k}
      BY <2>1
    <3> QED BY <1>4, <2>1, <3>1, PlansAreOperations
  <2>2. CASE k \notin B
    <3>1. B \cap {k} = {}
      BY <2>2
    <3> QED BY <1>2, <2>2, <3>1, PlansAreOperations
  <2> QED BY <2>1, <2>2
<1>7. Does(removeBackup(w, k), w, {}, {}, bak[w] \cap {k})
  <2>1. CASE k \in bak[w]
    <3>1. bak[w] \cap {k} = {k}
      BY <2>1
    <3> QED BY <1>5, <2>1, <3>1, PlansAreOperations
  <2>2. CASE k \notin bak[w]
    <3>1. bak[w] \cap {k} = {}
      BY <2>2
    <3> QED BY <1>2, <2>2, <3>1, PlansAreOperations
  <2> QED BY <2>1, <2>2
<1> QED BY <1>2, <1>3, <1>6, <1>7, PlansAreOperations

(***************************************************************************)
(* What the plans that are made of several do.                             *)
(***************************************************************************)
LEMMA PlansDo ==
  ASSUME TypeInv, NEW w \in Writers
  PROVE  /\ Does(Restored(w), w, bak[w], bak[w], {})
         /\ Does(RemoveFile(Target("private")) \o Restored(w), w,
                 bak[w], {"private"} \cup bak[w], {})
         /\ Does(PublicFailed(w), w, bak[w] \cap {"public"},
                 bak[w] \cap {"public"}, bak[w] \cap {"private"})
         /\ Does(removeBackup(w, "private") \o removeBackup(w, "public"),
                 w, {}, {}, bak[w])
         /\ Does(removeBackup(w, "public") \o removeBackup(w, "private"),
                 w, {}, {}, bak[w])
<1>1. /\ "private" \in Key /\ "public" \in Key
      /\ bak[w] \subseteq {"private", "public"}
  BY DEF Key, TypeInv, KeyType
<1>2. /\ Does(restoreBackup(w, "private", bak[w]), w, bak[w] \cap {"private"},
              bak[w] \cap {"private"}, {})
      /\ Does(restoreBackup(w, "public", bak[w]), w, bak[w] \cap {"public"},
              bak[w] \cap {"public"}, {})
      /\ Does(removeBackup(w, "private"), w, {}, {}, bak[w] \cap {"private"})
      /\ Does(removeBackup(w, "public"), w, {}, {}, bak[w] \cap {"public"})
      /\ Does(RemoveFile(Target("private")), w, {}, {"private"}, {})
  BY <1>1, PlanDoes
<1>3. /\ (bak[w] \cap {"private"}) \cup (bak[w] \cap {"public"}) = bak[w]
      /\ (bak[w] \cap {"public"}) \cup (bak[w] \cap {"private"}) = bak[w]
      /\ \A X : {} \cup X = X /\ X \cup {} = X
      /\ \A k : k \notin {}
  BY <1>1
<1>4. \A k \in Key \cap (bak[w] \cap {"private"}) :
         k \notin (bak[w] \cap {"public"}) \cup (bak[w] \cap {"public"})
  OBVIOUS
<1> DEFINE a == restoreBackup(w, "private", bak[w])
           b == restoreBackup(w, "public", bak[w])
           c == removeBackup(w, "private")
           d == removeBackup(w, "public")
           e == RemoveFile(Target("private"))
           P == bak[w] \cap {"private"}
           Q == bak[w] \cap {"public"}
<1> HIDE DEF a, b, c, d, e, P, Q
<1>5. Does(a \o b, w, P \cup Q, P \cup Q, {} \cup {})
  BY <1>2, <1>4, DoesBoth DEF a, b, P, Q
<1>6. Does(a \o b, w, bak[w], bak[w], {})
  BY <1>3, <1>5 DEF P, Q
<1>7. Does(Restored(w), w, bak[w], bak[w], {})
  BY <1>6 DEF a, b, Restored
<1>8. Does(e \o Restored(w), w, {} \cup bak[w], {"private"} \cup bak[w], {} \cup {})
  BY <1>2, <1>3, <1>7, DoesBoth DEF e
<1>9. Does(e \o Restored(w), w, bak[w], {"private"} \cup bak[w], {})
  BY <1>3, <1>8
<1>10. Does(b \o c, w, Q \cup {}, Q \cup {}, {} \cup P)
  BY <1>2, <1>3, DoesBoth DEF b, c, P, Q
<1>11. Does(PublicFailed(w), w, Q, Q, P)
  BY <1>3, <1>10 DEF b, c, PublicFailed
<1>12. Does(c \o d, w, {} \cup {}, {} \cup {}, P \cup Q)
  BY <1>2, <1>3, DoesBoth DEF c, d, P, Q
<1>13. Does(d \o c, w, {} \cup {}, {} \cup {}, Q \cup P)
  BY <1>2, <1>3, DoesBoth DEF c, d, P, Q
<1>14. Does(c \o d, w, {}, {}, bak[w]) /\ Does(d \o c, w, {}, {}, bak[w])
  BY <1>3, <1>12, <1>13 DEF P, Q
<1> QED BY <1>7, <1>9, <1>11, <1>14 DEF c, d, e, P, Q

(***************************************************************************)
(* When a plan fits the files there are.                                   *)
(***************************************************************************)
LEMMA PlanFits ==
  ASSUME NEW w, NEW s, NEW R, NEW T, NEW B, Does(s, w, R, T, B),
         \A k \in Key :
            /\ k \in B => dir[Target(k)] = w /\ k \notin R \cup T
            /\ k \in R => dir[Backup(k, w)] = Old
            /\ Former(k) # Absent /\ k \in T => k \in R
            /\ Former(k) # Absent /\ ~stuck /\ k \notin R =>
                  dir[Target(k)] # Absent,
         dir[Target("public")] = w =>
            dir[Target("private")] = w /\ "private" \notin R \cup T
  PROVE  PlanInv(s, w)
<1>1. /\ \A k \in Key : Touches(s, k, w) <=> k \in R \cup T
      /\ Ordered(s, w) /\ "private" \in Key
  BY DEF Does, Touches, Key
<1>2. ASSUME NEW k \in Key
      PROVE  /\ Has(s, Removal(Backup(k, w))) =>
                   dir[Target(k)] = w /\ ~Touches(s, k, w)
             /\ Has(s, Restoring(k, w)) => dir[Backup(k, w)] = Old
             /\ Former(k) # Absent /\ Has(s, Removal(Target(k))) =>
                   Has(s, Restoring(k, w))
             /\ Former(k) # Absent /\ ~stuck /\ ~Has(s, Restoring(k, w)) =>
                   dir[Target(k)] # Absent
  BY <1>1 DEF Does
<1> QED BY <1>1, <1>2 DEF PlanInv

(***************************************************************************)
(* A call begins its best-effort operations, the directory being as it was *)
(* or synced.                                                              *)
(***************************************************************************)
LEMMA BestEffortKeeps ==
  ASSUME TypeInv, UNCHANGED given, NEW w \in Writers, CallInv(w),
         Rank(pc[w]) \in 6..11, NEW ops, PlanInv(ops, w),
         NEW s \in {<<"error">>, <<"chmod">>}, BestEffort(w, ops, s),
         dir' = dir, dir \in onDisk', onDisk' \subseteq onDisk,
         s = <<"chmod">> =>
            \A k \in Key :
               /\ \A d \in onDisk' : d[Target(k)] = w
               /\ dir[Staged(k, w)] = Absent
               /\ ~Touches(ops, k, w)
               /\ dir[Backup(k, w)] # Absent => Has(ops, Removal(Backup(k, w)))
  PROVE  CallInv(w)'
<1>1. /\ pc'[w] = <<"best effort">> /\ todo'[w] = ops /\ after'[w] = s
      /\ bak' = bak /\ stuck' = stuck
  BY DEF BestEffort, TypeInv, KeyType
<1>2. Rank(pc[w])' = 12
  BY <1>1, Ranks
<1>3. \A k \in Key : Former(k)' = Former(k)
  BY SameWriters DEF Former
<1>4. \A d \in onDisk' : Sound(d, w)'
  BY SoundKept DEF CallInv
<1>5. StepInv(w)' /\ StagedInv(w)' /\ EndInv(w)'
  BY <1>2 DEF StepInv, StagedInv, EndInv
<1>6. RecoveryInv(w)'
  <2>1. PlanInv(ops, w)'
    BY <1>1, <1>3 DEF PlanInv, Touches, Ordered, Has
  <2> QED BY <1>1, <2>1 DEF RecoveryInv
<1>7. ReportedInv(w)'
  <2>0. Rank(pc[w])' \notin 13..14
    BY <1>2
  <2>1. Succeeding(w)' => s = <<"chmod">>
    BY <1>1, <2>0 DEF Succeeding
  <2> QED BY <1>1, <1>2, <2>1 DEF ReportedInv, Touches
<1>8. RefusedInv(w)'
  <2>1. ~(~force[w] /\ \E k \in Key : Former(k) # Absent)
    BY NotRefused
  <2> QED BY <1>3, <2>1, SameWriters DEF RefusedInv
<1> QED BY <1>4, <1>5, <1>6, <1>7, <1>8 DEF CallInv

(***************************************************************************)
(* A call goes on from one of its later steps to another.                  *)
(***************************************************************************)
LEMMA LaterKeeps ==
  ASSUME TypeInv, UNCHANGED given, NEW w \in Writers, CallInv(w),
         Rank(pc[w]) \in 6..11, Rank(pc[w])' \in 7..11,
         onDisk' \subseteq onDisk \cup {dir'}, dir' \in onDisk \/ Sound(dir', w),
         StepInv(w)', StagedInv(w)'
  PROVE  CallInv(w)'
<1>1. \A d \in onDisk' : Sound(d, w)'
  BY SoundKept DEF CallInv
<1>2. RecoveryInv(w)' /\ ReportedInv(w)' /\ EndInv(w)'
  BY DEF RecoveryInv, ReportedInv, Succeeding, EndInv
<1>3. RefusedInv(w)'
  <2>1. ~(~force[w] /\ \E k \in Key : Former(k) # Absent)
    BY NotRefused
  <2> QED BY <2>1, SameWriters DEF RefusedInv, Former
<1> QED BY <1>1, <1>2, <1>3 DEF CallInv

(***************************************************************************)
(* The ranges of steps in the invariant.                                   *)
(***************************************************************************)
LEMMA RankRanges ==
  /\ 6 \notin 3..4 /\ 7 \notin 3..4 /\ 8 \notin 3..4 /\ 11 \notin 3..4
  /\ \A r \in 9..10 : r \notin 3..4
  /\ \A r \in 12..14 : r \notin 3..4
  /\ 6 \in 6..11 /\ 6 \in 1..6 /\ 6 \in 4..8 /\ 6 \in 5..10
  /\ 7 \in 6..11 /\ 7 \in 7..11 /\ 7 \notin 1..6 /\ 7 \in 4..8 /\ 7 \in 5..10
  /\ 7 \notin 9..10 /\ 7 \notin 9..11
  /\ 8 \in 6..11 /\ 8 \in 7..11 /\ 8 \notin 1..6 /\ 8 \in 4..8 /\ 8 \in 5..10
  /\ 8 \notin 9..10 /\ 8 \notin 9..11
  /\ \A r \in 9..10 : /\ r \in 6..11 /\ r \in 7..11 /\ r \notin 1..6
                      /\ r \notin 4..8 /\ r \in 5..10 /\ r \in 9..11
                      /\ r \notin {7, 8, 11}
  /\ 11 \in 6..11 /\ 11 \in 7..11 /\ 11 \notin 1..6 /\ 11 \notin 4..8
  /\ 11 \notin 5..10 /\ 11 \notin 9..10 /\ 11 \in 9..11
  /\ \A r \in 12..14 : /\ r \in 3..14 /\ r \notin 1..6 /\ r \notin 9..10
                       /\ r \notin 4..8 /\ r \notin 5..10 /\ r \notin 9..11
                       /\ r \notin {7, 8, 11}
  /\ 12 \in 12..14 /\ 13 \in 12..14 /\ 14 \in 12..14
  /\ 13 \in 13..14 /\ 14 \in 13..14 /\ 12 \notin 13..14
OBVIOUS

(***************************************************************************)
(* The private key is moved aside if there is one.                         *)
(***************************************************************************)
LEMMA BackupPrivateKeeps ==
  ASSUME TypeInv, UNCHANGED given, NEW w \in Writers, CallInv(w),
         backupExisting(w, "private", <<"back up", "public">>)
  PROVE  CallInv(w)'
<1>0. /\ Rank(pc[w]) = 6
      /\ bak[w] = {} /\ \A d \in onDisk : Untouched(d, w)
      /\ \A k \in Key : dir[Staged(k, w)] = w
  <2>1. Rank(pc[w]) = 6
    BY Ranks DEF backupExisting
  <2>2. StepInv(w) /\ StagedInv(w) /\ Sound(dir, w)
    BY CallFacts DEF CallInv
  <2> QED BY <2>1, <2>2, CallFacts, RankRanges DEF StepInv, StagedInv
<1>c. /\ w \in Writer /\ w # Old /\ w # Absent /\ Old # Absent /\ dir \in onDisk
      /\ \A k \in Key : Former(k) \in {Old, Absent}
      /\ "private" \in Key /\ "public" \in Key
      /\ \A k \in Key : k = "private" \/ k = "public"
      /\ \A k \in Key : dir[Target(k)] = Former(k) /\ dir[Backup(k, w)] = Absent
  BY <1>0, CallFacts DEF Untouched
<1>1. CASE Goto(w, <<"back up", "public">>) /\ UNCHANGED dirVars
           /\ dir[Target("private")] = Absent
  <2>1. Rank(pc[w])' = 7 /\ bak' = bak
    BY <1>1, Ranks DEF Goto, local, TypeInv, KeyType
  <2>2. dir' = dir /\ onDisk' = onDisk
    BY <1>1 DEF dirVars
  <2>3. StepInv(w)'
    BY <1>0, <1>c, <1>1, <2>1, <2>2, SameWriters, RankRanges DEF StepInv, Aside, Former
  <2>4. StagedInv(w)'
    BY <1>0, <1>c, <2>1, <2>2, RankRanges DEF StagedInv
  <2> QED BY <1>0, <1>c, <2>1, <2>2, <2>3, <2>4, LaterKeeps, RankRanges
<1>2. CASE /\ dir[Target("private")] # Absent
           /\ Change(Moved(Target("private"), Backup("private", w)))
           /\ bak' = [bak EXCEPT ![w] = @ \cup {"private"}]
           /\ pc' = [pc EXCEPT ![w] = <<"back up", "public">>]
  <2>1. Rank(pc[w])' = 7 /\ bak'[w] = {"private"}
    BY <1>0, <1>2, Ranks DEF TypeInv, KeyType
  <2>2. Shows(w, [TargetsNow EXCEPT !["private"] = Absent],
              [BackupsNow(w) EXCEPT !["private"] = dir[Target("private")]],
              StagedNow(w))
    BY <1>c, <1>2, BackupShows
  <2>3. /\ dir'[Target("private")] = Absent
        /\ dir'[Target("public")] = dir[Target("public")]
        /\ dir'[Backup("private", w)] = dir[Target("private")]
        /\ dir'[Backup("public", w)] = dir[Backup("public", w)]
        /\ \A k \in Key : dir'[Staged(k, w)] = dir[Staged(k, w)]
    BY <1>c, <2>2 DEF Shows, TargetsNow, BackupsNow, StagedNow
  <2>4. Sound(dir', w)
    BY <1>0, <1>c, <1>2, <2>3 DEF Sound
  <2>5. StepInv(w)'
    BY <1>0, <1>c, <1>2, <2>1, <2>3, SameWriters, RankRanges DEF StepInv, Aside, Former
  <2>6. StagedInv(w)'
    BY <1>0, <1>c, <2>1, <2>3, RankRanges DEF StagedInv
  <2>7. onDisk' = onDisk \cup {dir'}
    BY <1>2 DEF Change
  <2> QED BY <1>0, <2>1, <2>4, <2>5, <2>6, <2>7, LaterKeeps, RankRanges
<1>3. CASE /\ BestEffort(w, restoreBackup(w, "private", bak[w]), <<"error">>)
           /\ UNCHANGED dirVars
  <2>1. Does(restoreBackup(w, "private", bak[w]), w, {}, {}, {})
    <3>1. bak[w] \cap {"private"} = {}
      BY <1>0
    <3> QED BY <1>c, <3>1, PlanDoes
  <2>2. dir[Target("public")] # w
    BY <1>c
  <2>3. \A k \in Key : Former(k) # Absent => dir[Target(k)] # Absent
    BY <1>c
  <2> DEFINE ops == restoreBackup(w, "private", bak[w])
  <2> HIDE DEF ops
  <2>4. PICK none : none = {} /\ Does(ops, w, none, none, none)
    BY <2>1 DEF ops
  <2>5. \A k \in Key :
            /\ k \in none => dir[Target(k)] = w /\ k \notin none \cup none
            /\ k \in none => dir[Backup(k, w)] = Old
            /\ Former(k) # Absent /\ k \in none => k \in none
            /\ Former(k) # Absent /\ ~stuck /\ k \notin none =>
                  dir[Target(k)] # Absent
    BY <2>3, <2>4
  <2>6. PlanInv(ops, w)
    BY <2>2, <2>4, <2>5, PlanFits
  <2> QED BY <1>0, <1>c, <1>3, <2>6, BestEffortKeeps, RankRanges DEF dirVars, ops
<1> QED BY <1>1, <1>2, <1>3 DEF backupExisting

(***************************************************************************)
(* The public key is moved aside if there is one.                          *)
(***************************************************************************)
LEMMA BackupPublicKeeps ==
  ASSUME TypeInv, UNCHANGED given, NEW w \in Writers, CallInv(w),
         backupExisting(w, "public", <<"commit", "private">>)
  PROVE  CallInv(w)'
<1>0. /\ Rank(pc[w]) = 7
      /\ Aside("private", w) /\ dir[Target("private")] = Absent
      /\ "public" \notin bak[w]
      /\ dir[Target("public")] = Former("public")
      /\ dir[Backup("public", w)] = Absent
      /\ \A k \in Key : dir[Staged(k, w)] = w
      /\ Sound(dir, w)
  <2>1. Rank(pc[w]) = 7
    BY Ranks DEF backupExisting
  <2>2. StepInv(w) /\ StagedInv(w) /\ Sound(dir, w)
    BY CallFacts DEF CallInv
  <2> QED BY <2>1, <2>2, CallFacts, RankRanges DEF StepInv, StagedInv
<1>c. /\ w \in Writer /\ w # Old /\ w # Absent /\ Old # Absent /\ dir \in onDisk
      /\ \A k \in Key : Former(k) \in {Old, Absent}
      /\ "private" \in Key /\ "public" \in Key
      /\ \A k \in Key : k = "private" \/ k = "public"
  BY <1>0, CallFacts
<1>1. CASE Goto(w, <<"commit", "private">>) /\ UNCHANGED dirVars
           /\ dir[Target("public")] = Absent
  <2>1. Rank(pc[w])' = 8 /\ bak' = bak
    BY <1>1, Ranks DEF Goto, local, TypeInv, KeyType
  <2>2. dir' = dir /\ onDisk' = onDisk
    BY <1>1 DEF dirVars
  <2>3. StepInv(w)'
    BY <1>0, <1>c, <1>1, <2>1, <2>2, SameWriters, RankRanges DEF StepInv, Aside, Former
  <2>4. StagedInv(w)'
    BY <1>0, <1>c, <2>1, <2>2, RankRanges DEF StagedInv
  <2> QED BY <1>0, <1>c, <2>1, <2>2, <2>3, <2>4, LaterKeeps, RankRanges
<1>2. CASE /\ dir[Target("public")] # Absent
           /\ Change(Moved(Target("public"), Backup("public", w)))
           /\ bak' = [bak EXCEPT ![w] = @ \cup {"public"}]
           /\ pc' = [pc EXCEPT ![w] = <<"commit", "private">>]
  <2>1. Rank(pc[w])' = 8 /\ bak'[w] = bak[w] \cup {"public"}
    BY <1>0, <1>2, Ranks DEF TypeInv, KeyType
  <2>2. Shows(w, [TargetsNow EXCEPT !["public"] = Absent],
              [BackupsNow(w) EXCEPT !["public"] = dir[Target("public")]],
              StagedNow(w))
    BY <1>c, <1>2, BackupShows
  <2>3. /\ dir'[Target("public")] = Absent
        /\ dir'[Target("private")] = dir[Target("private")]
        /\ dir'[Backup("public", w)] = dir[Target("public")]
        /\ dir'[Backup("private", w)] = dir[Backup("private", w)]
        /\ \A k \in Key : dir'[Staged(k, w)] = dir[Staged(k, w)]
    BY <1>c, <2>2 DEF Shows, TargetsNow, BackupsNow, StagedNow
  <2>4. Sound(dir', w)
    BY <1>0, <1>c, <1>2, <2>3 DEF Sound
  <2>5. StepInv(w)'
    BY <1>0, <1>c, <1>2, <2>1, <2>3, SameWriters, RankRanges DEF StepInv, Aside, Former
  <2>6. StagedInv(w)'
    BY <1>0, <1>c, <2>1, <2>3, RankRanges DEF StagedInv
  <2>7. onDisk' = onDisk \cup {dir'}
    BY <1>2 DEF Change
  <2> QED BY <1>0, <2>1, <2>4, <2>5, <2>6, <2>7, LaterKeeps, RankRanges
<1>3. CASE /\ BestEffort(w, restoreBackup(w, "private", bak[w]), <<"error">>)
           /\ UNCHANGED dirVars
  <2>1. Does(restoreBackup(w, "private", bak[w]), w, bak[w] \cap {"private"},
             bak[w] \cap {"private"}, {})
    BY <1>c, PlanDoes
  <2>2. dir[Target("public")] # w
    BY <1>0, <1>c
  <2>3. ASSUME NEW k \in Key
        PROVE  /\ k \in bak[w] \cap {"private"} => dir[Backup(k, w)] = Old
               /\ Former(k) # Absent /\ k \notin bak[w] \cap {"private"} =>
                     dir[Target(k)] # Absent
    BY <1>0, <1>c DEF Aside
  <2>4. PlanInv(restoreBackup(w, "private", bak[w]), w)
    BY <2>1, <2>2, <2>3, PlanFits
  <2> QED BY <1>0, <1>c, <1>3, <2>4, BestEffortKeeps, RankRanges DEF dirVars
<1> QED BY <1>1, <1>2, <1>3 DEF backupExisting

(***************************************************************************)
(* The new private key takes its place.                                    *)
(***************************************************************************)
LEMMA CommitPrivateKeeps ==
  ASSUME TypeInv, UNCHANGED given, NEW w \in Writers, CallInv(w), CommitPrivate(w)
  PROVE  CallInv(w)'
<1>0. /\ Rank(pc[w]) = 8
      /\ \A k \in Key : Aside(k, w) /\ dir[Target(k)] = Absent
      /\ \A k \in Key : dir[Staged(k, w)] = w
      /\ Sound(dir, w)
  <2>1. Rank(pc[w]) = 8
    BY Ranks DEF CommitPrivate
  <2>2. StepInv(w) /\ StagedInv(w) /\ Sound(dir, w)
    BY CallFacts DEF CallInv
  <2> QED BY <2>1, <2>2, CallFacts, RankRanges DEF StepInv, StagedInv
<1>c. /\ w \in Writer /\ w # Old /\ w # Absent /\ Old # Absent /\ dir \in onDisk
      /\ \A k \in Key : Former(k) \in {Old, Absent}
      /\ "private" \in Key /\ "public" \in Key
      /\ \A k \in Key : k = "private" \/ k = "public"
  BY CallFacts
<1>1. CASE /\ Change(Moved(Staged("private", w), Target("private")))
           /\ Goto(w, <<"sync", "private">>)
  <2>1. Rank(pc[w])' = 9 /\ bak' = bak
    BY <1>1, Ranks DEF Goto, local, TypeInv, KeyType
  <2>2. Shows(w, [TargetsNow EXCEPT !["private"] = dir[Staged("private", w)]],
              BackupsNow(w), [StagedNow(w) EXCEPT !["private"] = Absent])
    BY <1>c, <1>1, CommitShows
  <2>3. /\ dir'[Target("private")] = w
        /\ dir'[Target("public")] = Absent
        /\ \A k \in Key : dir'[Backup(k, w)] = dir[Backup(k, w)]
        /\ dir'[Staged("private", w)] = Absent
        /\ dir'[Staged("public", w)] = w
    BY <1>0, <1>c, <2>2 DEF Shows, TargetsNow, BackupsNow, StagedNow
  <2>4. Sound(dir', w)
    BY <1>0, <1>c, <2>3 DEF Sound
  <2>5. StepInv(w)'
    BY <1>0, <1>c, <2>1, <2>3, SameWriters, RankRanges DEF StepInv, Aside, Former
  <2>6. StagedInv(w)'
    BY <2>1, <2>3, RankRanges DEF StagedInv
  <2>7. onDisk' = onDisk \cup {dir'}
    BY <1>1 DEF Change
  <2> QED BY <1>0, <2>1, <2>4, <2>5, <2>6, <2>7, LaterKeeps, RankRanges
<1>2. CASE BestEffort(w, Restored(w), <<"error">>) /\ UNCHANGED dirVars
  <2>1. Does(Restored(w), w, bak[w], bak[w], {})
    BY PlansDo
  <2>2. \A k \in Key :
           /\ k \in bak[w] => dir[Backup(k, w)] = Old
           /\ Former(k) # Absent => k \in bak[w]
    BY <1>0, <1>c DEF Aside
  <2>3. dir[Target("public")] # w
    BY <1>0, <1>c
  <2>4. PlanInv(Restored(w), w)
    BY <2>1, <2>2, <2>3, PlanFits
  <2> QED BY <1>0, <1>c, <1>2, <2>4, BestEffortKeeps, RankRanges DEF dirVars
<1> QED BY <1>1, <1>2 DEF CommitPrivate

(***************************************************************************)
(* It is synced, and removed again if that fails.                          *)
(***************************************************************************)
LEMMA SyncPrivateKeeps ==
  ASSUME TypeInv, UNCHANGED given, NEW w \in Writers, CallInv(w), SyncPrivate(w)
  PROVE  CallInv(w)'
<1>0. /\ Rank(pc[w]) = 9
      /\ \A k \in Key : Aside(k, w)
      /\ dir[Target("private")] = w /\ dir[Target("public")] = Absent
      /\ dir[Staged("private", w)] = Absent
      /\ dir[Staged("public", w)] = w
      /\ Sound(dir, w)
  <2>1. Rank(pc[w]) = 9
    BY Ranks DEF SyncPrivate
  <2>2. StepInv(w) /\ StagedInv(w) /\ Sound(dir, w)
    BY CallFacts DEF CallInv
  <2> QED BY <2>1, <2>2, CallFacts, RankRanges DEF StepInv, StagedInv
<1>c. /\ w \in Writer /\ w # Old /\ w # Absent /\ Old # Absent /\ dir \in onDisk
      /\ \A k \in Key : Former(k) \in {Old, Absent}
      /\ "private" \in Key /\ "public" \in Key
      /\ \A k \in Key : k = "private" \/ k = "public"
  BY CallFacts
<1>d. dir' = dir /\ dir \in onDisk' /\ onDisk' \subseteq onDisk
  BY <1>c DEF SyncPrivate, fsyncDir
<1>1. CASE Goto(w, <<"commit", "public">>)
  <2>1. Rank(pc[w])' = 10 /\ bak' = bak
    BY <1>1, Ranks DEF Goto, local, TypeInv, KeyType
  <2>2. StepInv(w)'
    BY <1>0, <1>c, <1>d, <2>1, SameWriters, RankRanges DEF StepInv, Aside, Former
  <2>3. StagedInv(w)'
    BY <1>0, <1>d, <2>1, RankRanges DEF StagedInv
  <2> QED BY <1>0, <1>c, <1>d, <2>1, <2>2, <2>3, LaterKeeps, RankRanges
<1>2. CASE BestEffort(w, RemoveFile(Target("private")) \o Restored(w), <<"error">>)
  <2> DEFINE ops == RemoveFile(Target("private")) \o Restored(w)
  <2>1. Does(ops, w, bak[w], {"private"} \cup bak[w], {})
    BY PlansDo
  <2> HIDE DEF ops
  <2>2. \A k \in Key :
           /\ k \in bak[w] => dir[Backup(k, w)] = Old
           /\ Former(k) # Absent => k \in bak[w]
    BY <1>0, <1>c DEF Aside
  <2>3. dir[Target("public")] # w
    BY <1>0, <1>c
  <2>4. PlanInv(ops, w)
    BY <2>1, <2>2, <2>3, PlanFits
  <2> QED BY <1>0, <1>c, <1>d, <1>2, <2>4, BestEffortKeeps, RankRanges DEF ops
<1> QED BY <1>1, <1>2 DEF SyncPrivate

(***************************************************************************)
(* The new public key takes its place.                                     *)
(***************************************************************************)
LEMMA CommitPublicKeeps ==
  ASSUME TypeInv, UNCHANGED given, NEW w \in Writers, CallInv(w), CommitPublic(w)
  PROVE  CallInv(w)'
<1>0. /\ Rank(pc[w]) = 10
      /\ \A k \in Key : Aside(k, w)
      /\ dir[Target("private")] = w /\ dir[Target("public")] = Absent
      /\ dir[Staged("private", w)] = Absent
      /\ dir[Staged("public", w)] = w
      /\ Sound(dir, w)
  <2>1. Rank(pc[w]) = 10
    BY Ranks DEF CommitPublic
  <2>2. StepInv(w) /\ StagedInv(w) /\ Sound(dir, w)
    BY CallFacts DEF CallInv
  <2> QED BY <2>1, <2>2, CallFacts, RankRanges DEF StepInv, StagedInv
<1>c. /\ w \in Writer /\ w # Old /\ w # Absent /\ Old # Absent /\ dir \in onDisk
      /\ \A k \in Key : Former(k) \in {Old, Absent}
      /\ "private" \in Key /\ "public" \in Key
      /\ \A k \in Key : k = "private" \/ k = "public"
  BY CallFacts
<1>1. CASE /\ Change(Moved(Staged("public", w), Target("public")))
           /\ Goto(w, <<"sync", "public">>)
  <2>1. Rank(pc[w])' = 11 /\ bak' = bak
    BY <1>1, Ranks DEF Goto, local, TypeInv, KeyType
  <2>2. Shows(w, [TargetsNow EXCEPT !["public"] = dir[Staged("public", w)]],
              BackupsNow(w), [StagedNow(w) EXCEPT !["public"] = Absent])
    BY <1>c, <1>1, CommitShows
  <2>3. /\ dir'[Target("private")] = w
        /\ dir'[Target("public")] = w
        /\ \A k \in Key : dir'[Backup(k, w)] = dir[Backup(k, w)]
        /\ dir'[Staged("private", w)] = Absent
        /\ dir'[Staged("public", w)] = Absent
    BY <1>0, <1>c, <2>2 DEF Shows, TargetsNow, BackupsNow, StagedNow
  <2>4. Sound(dir', w)
    BY <1>0, <1>c, <2>3 DEF Sound
  <2>5. StepInv(w)'
    BY <1>0, <1>c, <2>1, <2>3, SameWriters, RankRanges DEF StepInv, Aside, Former
  <2>6. StagedInv(w)'
    BY <2>1, <2>3, RankRanges DEF StagedInv
  <2>7. onDisk' = onDisk \cup {dir'}
    BY <1>1 DEF Change
  <2> QED BY <1>0, <2>1, <2>4, <2>5, <2>6, <2>7, LaterKeeps, RankRanges
<1>2. CASE BestEffort(w, PublicFailed(w), <<"error">>) /\ UNCHANGED dirVars
  <2>1. Does(PublicFailed(w), w, bak[w] \cap {"public"},
             bak[w] \cap {"public"}, bak[w] \cap {"private"})
    BY PlansDo
  <2>2. \A k \in Key :
           /\ k \in bak[w] => dir[Backup(k, w)] = Old
           /\ Former(k) # Absent => k \in bak[w]
    BY <1>0, <1>c DEF Aside
  <2>3. dir[Target("public")] # w
    BY <1>0, <1>c
  <2>4. ASSUME NEW k \in Key
        PROVE  /\ k \in bak[w] \cap {"private"} =>
                     dir[Target(k)] = w /\ k \notin bak[w] \cap {"public"}
               /\ Former(k) # Absent /\ k \notin bak[w] \cap {"public"} =>
                     dir[Target(k)] # Absent
    BY <1>0, <1>c, <2>2
  <2>5. PlanInv(PublicFailed(w), w)
    BY <2>1, <2>2, <2>3, <2>4, PlanFits
  <2> QED BY <1>0, <1>c, <1>2, <2>5, BestEffortKeeps, RankRanges DEF dirVars
<1> QED BY <1>1, <1>2 DEF CommitPublic

(***************************************************************************)
(* It is synced, and stays in its place if that fails.                     *)
(***************************************************************************)
LEMMA SyncPublicKeeps ==
  ASSUME TypeInv, UNCHANGED given, NEW w \in Writers, CallInv(w), SyncPublic(w)
  PROVE  CallInv(w)'
<1>0. /\ Rank(pc[w]) = 11
      /\ \A k \in Key : Aside(k, w) /\ dir[Target(k)] = w
      /\ \A k \in Key : dir[Staged(k, w)] = Absent
  <2>1. Rank(pc[w]) = 11
    BY Ranks DEF SyncPublic
  <2>2. StepInv(w) /\ StagedInv(w)
    BY CallFacts DEF CallInv
  <2> QED BY <2>1, <2>2, CallFacts, RankRanges DEF StepInv, StagedInv
<1>c. /\ w \in Writer /\ w # Old /\ w # Absent /\ Old # Absent /\ dir \in onDisk
      /\ \A k \in Key : Former(k) \in {Old, Absent}
      /\ "private" \in Key /\ "public" \in Key
      /\ \A k \in Key : k = "private" \/ k = "public"
  BY CallFacts
<1>1. ASSUME NEW ops, Does(ops, w, {}, {}, bak[w])
      PROVE  PlanInv(ops, w)
  <2>1. PICK none : none = {} /\ Does(ops, w, none, none, bak[w])
    BY <1>1
  <2>2. \A k \in Key :
            /\ k \in bak[w] => dir[Target(k)] = w /\ k \notin none \cup none
            /\ k \in none => dir[Backup(k, w)] = Old
            /\ Former(k) # Absent /\ k \in none => k \in none
            /\ Former(k) # Absent /\ ~stuck /\ k \notin none =>
                  dir[Target(k)] # Absent
    BY <1>0, <1>c, <2>1
  <2>3. dir[Target("private")] = w /\ "private" \notin none \cup none
    BY <1>0, <1>c, <2>1
  <2> QED BY <2>1, <2>2, <2>3, PlanFits
<1>2. CASE /\ fsyncDir(TRUE)
           /\ BestEffort(w, removeBackup(w, "private") \o removeBackup(w, "public"),
                         <<"chmod">>)
  <2> DEFINE ops == removeBackup(w, "private") \o removeBackup(w, "public")
  <2>1. Does(ops, w, {}, {}, bak[w])
    BY PlansDo
  <2> HIDE DEF ops
  <2>2. dir' = dir /\ onDisk' = {dir}
    BY <1>2 DEF fsyncDir
  <2>3. ASSUME NEW k \in Key
        PROVE  /\ \A d \in onDisk' : d[Target(k)] = w
               /\ dir[Staged(k, w)] = Absent
               /\ ~Touches(ops, k, w)
               /\ dir[Backup(k, w)] # Absent => Has(ops, Removal(Backup(k, w)))
    BY <1>0, <1>c, <2>1, <2>2 DEF Does, Touches, Aside
  <2> QED BY <1>0, <1>c, <1>1, <1>2, <2>1, <2>2, <2>3, BestEffortKeeps, RankRanges
          DEF ops
<1>3. CASE /\ fsyncDir(FALSE)
           /\ BestEffort(w, removeBackup(w, "public") \o removeBackup(w, "private"),
                         <<"error">>)
  <2> DEFINE ops == removeBackup(w, "public") \o removeBackup(w, "private")
  <2>1. Does(ops, w, {}, {}, bak[w])
    BY PlansDo
  <2> HIDE DEF ops
  <2>2. dir' = dir /\ dir \in onDisk' /\ onDisk' \subseteq onDisk
    BY <1>c, <1>3 DEF fsyncDir
  <2> QED BY <1>0, <1>c, <1>1, <1>3, <2>1, <2>2, BestEffortKeeps, RankRanges
          DEF ops
<1> QED BY <1>2, <1>3 DEF SyncPublic

(***************************************************************************)
(* The public key is made readable, and the call returns.                  *)
(***************************************************************************)
LEMMA ChmodKeeps ==
  ASSUME TypeInv, UNCHANGED given, NEW w \in Writers, CallInv(w), Chmod(w)
  PROVE  CallInv(w)'
<1>0. /\ Rank(pc[w]) = 13
      /\ \A k \in Key :
            /\ \A d \in onDisk : d[Target(k)] = w
            /\ dir[Staged(k, w)] = Absent
            /\ ~stuck => dir[Backup(k, w)] = Absent
      /\ ~(~force[w] /\ \E k \in Key : Former(k) # Absent)
  <2>1. Rank(pc[w]) = 13
    BY Ranks DEF Chmod
  <2>2. Succeeding(w)
    BY <2>1, RankRanges DEF Succeeding
  <2>3. ~(~force[w] /\ \E k \in Key : Former(k) # Absent)
    BY <2>1, NotRefused, RankRanges
  <2> QED BY <2>1, <2>2, <2>3 DEF CallInv, ReportedInv
<1>c. /\ w # Absent /\ dir \in onDisk /\ Sound(dir, w)
      /\ \A d \in onDisk : Sound(d, w)
  BY CallFacts DEF CallInv
<1>1. CASE Return(w, <<"error">>)
  BY <1>0, <1>c, <1>1, ErrorKeeps
<1>2. CASE Return(w, <<"ok">>)
  <2>1. PICK left :
           /\ Shows(w, TargetsNow, BackupsNow(w), left)
           /\ \A k \in Key : left[k] = Absent \/ left[k] = dir[Staged(k, w)]
           /\ stuck => stuck'
           /\ onDisk' = onDisk \cup {dir'}
           /\ pc'[w] = <<"ok">>
    BY <1>2, ReturnShows
  <2>2. \A k \in Key : /\ dir'[Target(k)] = dir[Target(k)]
                       /\ dir'[Backup(k, w)] = dir[Backup(k, w)]
                       /\ dir'[Staged(k, w)] = Absent
                       /\ Former(k)' = Former(k)
    BY <1>0, <2>1, SameWriters DEF Shows, TargetsNow, BackupsNow, Former
  <2>3. Sound(dir', w)
    BY <1>c, <2>2, CallFacts DEF Sound
  <2>4. \A d \in onDisk' : Sound(d, w)'
    BY <1>c, <2>1, <2>3, SoundKept
  <2>r. Rank(pc[w])' = 14
    BY <2>1, Ranks
  <2>5. StepInv(w)' /\ StagedInv(w)' /\ RecoveryInv(w)' /\ EndInv(w)'
    BY <2>r, RankRanges DEF StepInv, StagedInv, RecoveryInv, EndInv
  <2>6. \A k \in Key : \A d \in onDisk' : d[Target(k)] = w
    BY <1>0, <1>c, <2>1, <2>2
  <2>7. ReportedInv(w)'
    BY <1>0, <2>1, <2>2, <2>6, <2>r DEF ReportedInv
  <2>8. RefusedInv(w)'
    BY <1>0, <2>2, SameWriters DEF RefusedInv
  <2> QED BY <2>4, <2>5, <2>7, <2>8 DEF CallInv
<1> QED BY <1>1, <1>2 DEF Chmod

-----------------------------------------------------------------------------
(***************************************************************************)
(* The operations that are left when the first of them has been tried.     *)
(***************************************************************************)
LEMMA OperationsLeft ==
  ASSUME NEW w, NEW s \in Seq(Operation(w)), s # <<>>, Ordered(s, w)
  PROVE  /\ Head(s) \in Operation(w) /\ Tail(s) \in Seq(Operation(w))
         /\ \A o : Has(s, o) <=> o = Head(s) \/ Has(Tail(s), o)
         /\ Ordered(Tail(s), w)
         /\ \A k \in Key : Head(s) = Restoring(k, w) => ~Touches(Tail(s), k, w)
<1>1. /\ Head(s) \in Operation(w) /\ Tail(s) \in Seq(Operation(w))
      /\ Len(s) \in Nat /\ Len(s) >= 1
      /\ DOMAIN s = 1 .. Len(s) /\ DOMAIN Tail(s) = 1 .. Len(s) - 1
      /\ Head(s) = s[1] /\ \A i \in 1 .. Len(s) - 1 : Tail(s)[i] = s[i + 1]
  BY HeadTailProperties, EmptySeq
<1> DEFINE h == Head(s)
           t == Tail(s)
<1> HIDE DEF h, t
<1>2. ASSUME NEW o, o = h \/ Has(t, o) PROVE Has(s, o)
  <2>1. CASE o = h
    BY <1>1, <2>1 DEF Has, h
  <2>2. CASE Has(t, o)
    <3>1. PICK i \in 1 .. Len(s) - 1 : t[i] = o
      BY <1>1, <2>2 DEF Has, t
    <3>2. i + 1 \in 1 .. Len(s) /\ s[i + 1] = o
      BY <1>1, <3>1 DEF t
    <3> QED BY <1>1, <3>2 DEF Has
  <2> QED BY <1>2, <2>1, <2>2
<1>3. ASSUME NEW o, Has(s, o), o # h PROVE Has(t, o)
  <2>1. PICK i \in 1 .. Len(s) : s[i] = o
    BY <1>1, <1>3 DEF Has
  <2>2. i # 1
    BY <1>1, <1>3, <2>1 DEF h
  <2>3. i - 1 \in 1 .. Len(s) - 1 /\ t[i - 1] = s[(i - 1) + 1] /\ (i - 1) + 1 = i
    BY <1>1, <2>2 DEF t
  <2> QED BY <1>1, <2>1, <2>3 DEF Has, t
<1>4. Ordered(t, w)
  <2> SUFFICES ASSUME NEW k \in Key, NEW i \in 1 .. Len(s) - 1,
                      NEW j \in 1 .. Len(s) - 1, t[i] = Restoring(k, w),
                      t[j] \in {Restoring(k, w), Removal(Target(k))}
               PROVE  j <= i
    BY <1>1 DEF Ordered, t
  <2>1. /\ i + 1 \in 1 .. Len(s) /\ s[i + 1] = t[i]
        /\ j + 1 \in 1 .. Len(s) /\ s[j + 1] = t[j]
    BY <1>1 DEF t
  <2>2. j + 1 <= i + 1
    BY <1>1, <2>1 DEF Ordered
  <2> QED BY <1>1, <2>2
<1>5. ASSUME NEW k \in Key, h = Restoring(k, w), Touches(t, k, w) PROVE FALSE
  <2>1. PICK i \in 1 .. Len(s) - 1 : t[i] \in {Restoring(k, w), Removal(Target(k))}
    BY <1>1, <1>5 DEF Touches, Has, t
  <2>2. i + 1 \in 1 .. Len(s) /\ 1 \in 1 .. Len(s)
        /\ s[i + 1] \in {Restoring(k, w), Removal(Target(k))}
    BY <1>1, <2>1 DEF t
  <2>3. i + 1 <= 1
    BY <1>1, <1>5, <2>2 DEF Ordered, h
  <2> QED BY <2>3
<1> QED BY <1>1, <1>2, <1>3, <1>4, <1>5 DEF h, t

(***************************************************************************)
(* A call goes on with its best-effort operations.                         *)
(***************************************************************************)
LEMMA RecoveryKeeps ==
  ASSUME TypeInv, UNCHANGED given, NEW w \in Writers, CallInv(w),
         Rank(pc[w]) = 12, UNCHANGED <<pc, after>>,
         onDisk' \subseteq onDisk \cup {dir'}, dir' \in onDisk \/ Sound(dir', w),
         PlanInv(todo[w], w)', ReportedInv(w)'
  PROVE  CallInv(w)'
<1>1. \A d \in onDisk' : Sound(d, w)'
  BY SoundKept DEF CallInv
<1>2. Rank(pc[w])' = 12
  OBVIOUS
<1>3. StepInv(w)' /\ StagedInv(w)' /\ EndInv(w)'
  BY <1>2, RankRanges DEF StepInv, StagedInv, EndInv
<1>4. RecoveryInv(w)'
  BY DEF CallInv, RecoveryInv
<1>5. RefusedInv(w)'
  <2>1. ~(~force[w] /\ \E k \in Key : Former(k) # Absent)
    BY NotRefused, RankRanges
  <2> QED BY <2>1, SameWriters DEF RefusedInv, Former
<1> QED BY <1>1, <1>3, <1>4, <1>5 DEF CallInv

(***************************************************************************)
(* One of them is tried, and fails or not.                                 *)
(***************************************************************************)
LEMMA TryKeeps ==
  ASSUME TypeInv, UNCHANGED given, NEW w \in Writers, CallInv(w), Try(w)
  PROVE  CallInv(w)'
<1>c. /\ w \in Writer /\ w # Old /\ w # Absent /\ Old # Absent /\ dir \in onDisk
      /\ Absent \in Content /\ dir \in Directories
      /\ \A k \in Key : Former(k) \in {Old, Absent}
      /\ "private" \in Key /\ "public" \in Key
      /\ \A k \in Key : k = "private" \/ k = "public"
  BY CallFacts
<1>0. /\ Rank(pc[w]) = 12 /\ PlanInv(todo[w], w) /\ ReportedInv(w) /\ Sound(dir, w)
      /\ todo[w] \in Seq(Operation(w)) /\ todo[w] # <<>>
  <2>1. Rank(pc[w]) = 12
    BY Ranks DEF Try
  <2> QED BY <1>c, <2>1 DEF CallInv, RecoveryInv, Try, TypeInv, KeyType
<1>1. PICK s, h, t : s = todo[w] /\ h = Head(s) /\ t = Tail(s)
  OBVIOUS
<1>2. /\ h \in Operation(w)
      /\ \A o : Has(s, o) <=> o = h \/ Has(t, o)
      /\ Ordered(t, w)
      /\ \A k \in Key : h = Restoring(k, w) => ~Touches(t, k, w)
  BY <1>0, <1>1, OperationsLeft DEF PlanInv
<1>3. /\ pc' = pc /\ after' = after /\ bak' = bak /\ todo'[w] = t
      /\ \/ Change(Effect(h)) /\ stuck' = stuck
         \/ UNCHANGED dirVars /\ stuck' = TRUE
      /\ \A k \in Key : Former(k)' = Former(k)
  BY <1>1, SameWriters DEF Try, TypeInv, KeyType, Former
<1>4. ASSUME NEW k \in Key
      PROVE  /\ Has(s, Removal(Backup(k, w))) =>
                   dir[Target(k)] = w /\ ~Touches(s, k, w)
             /\ Has(s, Restoring(k, w)) => dir[Backup(k, w)] = Old
             /\ Former(k) # Absent /\ Has(s, Removal(Target(k))) =>
                   Has(s, Restoring(k, w))
             /\ Former(k) # Absent /\ ~stuck /\ ~Has(s, Restoring(k, w)) =>
                   dir[Target(k)] # Absent
  BY <1>0, <1>1 DEF PlanInv
<1>5. dir[Target("public")] = w =>
         dir[Target("private")] = w /\ ~Touches(s, "private", w)
  BY <1>0, <1>1 DEF PlanInv
<1>6. \A k \in Key : Touches(t, k, w) => Touches(s, k, w)
  BY <1>2 DEF Touches
<1>7. ASSUME NEW k \in Key, Former(k) # Absent, Has(t, Removal(Target(k)))
      PROVE  Has(t, Restoring(k, w))
  <2>1. Has(s, Restoring(k, w)) /\ Touches(t, k, w)
    BY <1>2, <1>4, <1>7 DEF Touches
  <2> QED BY <1>2, <2>1
<1>8. /\ Succeeding(w)' <=> Succeeding(w)
      /\ Succeeding(w) => \A k \in Key :
            /\ \A d \in onDisk : d[Target(k)] = w
            /\ dir[Staged(k, w)] = Absent
            /\ ~Touches(s, k, w)
            /\ ~stuck /\ dir[Backup(k, w)] # Absent =>
                  Has(s, Removal(Backup(k, w)))
  <2>1. Succeeding(w)' <=> Succeeding(w)
    BY <1>3 DEF Succeeding
  <2> QED BY <1>0, <1>1, <2>1 DEF ReportedInv
<1>9. ASSUME \A k \in Key :
               /\ Has(t, Removal(Backup(k, w))) => dir'[Target(k)] = w
               /\ Has(t, Restoring(k, w)) => dir'[Backup(k, w)] = Old
               /\ Former(k) # Absent /\ ~stuck' /\ ~Has(t, Restoring(k, w)) =>
                     dir'[Target(k)] # Absent,
             dir'[Target("public")] = w =>
                dir'[Target("private")] = w /\ ~Touches(t, "private", w)
      PROVE  PlanInv(todo[w], w)'
  <2>1. PlanInv(t, w)'
    <3>1. ASSUME NEW k \in Key
          PROVE  /\ Has(t, Removal(Backup(k, w))) => ~Touches(t, k, w)
                 /\ Former(k)' # Absent /\ Has(t, Removal(Target(k))) =>
                       Has(t, Restoring(k, w))
      BY <1>2, <1>3, <1>4, <1>6, <1>7
    <3> QED BY <1>2, <1>3, <1>9, <3>1 DEF PlanInv, Touches, Ordered, Has
  <2> QED BY <1>3, <2>1
<1>10. ASSUME Succeeding(w) => \A k \in Key :
                 /\ \A d \in onDisk' : d[Target(k)] = w
                 /\ dir'[Staged(k, w)] = Absent
                 /\ ~stuck' /\ dir'[Backup(k, w)] # Absent =>
                       Has(t, Removal(Backup(k, w)))
       PROVE  ReportedInv(w)'
  <2>1. \A k \in Key : Succeeding(w) => ~Touches(t, k, w)
    BY <1>6, <1>8
  <2>2. \A k \in Key : Succeeding(w) => ~Touches(t, k, w)'
    BY <2>1 DEF Touches, Has
  <2>3. Rank(pc[w])' = 12
    BY <1>0, <1>3
  <2> QED BY <1>3, <1>8, <1>10, <2>2, <2>3 DEF ReportedInv, Has
<1>11. CASE UNCHANGED dirVars /\ stuck' = TRUE
  <2>1. dir' = dir /\ onDisk' = onDisk
    BY <1>11 DEF dirVars
  <2>2. PlanInv(todo[w], w)'
    <3>1. ASSUME NEW k \in Key
          PROVE  /\ Has(t, Removal(Backup(k, w))) => dir'[Target(k)] = w
                 /\ Has(t, Restoring(k, w)) => dir'[Backup(k, w)] = Old
                 /\ Former(k) # Absent /\ ~stuck' /\ ~Has(t, Restoring(k, w)) =>
                       dir'[Target(k)] # Absent
      BY <1>2, <1>4, <1>11, <2>1
    <3>2. dir'[Target("public")] = w =>
             dir'[Target("private")] = w /\ ~Touches(t, "private", w)
      BY <1>5, <1>6, <1>c, <2>1
    <3> QED BY <1>9, <3>1, <3>2
  <2>3. ReportedInv(w)'
    BY <1>8, <1>10, <1>11, <2>1
  <2> QED BY <1>0, <1>3, <1>c, <2>1, <2>2, <2>3, RecoveryKeeps
<1>12. CASE Change(Effect(h)) /\ stuck' = stuck
  <2>0. onDisk' = onDisk \cup {dir'}
    BY <1>12 DEF Change
  <2>1. ASSUME NEW l \in Key, h = Removal(Target(l)) PROVE CallInv(w)'
    <3>1. Shows(w, [TargetsNow EXCEPT ![l] = Absent], BackupsNow(w), StagedNow(w))
      BY <1>12, <2>1, EffectOf, RemoveTargetShows
    <3>2. \A k \in Key :
            /\ dir'[Target(k)] = IF k = l THEN Absent ELSE dir[Target(k)]
            /\ dir'[Backup(k, w)] = dir[Backup(k, w)]
            /\ dir'[Staged(k, w)] = dir[Staged(k, w)]
      BY <3>1 DEF Shows, TargetsNow, BackupsNow, StagedNow
    <3>3. /\ Touches(s, l, w) /\ Has(s, Removal(Target(l)))
          /\ \A k \in Key : Has(s, Restoring(k, w)) <=> Has(t, Restoring(k, w))
      BY <1>2, <1>c, <2>1, OperationsDiffer DEF Touches
    <3>4. Sound(dir', w)
      <4>1. l = "private" => dir[Target("public")] # w
        BY <1>5, <3>3
      <4>2. l = "private" /\ Former("private") # Absent =>
               dir[Backup("private", w)] = Old
        BY <1>4, <3>3
      <4> QED BY <1>0, <1>c, <3>2, <4>1, <4>2 DEF Sound
    <3>5. ASSUME NEW k \in Key
          PROVE  /\ Has(t, Removal(Backup(k, w))) => dir'[Target(k)] = w
                 /\ Has(t, Restoring(k, w)) => dir'[Backup(k, w)] = Old
                 /\ Former(k) # Absent /\ ~stuck' /\ ~Has(t, Restoring(k, w)) =>
                       dir'[Target(k)] # Absent
      BY <1>2, <1>4, <1>12, <3>2, <3>3
    <3>6. dir'[Target("public")] = w =>
             dir'[Target("private")] = w /\ ~Touches(t, "private", w)
      BY <1>5, <1>6, <1>c, <3>2, <3>3
    <3>7. PlanInv(todo[w], w)'
      BY <1>9, <3>5, <3>6
    <3>8. ReportedInv(w)'
      BY <1>8, <1>10, <3>3
    <3> QED BY <1>0, <1>3, <2>0, <3>4, <3>7, <3>8, RecoveryKeeps
  <2>2. ASSUME NEW l \in Key, h = Restoring(l, w) PROVE CallInv(w)'
    <3>0. Has(s, Restoring(l, w)) /\ Touches(s, l, w) /\ dir[Backup(l, w)] = Old
      BY <1>2, <1>4, <2>2 DEF Touches
    <3>1. Shows(w, [TargetsNow EXCEPT ![l] = dir[Backup(l, w)]],
                [BackupsNow(w) EXCEPT ![l] = Absent], StagedNow(w))
      <4>1. Effect(h) = Moved(Backup(l, w), Target(l))
        BY <1>c, <2>2, <3>0, EffectOf
      <4> QED BY <1>12, <4>1, RestoreShows
    <3>2. \A k \in Key :
            /\ dir'[Target(k)] = IF k = l THEN Old ELSE dir[Target(k)]
            /\ dir'[Backup(k, w)] = IF k = l THEN Absent ELSE dir[Backup(k, w)]
            /\ dir'[Staged(k, w)] = dir[Staged(k, w)]
      BY <3>0, <3>1 DEF Shows, TargetsNow, BackupsNow, StagedNow
    <3>3. /\ ~Has(t, Restoring(l, w))
          /\ \A k \in Key \ {l} : Has(s, Restoring(k, w)) <=> Has(t, Restoring(k, w))
          /\ ~Has(t, Removal(Backup(l, w)))
      <4>1. ~Touches(t, l, w)
        BY <1>2, <2>2
      <4>2. \A k \in Key \ {l} : Has(s, Restoring(k, w)) <=> Has(t, Restoring(k, w))
        BY <1>2, <1>c, <2>2, OperationsDiffer
      <4>3. ~Has(t, Removal(Backup(l, w)))
        BY <1>2, <1>4, <3>0
      <4> QED BY <4>1, <4>2, <4>3 DEF Touches
    <3>4. Sound(dir', w)
      <4>1. l = "private" => dir[Target("public")] # w
        BY <1>5, <3>0
      <4> QED BY <1>0, <1>c, <3>2, <4>1 DEF Sound
    <3>5. ASSUME NEW k \in Key
          PROVE  /\ Has(t, Removal(Backup(k, w))) => dir'[Target(k)] = w
                 /\ Has(t, Restoring(k, w)) => dir'[Backup(k, w)] = Old
                 /\ Former(k) # Absent /\ ~stuck' /\ ~Has(t, Restoring(k, w)) =>
                       dir'[Target(k)] # Absent
      BY <1>2, <1>4, <1>12, <1>c, <3>2, <3>3
    <3>6. dir'[Target("public")] = w =>
             dir'[Target("private")] = w /\ ~Touches(t, "private", w)
      BY <1>5, <1>6, <1>c, <3>0, <3>2
    <3>7. PlanInv(todo[w], w)'
      BY <1>9, <3>5, <3>6
    <3>8. ReportedInv(w)'
      BY <1>8, <1>10, <3>0
    <3> QED BY <1>0, <1>3, <2>0, <3>4, <3>7, <3>8, RecoveryKeeps
  <2>3. ASSUME NEW l \in Key, h = Removal(Backup(l, w)) PROVE CallInv(w)'
    <3>0. dir[Target(l)] = w /\ ~Touches(s, l, w)
      BY <1>2, <1>4, <2>3
    <3>1. Shows(w, TargetsNow, [BackupsNow(w) EXCEPT ![l] = Absent], StagedNow(w))
      BY <1>12, <2>3, EffectOf, RemoveBackupShows
    <3>2. \A k \in Key :
            /\ dir'[Target(k)] = dir[Target(k)]
            /\ dir'[Backup(k, w)] = IF k = l THEN Absent ELSE dir[Backup(k, w)]
            /\ dir'[Staged(k, w)] = dir[Staged(k, w)]
      BY <3>1 DEF Shows, TargetsNow, BackupsNow, StagedNow
    <3>3. /\ ~Has(s, Restoring(l, w))
          /\ \A k \in Key : Has(s, Restoring(k, w)) <=> Has(t, Restoring(k, w))
          /\ \A k \in Key \ {l} :
                Has(s, Removal(Backup(k, w))) => Has(t, Removal(Backup(k, w)))
      BY <1>2, <1>c, <2>3, <3>0, OperationsDiffer DEF Touches
    <3>4. Sound(dir', w)
      BY <1>0, <1>c, <3>0, <3>2 DEF Sound
    <3>5. ASSUME NEW k \in Key
          PROVE  /\ Has(t, Removal(Backup(k, w))) => dir'[Target(k)] = w
                 /\ Has(t, Restoring(k, w)) => dir'[Backup(k, w)] = Old
                 /\ Former(k) # Absent /\ ~stuck' /\ ~Has(t, Restoring(k, w)) =>
                       dir'[Target(k)] # Absent
      BY <1>2, <1>4, <1>12, <3>2, <3>3
    <3>6. dir'[Target("public")] = w =>
             dir'[Target("private")] = w /\ ~Touches(t, "private", w)
      BY <1>5, <1>6, <1>c, <3>2
    <3>7. PlanInv(todo[w], w)'
      BY <1>9, <3>5, <3>6
    <3>8. ReportedInv(w)'
      BY <1>8, <1>10, <1>12, <1>c, <2>0, <3>2, <3>3
    <3> QED BY <1>0, <1>3, <2>0, <3>4, <3>7, <3>8, RecoveryKeeps
  <2> QED BY <1>2, <2>1, <2>2, <2>3 DEF Operation
<1> QED BY <1>3, <1>11, <1>12

(***************************************************************************)
(* All have been tried: the call returns its error, or goes on.            *)
(***************************************************************************)
LEMMA TriedKeeps ==
  ASSUME TypeInv, UNCHANGED given, NEW w \in Writers, CallInv(w), Tried(w)
  PROVE  CallInv(w)'
<1>0. /\ Rank(pc[w]) = 12 /\ PlanInv(todo[w], w) /\ ReportedInv(w)
      /\ todo[w] = <<>> /\ \A d \in onDisk : Sound(d, w)
      /\ after[w] \in {<<"error">>, <<"chmod">>}
  <2>1. Rank(pc[w]) = 12
    BY Ranks DEF Tried
  <2> QED BY <2>1 DEF CallInv, RecoveryInv, Tried
<1>1. \A o : ~Has(todo[w], o)
  BY <1>0, HasFew
<1>2. CASE Return(w, <<"error">>)
  <2>1. ~stuck => \A k \in Key : Former(k) # Absent => dir[Target(k)] # Absent
    BY <1>0, <1>1 DEF PlanInv
  <2> QED BY <1>2, <2>1, ErrorKeeps
<1>3. CASE after[w] = <<"chmod">> /\ Goto(w, after[w]) /\ UNCHANGED dirVars
  <2>1. /\ pc'[w] = <<"chmod">> /\ stuck' = stuck
        /\ dir' = dir /\ onDisk' = onDisk
        /\ \A k \in Key : Former(k)' = Former(k)
    BY <1>3, SameWriters DEF Goto, TypeInv, KeyType, dirVars, Former
  <2>2. Rank(pc[w])' = 13
    BY <2>1, Ranks
  <2>3. StepInv(w)' /\ StagedInv(w)' /\ RecoveryInv(w)' /\ EndInv(w)'
    BY <2>2, RankRanges DEF StepInv, StagedInv, RecoveryInv, EndInv
  <2>4. \A d \in onDisk' : Sound(d, w)'
    <3>1. dir' \in onDisk
      BY <2>1, CallFacts
    <3> QED BY <1>0, <2>1, <3>1, SoundKept
  <2>5. Succeeding(w)
    BY <1>0, <1>3 DEF Succeeding
  <2>6. \A k \in Key :
          /\ \A d \in onDisk : d[Target(k)] = w
          /\ dir[Staged(k, w)] = Absent
          /\ ~stuck => dir[Backup(k, w)] = Absent
    BY <1>0, <1>1, <2>5 DEF ReportedInv
  <2>7. ReportedInv(w)'
    BY <2>1, <2>2, <2>6 DEF ReportedInv
  <2>8. RefusedInv(w)'
    <3>1. ~(~force[w] /\ \E k \in Key : Former(k) # Absent)
      BY <1>0, NotRefused, RankRanges
    <3> QED BY <3>1, SameWriters DEF RefusedInv, Former
  <2> QED BY <2>3, <2>4, <2>7, <2>8 DEF CallInv
<1> QED BY <1>0, <1>2, <1>3 DEF Tried

-----------------------------------------------------------------------------
(***************************************************************************)
(* Every step of a call of keygen keeps what holds of it.                  *)
(***************************************************************************)
LEMMA CallKeeps ==
  ASSUME TypeInv, UNCHANGED given, NEW w \in Writers, CallInv(w),
         WriteKeyFiles(w) \/ Kill(w)
  PROVE  CallInv(w)'
<1>1. CASE Kill(w)
  <2>1. pc'[w] = <<"killed">> /\ dir' \in onDisk /\ onDisk' \subseteq onDisk
    BY <1>1, CallFacts DEF Kill, Goto, dirVars, TypeInv, KeyType
  <2> QED BY <2>1, KilledKeeps
<1>2. CASE WriteKeyFiles(w)
  BY <1>2, CallFacts, CheckKeeps, StageKeeps, SyncStagedKeeps, VerifyKeeps,
     BackupPrivateKeeps, BackupPublicKeeps, CommitPrivateKeeps, SyncPrivateKeeps,
     CommitPublicKeeps, SyncPublicKeeps, ChmodKeeps, TryKeeps, TriedKeeps
  DEF WriteKeyFiles
<1> QED BY <1>1, <1>2

(***************************************************************************)
(* A step that leaves the key files alone keeps it too.                    *)
(***************************************************************************)
LEMMA LeftAloneKeeps ==
  ASSUME TypeInv, UNCHANGED given, NEW w \in Writers, CallInv(w),
         UNCHANGED kvars, LeavesKeys
  PROVE  CallInv(w)'
<1>1. /\ pc' = pc /\ bak' = bak /\ todo' = todo /\ after' = after /\ stuck' = stuck
      /\ force' = force /\ \A k \in Key : Former(k)' = Former(k)
  BY SameWriters DEF kvars, local, Former
<1>2. \A k \in Key : Target(k) \in Names /\ Staged(k, w) \in Names
                                         /\ Backup(k, w) \in Names
  BY CallFacts DEF Names
<1>3. /\ \A k \in Key : /\ dir'[Target(k)] = dir[Target(k)]
                        /\ dir'[Staged(k, w)] = dir[Staged(k, w)]
                        /\ dir'[Backup(k, w)] = dir[Backup(k, w)]
      /\ \A e \in onDisk' : \E d \in onDisk : \A k \in Key :
            /\ e[Target(k)] = d[Target(k)]
            /\ e[Staged(k, w)] = d[Staged(k, w)]
            /\ e[Backup(k, w)] = d[Backup(k, w)]
  BY <1>2 DEF LeavesKeys
<1>c. "private" \in Key /\ "public" \in Key
  BY CallFacts
<1>4. \A d \in onDisk' : Sound(d, w)'
  BY <1>1, <1>3, <1>c DEF CallInv, Sound
<1>5. StepInv(w)'
  <2>1. \A k \in Key : Aside(k, w)' <=> Aside(k, w)
    BY <1>1, <1>3 DEF Aside
  <2>2. Rank(pc[w]) \in 1..6 => \A d \in onDisk' : Untouched(d, w)'
    BY <1>1, <1>3 DEF CallInv, StepInv, Untouched
  <2> QED BY <1>1, <1>3, <1>c, <2>1, <2>2 DEF CallInv, StepInv
<1>6. StagedInv(w)'
  <2>1. \A k : Syncing(w, k)' <=> Syncing(w, k)
    BY <1>1 DEF Syncing
  <2> QED BY <1>1, <1>3, <1>c, <2>1 DEF CallInv, StagedInv
<1>7. RecoveryInv(w)'
  <2>1. PlanInv(todo[w], w) => PlanInv(todo[w], w)'
    BY <1>1, <1>3, <1>c DEF PlanInv, Touches, Ordered, Has
  <2> QED BY <1>1, <2>1 DEF CallInv, RecoveryInv
<1>8. ReportedInv(w)'
  <2>1. Succeeding(w)' <=> Succeeding(w)
    BY <1>1 DEF Succeeding
  <2> QED BY <1>1, <1>3, <2>1 DEF CallInv, ReportedInv, Touches, Has
<1>9. EndInv(w)'
  BY <1>1, <1>3 DEF CallInv, EndInv
<1>10. RefusedInv(w)'
  <2> SUFFICES ASSUME ~force[w], \E k \in Key : Former(k) # Absent
               PROVE  /\ Rank(pc[w]) \in {1, 2, 15, 16}
                      /\ Rank(pc[w]) = 2 => Former("private") = Absent
                      /\ \A d \in onDisk', k \in Key :
                            /\ d[Target(k)] = Former(k)
                            /\ d[Staged(k, w)] = Absent /\ d[Backup(k, w)] = Absent
    BY <1>1, <1>c DEF RefusedInv
  <2>1. RefusedInv(w)
    BY DEF CallInv
  <2>2. \A d \in onDisk, k \in Key :
            /\ d[Target(k)] = Former(k)
            /\ d[Staged(k, w)] = Absent /\ d[Backup(k, w)] = Absent
    BY <2>1 DEF RefusedInv
  <2>3. \A d \in onDisk', k \in Key :
            /\ d[Target(k)] = Former(k)
            /\ d[Staged(k, w)] = Absent /\ d[Backup(k, w)] = Absent
    BY <1>3, <2>2
  <2> QED BY <2>1, <2>3 DEF RefusedInv
<1> QED BY <1>4, <1>5, <1>6, <1>7, <1>8, <1>9, <1>10 DEF CallInv

(***************************************************************************)
(* And so does a power loss.                                               *)
(***************************************************************************)
LEMMA PowerLossKeeps ==
  ASSUME TypeInv, UNCHANGED given, NEW w \in Writers, CallInv(w), LosePower
  PROVE  CallInv(w)'
<1>1. /\ dir' \in onDisk /\ onDisk' = {dir'}
      /\ pc'[w] = IF pc[w] = FirstStep(w) THEN pc[w] ELSE <<"killed">>
      /\ bak' = bak /\ stuck' = stuck
  BY SameWriters DEF LosePower, PowerLoss, KeysLost, local
<1>2. CASE pc[w] # FirstStep(w)
  BY <1>1, <1>2, KilledKeeps
<1>3. CASE pc[w] = FirstStep(w)
  <2>1. Rank(pc[w]) = 1 \/ Rank(pc[w]) = 3
    BY <1>3, Ranks DEF FirstStep
  <2>2. Rank(pc[w])' = Rank(pc[w])
    BY <1>1, <1>3
  <2>3. /\ Rank(pc[w]) \in 1..6 /\ Rank(pc[w]) \notin 4..8
        /\ Rank(pc[w]) \notin 5..10 /\ Rank(pc[w]) \notin 9..11
        /\ Rank(pc[w]) \notin 9..10 /\ Rank(pc[w]) \notin 13..14
        /\ Rank(pc[w]) \notin {7, 8, 11, 12, 15}
    BY <2>1
  <2>4. \A d \in onDisk' : Sound(d, w)'
    BY <1>1, SoundKept DEF CallInv
  <2>5. \A k \in Key : Former(k)' = Former(k)
    BY SameWriters DEF Former
  <2>6. StepInv(w)'
    <3>1. bak[w] = {} /\ Untouched(dir', w)
      BY <1>1, <2>3 DEF CallInv, StepInv
    <3>2. \A d \in onDisk' : Untouched(d, w)'
      BY <1>1, <2>5, <3>1 DEF Untouched
    <3> QED BY <1>1, <2>2, <2>3, <3>1, <3>2 DEF StepInv
  <2>p. \A k : ~Syncing(w, k)'
    BY <1>1, <1>3 DEF FirstStep, Syncing
  <2>7. StagedInv(w)' /\ RecoveryInv(w)' /\ ReportedInv(w)' /\ EndInv(w)'
    BY <2>2, <2>3, <2>p DEF StagedInv, RecoveryInv, ReportedInv, Succeeding, EndInv
  <2>8. RefusedInv(w)'
    <3> SUFFICES ASSUME ~force[w], \E k \in Key : Former(k) # Absent
                 PROVE  /\ Rank(pc[w]) \in {1, 2, 15, 16}
                        /\ Rank(pc[w]) = 2 => Former("private") = Absent
                        /\ \A d \in onDisk', k \in Key :
                              /\ d[Target(k)] = Former(k)
                              /\ d[Staged(k, w)] = Absent
                              /\ d[Backup(k, w)] = Absent
      BY <2>2, <2>5, CallFacts, SameWriters DEF RefusedInv
    <3> QED BY <1>1 DEF CallInv, RefusedInv
  <2> QED BY <2>4, <2>6, <2>7, <2>8 DEF CallInv
<1> QED BY <1>2, <1>3

-----------------------------------------------------------------------------
(***************************************************************************)
(* A call of keygen leaves the files of other calls as they were,          *)
(***************************************************************************)
LEMMA OthersAreKept ==
  ASSUME TypeInv, NEW w \in Writers, WriteKeyFiles(w) \/ Kill(w)
  PROVE  OthersKept(w)
<1>c. "private" \in Key /\ "public" \in Key
  BY DEF Key
<1>1. dir' = dir => OthersKept(w)
  BY DEF OthersKept
<1>2. ASSUME NEW r, Return(w, r) PROVE OthersKept(w)
  BY <1>2, ReturnShows DEF Shows
<1>3. ASSUME NEW k \in Key, NEW s, CheckTarget(w, k, s) PROVE OthersKept(w)
  BY <1>1, <1>2, <1>3 DEF CheckTarget, dirVars
<1>4. ASSUME NEW k \in Key, Stage(w, k) PROVE OthersKept(w)
  BY <1>2, <1>4, StageShows DEF Stage, Shows
<1>14. ASSUME NEW k \in Key, NEW s, SyncStaged(w, k, s) PROVE OthersKept(w)
  <2>1. CASE FileSync(Staged(k, w), Partial(w), w)
    <3>1. w \in Writer /\ dir \in Directories /\ dir' = SyncedKey(dir, w, k)
      BY <2>1, CallFacts, SyncedByFileSync
    <3> QED BY <3>1, SyncedKeyFiles, StagedNames, BackupNames DEF OthersKept
  <2> QED BY <1>2, <1>14, <2>1 DEF SyncStaged
<1>5. CASE verifyStagedPair(w)
  BY <1>1, <1>2, <1>5 DEF verifyStagedPair, dirVars
<1>6. ASSUME NEW k \in Key, NEW s, backupExisting(w, k, s) PROVE OthersKept(w)
  BY <1>1, <1>6, BackupShows DEF backupExisting, dirVars, Shows
<1>7. CASE CommitPrivate(w)
  BY <1>1, <1>c, <1>7, CommitShows DEF CommitPrivate, dirVars, Shows
<1>8. CASE SyncPrivate(w) \/ SyncPublic(w)
  BY <1>1, <1>8 DEF SyncPrivate, SyncPublic, fsyncDir
<1>9. CASE CommitPublic(w)
  BY <1>1, <1>c, <1>9, CommitShows DEF CommitPublic, dirVars, Shows
<1>10. CASE Chmod(w)
  BY <1>2, <1>10 DEF Chmod
<1>11. CASE Try(w)
  <2>1. PICK o : /\ o \in Operation(w)
                 /\ Change(Effect(o)) \/ UNCHANGED dirVars
    <3>1. todo[w] \in Seq(Operation(w)) /\ todo[w] # <<>>
      BY <1>11 DEF Try, TypeInv, KeyType
    <3>2. Head(todo[w]) \in Operation(w)
      BY <3>1, HeadTailProperties
    <3> QED BY <1>11, <3>2 DEF Try
  <2>2. CASE UNCHANGED dirVars
    BY <1>1, <2>2 DEF dirVars
  <2>3. CASE Change(Effect(o)) /\ \E k \in Key : o = Removal(Target(k))
    BY <2>3, EffectOf, RemoveTargetShows DEF Shows
  <2>4. CASE Change(Effect(o)) /\ \E k \in Key : o = Removal(Backup(k, w))
    BY <2>4, EffectOf, RemoveBackupShows DEF Shows
  <2>5. CASE Change(Effect(o)) /\ \E k \in Key : o = Restoring(k, w)
    <3>1. PICK k \in Key : o = Restoring(k, w)
      BY <2>5
    <3>2. CASE dir[Backup(k, w)] = Absent
      BY <1>1, <2>5, <3>1, <3>2, EffectOf DEF Change
    <3>3. CASE dir[Backup(k, w)] # Absent
      BY <2>5, <3>1, <3>3, EffectOf, RestoreShows DEF Shows
    <3> QED BY <3>2, <3>3
  <2> QED BY <2>1, <2>2, <2>3, <2>4, <2>5 DEF Operation
<1>12. CASE Tried(w)
  BY <1>1, <1>2, <1>12 DEF Tried, dirVars
<1>13. CASE Kill(w)
  BY <1>1, <1>13 DEF Kill, dirVars
<1> QED BY <1>c, <1>3, <1>4, <1>5, <1>6, <1>7, <1>8, <1>9, <1>10, <1>11, <1>12,
           <1>13, <1>14 DEF WriteKeyFiles

(***************************************************************************)
(* and so does every directory that may survive.                           *)
(***************************************************************************)
LEMMA OthersSurvive ==
  ASSUME TypeInv, NEW w \in Writers, WriteKeyFiles(w) \/ Kill(w)
  PROVE  \A e \in onDisk' : \E d \in onDisk : \A v \in Writer \ {w}, k \in Key :
            e[Staged(k, v)] = d[Staged(k, v)] /\ e[Backup(k, v)] = d[Backup(k, v)]
<1>1. OthersKept(w) /\ dir \in onDisk
  BY OthersAreKept, CallFacts
<1>2. CASE onDisk' \subseteq onDisk \cup {dir'}
  BY <1>1, <1>2 DEF OthersKept
<1>3. CASE \E k \in Key : FileSync(Staged(k, w), Partial(w), w)
  <2>1. PICK k \in Key : onDisk' = {SyncedKey(d, w, k) : d \in onDisk}
    BY <1>3, SyncedByFileSync
  <2>2. w \in Writer /\ onDisk \subseteq Directories
    BY CallFacts DEF TypeInv, DirInv
  <2> QED BY <2>1, <2>2, SyncedKeyFiles, StagedNames, BackupNames
<1>4. \/ onDisk' \subseteq onDisk \cup {dir'}
      \/ \E k \in Key : FileSync(Staged(k, w), Partial(w), w)
  <2>c. "private" \in Key /\ "public" \in Key
    BY DEF Key
  <2>q. (UNCHANGED dirVars => onDisk' \subseteq onDisk \cup {dir'})
    BY DEF dirVars
  <2>d. \A d : Change(d) => onDisk' \subseteq onDisk \cup {dir'}
    BY DEF Change
  <2>r. \A r : Return(w, r) => onDisk' \subseteq onDisk \cup {dir'}
    BY <2>d DEF Return
  <2>s. \A ok : fsyncDir(ok) => onDisk' \subseteq onDisk \cup {dir'}
    BY DEF fsyncDir
  <2> QED BY <2>c, <2>q, <2>d, <2>r, <2>s
          DEF WriteKeyFiles, Kill, CheckTarget, Stage, SyncStaged, verifyStagedPair,
              backupExisting, CommitPrivate, SyncPrivate, CommitPublic, SyncPublic,
              Chmod, Try, Tried
<1> QED BY <1>2, <1>3, <1>4

(***************************************************************************)
(* Of one call of keygen at a time there is one.                           *)
(***************************************************************************)
LEMMA Single ==
  ASSUME OneKeygen, TypeInv
  PROVE  \A v, w \in Writers : v = w
BY DEF OneKeygen, TypeInv, GivenInv, Writers

(***************************************************************************)
(* Every step keeps the invariant of the key files.                        *)
(***************************************************************************)
LEMMA KeyNext == ASSUME OneKeygen PROVE TypeInv /\ KeyInv /\ [Next]_vars => KeyInv'
<1> SUFFICES ASSUME TypeInv, KeyInv, [Next]_vars PROVE KeyInv'
  OBVIOUS
<1>1. UNCHANGED given /\ Writers' = Writers /\ dir \in onDisk
  BY SameWriters
  DEF Next, Keygen, WriteOut, LosePower, vars, given, TypeInv, DirInv
<1>2. CASE Keygen
  <2>1. PICK w \in Writers : WriteKeyFiles(w) \/ Kill(w)
    BY <1>2 DEF Keygen
  <2>2. \A v \in Writers : v = w
    BY Single
  <2>3. CallInv(w)'
    BY <1>1, <2>1, CallKeeps DEF KeyInv
  <2>5. OthersAbsent'
    <3>1. \A v \in Writer \ Writers : v \in Writer \ {w}
      OBVIOUS
    <3> QED BY <1>1, <2>1, <3>1, OthersSurvive DEF KeyInv, OthersAbsent
  <2>6. NoCall'
    BY <1>1 DEF NoCall
  <2> QED BY <1>1, <2>2, <2>3, <2>5, <2>6 DEF KeyInv
<1>3. ASSUME UNCHANGED kvars, LeavesKeys PROVE KeyInv'
  <2>1. \A w \in Writers : CallInv(w)'
    BY <1>1, <1>3, LeftAloneKeeps DEF KeyInv
  <2>2. OthersAbsent'
    <3>1. \A v \in Writer, k \in Key :
             Staged(k, v) \in Names /\ Backup(k, v) \in Names
      BY DEF Names
    <3> QED BY <1>1, <1>3, <3>1 DEF KeyInv, OthersAbsent, LeavesKeys
  <2>3. NoCall'
    <3>1. \A k \in Key : Target(k) \in Names /\ Former(k)' = Former(k)
      BY <1>1, SameWriters DEF Names, Former
    <3> QED BY <1>1, <1>3, <3>1 DEF KeyInv, NoCall, LeavesKeys
  <2> QED BY <1>1, <2>1, <2>2, <2>3 DEF KeyInv
<1>4. CASE WriteOut
  BY <1>1, <1>3, <1>4, OutputType DEF WriteOut, TypeInv
<1>5. CASE LosePower
  <2>1. \A w \in Writers : CallInv(w)'
    BY <1>1, <1>5, PowerLossKeeps DEF KeyInv
  <2>2. OthersAbsent'
    BY <1>1, <1>5 DEF KeyInv, OthersAbsent, LosePower, PowerLoss
  <2>3. NoCall'
    BY <1>1, <1>5, SameWriters DEF KeyInv, NoCall, Former, LosePower, PowerLoss
  <2> QED BY <1>1, <2>1, <2>2, <2>3 DEF KeyInv
<1>6. CASE UNCHANGED vars
  BY <1>3, <1>6, OutQuiet DEF vars, TypeInv
<1> QED BY <1>2, <1>4, <1>5, <1>6 DEF Next

(***************************************************************************)
(* It holds always, if one call of keygen is made at a time.               *)
(***************************************************************************)
LEMMA KeyAlways == ASSUME OneKeygen PROVE Spec => [](TypeInv /\ KeyInv)
<1>1. Init => TypeInv /\ KeyInv
  BY TypeInit, KeysInit
<1>2. TypeInv /\ KeyInv /\ [Next]_vars => (TypeInv /\ KeyInv)'
  BY TypeNext, KeyNext
<1> QED BY <1>1, <1>2, PTL DEF Spec

(***************************************************************************)
(* The name of a target, taken apart.                                      *)
(***************************************************************************)
LEMMA TargetIsName ==
  ASSUME NEW k \in Key
  PROVE  Target(k) \in Names /\ Target(k)[1] = k /\ Len(Target(k)) = 1
BY DEF Names, Target

(***************************************************************************)
(* The name of a backup, taken apart.                                      *)
(***************************************************************************)
LEMMA BackupIsName ==
  ASSUME NEW k \in Key, NEW w \in Writer
  PROVE  Backup(k, w) \in Names /\ Backup(k, w)[1] = k /\ Backup(k, w)[2] = "bak"
BY DEF Names, Backup

(***************************************************************************)
(* keygen.go:83-84: a private key that was there is there at every moment  *)
(* and after every power loss, in place or as a backup.  (If no call of    *)
(* keygen is made nobody touches it.)                                      *)
(***************************************************************************)
THEOREM PrivateKeySurvives ==
  ASSUME OneKeygen PROVE Spec => []PrivateKeyNeverLost
<1>1. ASSUME TypeInv, KeyInv PROVE PrivateKeyNeverLost
  <2> SUFFICES ASSUME Former("private") # Absent, NEW d \in onDisk
               PROVE  Kept(d, "private")
    BY DEF PrivateKeyNeverLost, Former
  <2>0. "private" \in Key
    BY DEF Key
  <2>1. CASE \E w \in Writers : TRUE
    <3>1. PICK w \in Writers : Sound(d, w)
      BY <1>1, <2>1 DEF KeyInv, CallInv
    <3>2. \/ d[Target("private")] # Absent
          \/ w \in Writer /\ d[Backup("private", w)] # Absent
      BY <3>1 DEF Sound, Writers
    <3> QED BY <2>0, <3>2, TargetIsName, BackupIsName DEF Kept
  <2>2. CASE Writers = {}
    <3>1. d[Target("private")] # Absent
      BY <1>1, <2>0, <2>2 DEF KeyInv, NoCall
    <3> QED BY <2>0, <3>1, TargetIsName DEF Kept
  <2> QED BY <2>1, <2>2
<1> QED BY <1>1, KeyAlways, PTL

(***************************************************************************)
(* keygen.go:75: the new public key is never in place without its private  *)
(* key, nor is it so after a power loss.                                   *)
(***************************************************************************)
THEOREM PrivateKeyFirstAlways ==
  ASSUME OneKeygen PROVE Spec => []PrivateKeyFirst
<1>1. TypeInv /\ KeyInv => PrivateKeyFirst
  BY DEF KeyInv, CallInv, Sound, PrivateKeyFirst
<1> QED BY <1>1, KeyAlways, PTL

(***************************************************************************)
(* keygen.go: a call that returns leaves every key that was there in place,*)
(* unless a best-effort operation has failed.                              *)
(***************************************************************************)
THEOREM RecoveryAlwaysRestores ==
  ASSUME OneKeygen PROVE Spec => []RecoveryRestores
<1>1. ASSUME TypeInv, KeyInv PROVE RecoveryRestores
  <2> SUFFICES ASSUME NEW w \in Writers, pc[w] \in {<<"ok">>, <<"error">>}, ~stuck,
                      NEW k \in Key, start[Target(k)] # Absent
               PROVE  dir[Target(k)] # Absent
    BY DEF RecoveryRestores
  <2>1. ReportedInv(w) /\ EndInv(w) /\ w # Absent /\ dir \in onDisk
    BY <1>1, CallFacts DEF KeyInv, CallInv
  <2>2. CASE pc[w] = <<"ok">>
    <3>1. Rank(pc[w]) = 14
      BY <2>2, Ranks
    <3>2. Succeeding(w)
      BY <3>1, RankRanges DEF Succeeding
    <3> QED BY <2>1, <3>2 DEF ReportedInv
  <2>3. CASE pc[w] = <<"error">>
    <3>1. Rank(pc[w]) = 15
      BY <2>3, Ranks
    <3> QED BY <2>1, <3>1 DEF EndInv, Former
  <2> QED BY <2>2, <2>3
<1> QED BY <1>1, KeyAlways, PTL

(***************************************************************************)
(* keygen.go: after a call that has reported success the new pair is in    *)
(* place whatever a power loss leaves, and nothing else is but what could  *)
(* not be removed.                                                         *)
(***************************************************************************)
THEOREM SuccessLeavesTheNewPair ==
  ASSUME OneKeygen PROVE Spec => []SuccessIsTheNewPair
<1>1. ASSUME TypeInv, KeyInv PROVE SuccessIsTheNewPair
  <2> SUFFICES ASSUME NEW w \in Writers, pc[w] = <<"ok">>
               PROVE  /\ \A k \in Key, d \in onDisk : d[Target(k)] = w
                      /\ ~stuck => \A n \in Names : dir[n] # Absent => Len(n) = 1
    BY DEF SuccessIsTheNewPair
  <2>1. ReportedInv(w) /\ OthersAbsent /\ dir \in onDisk
    BY <1>1, CallFacts DEF KeyInv, CallInv
  <2>2. Rank(pc[w]) = 14
    BY Ranks
  <2>3. Succeeding(w)
    BY <2>2, RankRanges DEF Succeeding
  <2>4. \A k \in Key, d \in onDisk : d[Target(k)] = w
    BY <2>1, <2>3 DEF ReportedInv
  <2>5. ASSUME ~stuck, NEW k \in Key, NEW v \in Writer
        PROVE  dir[Staged(k, v)] = Absent /\ dir[Backup(k, v)] = Absent
    <3>1. CASE v \in Writers
      <4>1. v = w
        BY <1>1, <3>1, Single
      <4> QED BY <2>1, <2>2, <2>3, <2>5, <4>1 DEF ReportedInv
    <3>2. CASE v \notin Writers
      BY <2>1, <3>2 DEF OthersAbsent
    <3> QED BY <3>1, <3>2
  <2>6. ASSUME ~stuck, NEW n \in Names, dir[n] # Absent PROVE Len(n) = 1
    <3>1. PICK k \in Key : n = Target(k)
      BY <2>5, <2>6 DEF Names
    <3> QED BY <2>1, <3>1, TargetIsName
  <2> QED BY <2>4, <2>6
<1> QED BY <1>1, KeyAlways, PTL

(***************************************************************************)
(* keygen.go:77-78: a call without force that finds either key modifies    *)
(* neither and creates no file, and no power loss shows otherwise.         *)
(***************************************************************************)
THEOREM RefusedTouchesNothing ==
  ASSUME OneKeygen PROVE Spec => []RefusalTouchesNothing
<1>1. TypeInv /\ KeyInv => RefusalTouchesNothing
  BY DEF KeyInv, CallInv, RefusedInv, Former, RefusalTouchesNothing
<1> QED BY <1>1, KeyAlways, PTL

(***************************************************************************)
(* The two keys are of two generations only so: the private key is the new *)
(* one, and the public key the one that was there before.                  *)
(***************************************************************************)
NewBesideOld ==
    \A d \in onDisk :
        /\ \A k \in Key : d[Target(k)] # Absent
        /\ d[Target("private")] # d[Target("public")]
        => d[Target("private")] \in Writers /\ d[Target("public")] = Old

(***************************************************************************)
(* What is true of "recovery never leaves a mismatched pair on disk"       *)
(* (keygen.go:207): at any moment, after any failure of the recovery and   *)
(* after any power loss, a pair that does not match is the new private key *)
(* beside the old public key, never the other way round.                   *)
(***************************************************************************)
THEOREM MismatchIsNewBesideOld ==
  ASSUME OneKeygen PROVE Spec => []NewBesideOld
<1>1. ASSUME TypeInv, KeyInv PROVE NewBesideOld
  <2> SUFFICES ASSUME NEW d \in onDisk, \A k \in Key : d[Target(k)] # Absent,
                      d[Target("private")] # d[Target("public")]
               PROVE  d[Target("private")] \in Writers /\ d[Target("public")] = Old
    BY DEF NewBesideOld
  <2>0. "private" \in Key /\ "public" \in Key
    BY DEF Key
  <2>1. CASE \E w \in Writers : TRUE
    <3>1. PICK w \in Writers : Sound(d, w)
      BY <1>1, <2>1 DEF KeyInv, CallInv
    <3> QED BY <2>0, <3>1 DEF Sound
  <2>2. CASE Writers = {}
    <3>1. \A k \in Key : d[Target(k)] = Former(k)
      BY <1>1, <2>2 DEF KeyInv, NoCall
    <3>2. \A k \in Key : Former(k) \in {Old, Absent}
      BY <1>1, TargetNames DEF Former, TypeInv, GivenInv
    <3> QED BY <2>0, <3>1, <3>2
  <2> QED BY <2>1, <2>2
<1> QED BY <1>1, KeyAlways, PTL

-----------------------------------------------------------------------------
(***************************************************************************)
(* Any number of calls of keygen at once, all of them without force, where *)
(* one of the keys is there: none comes further than the lookups.          *)
(***************************************************************************)
NoneForced == \A w \in Writers : ~force[w]

OneIsThere == \E k \in Key : Former(k) # Absent

AsBefore(n) == IF n \in Targets THEN start[n] ELSE Absent

KeysAsBefore == \A d \in onDisk, n \in Names : d[n] = AsBefore(n)

AllRefused ==
    NoneForced /\ OneIsThere =>
        /\ \A w \in Writers :
              \/ pc[w] = <<"check", "private">>
              \/ pc[w] = <<"check", "public">> /\ Former("private") = Absent
              \/ pc[w] \in {<<"error">>, <<"killed">>}
        /\ KeysAsBefore

(***************************************************************************)
(* Every step keeps that.                                                  *)
(***************************************************************************)
LEMMA RefusedNext == TypeInv /\ AllRefused /\ [Next]_vars => AllRefused'
<1> SUFFICES ASSUME TypeInv, AllRefused, [Next]_vars PROVE AllRefused'
  OBVIOUS
<1>1. UNCHANGED given /\ Writers' = Writers
  BY SameWriters DEF Next, Keygen, WriteOut, LosePower, vars, given
<1>2. /\ \A k \in Key : Former(k)' = Former(k)
      /\ NoneForced' = NoneForced /\ OneIsThere' = OneIsThere
  BY <1>1, SameWriters DEF Former, NoneForced, OneIsThere
<1>b. \A n : AsBefore(n)' = AsBefore(n)
  BY <1>1, SameWriters DEF AsBefore, Targets
<1>3. "private" \in Key
  BY DEF Key
<1> SUFFICES ASSUME NoneForced, OneIsThere
             PROVE  /\ \A w \in Writers :
                         \/ pc'[w] = <<"check", "private">>
                         \/ pc'[w] = <<"check", "public">> /\ Former("private") = Absent
                         \/ pc'[w] \in {<<"error">>, <<"killed">>}
                    /\ \A d \in onDisk', n \in Names : d[n] = AsBefore(n)
  BY <1>1, <1>2, <1>b, <1>3 DEF AllRefused, KeysAsBefore
<1>t. \A k \in Key : Target(k) \in Names /\ AsBefore(Target(k)) = Former(k)
  BY TargetNames DEF Names, AsBefore, Former
<1>4. /\ dir \in onDisk /\ pc \in [Writers -> Step]
      /\ \A d \in onDisk, n \in Names : d[n] = AsBefore(n)
      /\ \A k \in Key : dir[Target(k)] = Former(k)
      /\ \A w \in Writers :
            \/ pc[w] = <<"check", "private">>
            \/ pc[w] = <<"check", "public">> /\ Former("private") = Absent
            \/ pc[w] \in {<<"error">>, <<"killed">>}
  BY <1>t DEF AllRefused, KeysAsBefore, TypeInv, DirInv, KeyType
<1>5. CASE Keygen
  <2>1. PICK w \in Writers : WriteKeyFiles(w) \/ Kill(w)
    BY <1>5 DEF Keygen
  <2>2. ASSUME Return(w, <<"error">>)
        PROVE  /\ pc' = [pc EXCEPT ![w] = <<"error">>]
               /\ onDisk' = onDisk \cup {dir'}
               /\ \A n \in Names : dir'[n] = dir[n]
    <3>1. PICK S \in SUBSET {Staged(k, w) : k \in Key} :
             Change(Without(S)) /\ pc' = [pc EXCEPT ![w] = <<"error">>]
      BY <2>2 DEF Return
    <3>2. dir \in Directories /\ Names \subseteq FileNames /\ w \in Writer
      BY CallFacts, OutIsNoKey
    <3>3. \A k \in Key : Staged(k, w) \in Names /\ Staged(k, w) \notin Targets
      BY <3>2, StagedNames DEF Names, Targets
    <3>4. \A n \in S : dir[n] = Absent
      BY <1>4, <3>3 DEF AsBefore
    <3> QED BY <3>1, <3>2, <3>4, WithoutFiles DEF Change
  <2>3. CASE CheckTarget(w, "private", <<"check", "public">>)
    <3>1. CASE Return(w, <<"error">>)
      BY <1>4, <2>2, <3>1
    <3>2. CASE dir[Target("private")] = Absent /\ Goto(w, <<"check", "public">>)
                 /\ UNCHANGED dirVars
      BY <1>3, <1>4, <3>2 DEF Goto, dirVars
    <3> QED BY <2>3, <3>1, <3>2 DEF CheckTarget
  <2>4. CASE CheckTarget(w, "public", <<"stage", "private">>)
    <3>1. CASE Return(w, <<"error">>)
      BY <1>4, <2>2, <3>1
    <3>2. dir[Target("public")] # Absent
      BY <1>4, <2>4 DEF CheckTarget, OneIsThere, Key
    <3> QED BY <2>4, <3>1, <3>2 DEF CheckTarget
  <2>5. CASE Kill(w)
    BY <1>4, <2>5 DEF Kill, Goto, dirVars
  <2>6. CASE WriteKeyFiles(w)
    <3>1. \/ CheckTarget(w, "private", <<"check", "public">>)
          \/ CheckTarget(w, "public", <<"stage", "private">>)
          \/ Rank(pc[w]) \in 3..13
      <4> DEFINE later ==
            {<<"stage", "private">>, <<"stage", "public">>,
             <<"sync staged", "private">>, <<"sync staged", "public">>, <<"verify">>,
             <<"back up", "private">>, <<"back up", "public">>,
             <<"commit", "private">>, <<"sync", "private">>,
             <<"commit", "public">>, <<"sync", "public">>,
             <<"best effort">>, <<"chmod">>}
      <4>1. \A s \in later : Rank(s) \in 3..13
        <5>1. \A s \in later : Rank(s) \in {3, 4, 5, 6, 7, 8, 9, 10, 11, 12, 13}
          BY Ranks, Zenon
        <5>2. {3, 4, 5, 6, 7, 8, 9, 10, 11, 12, 13} \subseteq 3..13
          OBVIOUS
        <5> QED BY <5>1, <5>2
      <4>2. \/ CheckTarget(w, "private", <<"check", "public">>)
            \/ CheckTarget(w, "public", <<"stage", "private">>)
            \/ pc[w] \in later
        BY <2>6
        DEF WriteKeyFiles, Stage, SyncStaged, verifyStagedPair, backupExisting, CommitPrivate,
            SyncPrivate, CommitPublic, SyncPublic, Chmod, Try, Tried
      <4> HIDE DEF later
      <4> QED BY <4>1, <4>2
    <3>2. Rank(pc[w]) \in {1, 2, 15, 16}
      BY <1>4, Ranks
    <3>3. Rank(pc[w]) \notin 3..13
      BY <3>2
    <3> QED BY <2>3, <2>4, <3>1, <3>3
  <2> QED BY <2>1, <2>5, <2>6
<1>6. LeavesKeys => \A d \in onDisk', n \in Names : d[n] = AsBefore(n)
  BY <1>4 DEF LeavesKeys
<1>7. CASE WriteOut
  <2>1. UNCHANGED pc
    BY <1>7 DEF WriteOut, kvars
  <2>2. LeavesKeys
    BY <1>1, <1>7, OutputType DEF WriteOut, TypeInv
  <2> QED BY <1>4, <1>6, <2>1, <2>2
<1>8. CASE LosePower
  BY <1>4, <1>8 DEF LosePower, PowerLoss, KeysLost
<1>9. CASE UNCHANGED vars
  <2>1. UNCHANGED pc
    BY <1>9 DEF vars, kvars
  <2>2. LeavesKeys
    BY <1>9, OutQuiet DEF vars, TypeInv
  <2> QED BY <1>4, <1>6, <2>1, <2>2
<1> QED BY <1>5, <1>7, <1>8, <1>9 DEF Next

(***************************************************************************)
(* keygen.go:77-78: the no-force contract is kept by any number of calls   *)
(* at once, if none of them has force and one of the keys is there.  (What *)
(* two of them break, they break where they find neither.)                 *)
(***************************************************************************)
THEOREM UnforcedTouchNothing ==
  Spec => [](NoneForced /\ OneIsThere => KeysAsBefore)
<1>1. Init => TypeInv /\ AllRefused
  <2> SUFFICES ASSUME Init PROVE AllRefused
    BY TypeInit
  <2>1. TypeInv /\ onDisk = {dir}
    BY TypeInit DEF Init, DirectoryInit
  <2>2. \A n \in Names : dir[n] = AsBefore(n)
    BY <2>1, OutIsNoKey
    DEF Init, DirectoryInit, TypeInv, GivenInv, FileNames, AsBefore
  <2> QED BY <2>1, <2>2 DEF Init, KeyInit, FirstStep, AllRefused, NoneForced, KeysAsBefore
<1>2. TypeInv /\ AllRefused /\ [Next]_vars => (TypeInv /\ AllRefused)'
  BY TypeNext, RefusedNext
<1>3. TypeInv /\ AllRefused => (NoneForced /\ OneIsThere => KeysAsBefore)
  BY DEF AllRefused
<1> QED BY <1>1, <1>2, <1>3, PTL DEF Spec
=============================================================================
