------------------------------ MODULE KeyFiles ------------------------------
(***************************************************************************)
(* internal/issuer/keygen.go: WriteKeyFiles puts a new key pair, as two    *)
(* files named after the key id, into a directory that may already hold a  *)
(* pair of that name.                                                      *)
(*                                                                         *)
(* Every call to the file system is a step and may fail; the process may   *)
(* be killed between any two.  A file holds a key of the generation that   *)
(* wrote it: "old" for what was there before, or the writer.               *)
(***************************************************************************)
EXTENDS Directory, Sequences

CONSTANT Writer   \* the calls of WriteKeyFiles there may be, for one key id

VARIABLES
    pc,           \* pc[w]: the next step of w
    bak,          \* bak[w]: the keys for which w holds a backup
    todo,         \* todo[w]: best-effort operations before w goes on
    after,        \* after[w]: where w goes when they are done
    stuck         \* history: some best-effort operation failed

local == <<bak, todo, after>>

Writers == Writer \cap DOMAIN force

Key == {"private", "public"}

Target(k) == <<k>>
Staged(k, w) == <<k, "tmp", w>>
Backup(k, w) == <<k, "bak", w>>

Names ==
    {Target(k) : k \in Key}
        \cup {Staged(k, w) : k \in Key, w \in Writer}
        \cup {Backup(k, w) : k \in Key, w \in Writer}

-----------------------------------------------------------------------------
FirstStep(w) == <<IF force[w] THEN "stage" ELSE "check", "private">>

KeyInit ==
    /\ pc = [w \in Writers |-> FirstStep(w)]
    /\ bak = [w \in Writers |-> {}]
    /\ todo = [w \in Writers |-> <<>>]
    /\ after = [w \in Writers |-> <<"none">>]
    /\ stuck = FALSE

Goto(w, step) ==
    /\ pc' = [pc EXCEPT ![w] = step]
    /\ UNCHANGED <<local, stuck>>

(***************************************************************************)
(* The deferred removal of the staged files, best effort.                  *)
(***************************************************************************)
Return(w, r) ==
    LET staged == {Staged(k, w) : k \in Key}
    IN  \E removed \in SUBSET staged :
          /\ Change(Without(removed))
          /\ pc' = [pc EXCEPT ![w] = r]
          /\ stuck' = (stuck \/ \E n \in staged \ removed : dir[n] # Absent)
          /\ UNCHANGED local

(***************************************************************************)
(* Best effort: do the operations in turn, and then go to step `step'.     *)
(***************************************************************************)
RemoveFile(n) == <<[do |-> "remove", name |-> n, to |-> n]>>

restoreBackup(w, k, backups) ==
    IF k \in backups
    THEN RemoveFile(Target(k))
            \o <<[do |-> "rename", name |-> Backup(k, w), to |-> Target(k)]>>
    ELSE <<>>

\* Mutation of removeBackup: the backups are left.
keepBackup(w, k) == <<>>

removeBackup(w, k) ==
    IF k \in bak[w] THEN RemoveFile(Backup(k, w)) ELSE <<>>

BestEffort(w, ops, step) ==
    /\ pc' = [pc EXCEPT ![w] = <<"best effort">>]
    /\ todo' = [todo EXCEPT ![w] = ops]
    /\ after' = [after EXCEPT ![w] = step]
    /\ UNCHANGED <<bak, stuck>>

-----------------------------------------------------------------------------
\* Mutation of CheckTarget: the private target is checked both times.
CheckPrivateTarget(w, k, next) ==
    /\ pc[w] = <<"check", k>>
    /\ \/ dir[Target("private")] = Absent /\ Goto(w, next) /\ UNCHANGED dirVars
       \/ Return(w, <<"error">>)

(***************************************************************************)
(* Without force: both targets must be absent, each looked up by itself.   *)
(***************************************************************************)
CheckTarget(w, k, next) ==
    /\ pc[w] = <<"check", k>>
    /\ \/ dir[Target(k)] = Absent /\ Goto(w, next) /\ UNCHANGED dirVars
       \/ Return(w, <<"error">>)

Stage(w, k) ==
    /\ pc[w] = <<"stage", k>>
    /\ \/ /\ Change(With(Staged(k, w), Partial(w)))
          /\ Goto(w, <<"sync staged", k>>)
       \/ Return(w, <<"error">>)

\* Mutation of SyncStaged: the staged key is closed without a sync.
CloseStaged(w, k, next) ==
    /\ pc[w] = <<"sync staged", k>>
    /\ \/ UNCHANGED dirVars /\ Goto(w, next)
       \/ Return(w, <<"error">>)

SyncStaged(w, k, next) ==
    /\ pc[w] = <<"sync staged", k>>
    /\ \/ FileSync(Staged(k, w), Partial(w), w) /\ Goto(w, next)
       \/ Return(w, <<"error">>)

(***************************************************************************)
(* Reads both back; they match, unless one cannot be read.                 *)
(***************************************************************************)
verifyStagedPair(w) ==
    /\ pc[w] = <<"verify">>
    /\ \/ Goto(w, <<"back up", "private">>) /\ UNCHANGED dirVars
       \/ Return(w, <<"error">>)

backupExisting(w, k, next) ==
    /\ pc[w] = <<"back up", k>>
    /\ \/ /\ dir[Target(k)] = Absent
          /\ Goto(w, next)
          /\ UNCHANGED dirVars
       \/ /\ dir[Target(k)] # Absent
          /\ Change(Moved(Target(k), Backup(k, w)))
          /\ bak' = [bak EXCEPT ![w] = @ \cup {k}]
          /\ pc' = [pc EXCEPT ![w] = next]
          /\ UNCHANGED <<todo, after, stuck>>
       \/ /\ BestEffort(w, restoreBackup(w, "private", bak[w]), <<"error">>)
          /\ UNCHANGED dirVars

\* Mutation of Restored: the public key is not restored.
RestoredPrivate(w) == restoreBackup(w, "private", bak[w])

Restored(w) ==
    restoreBackup(w, "private", bak[w]) \o restoreBackup(w, "public", bak[w])

CommitPrivate(w) ==
    /\ pc[w] = <<"commit", "private">>
    /\ \/ /\ Change(Moved(Staged("private", w), Target("private")))
          /\ Goto(w, <<"sync", "private">>)
       \/ /\ BestEffort(w, Restored(w), <<"error">>)
          /\ UNCHANGED dirVars

SyncPrivate(w) ==
    /\ pc[w] = <<"sync", "private">>
    /\ \E ok \in BOOLEAN :
          /\ fsyncDir(ok)
          /\ IF ok THEN Goto(w, <<"commit", "public">>)
             ELSE BestEffort(w, RemoveFile(Target("private")) \o Restored(w),
                             <<"error">>)

\* Mutation of PublicFailed: the committed private key is deleted.
PublicFailedUndone(w) ==
    RemoveFile(Target("private")) \o restoreBackup(w, "public", bak[w])
        \o removeBackup(w, "private")

PublicFailed(w) ==
    restoreBackup(w, "public", bak[w]) \o removeBackup(w, "private")

CommitPublic(w) ==
    /\ pc[w] = <<"commit", "public">>
    /\ \/ /\ Change(Moved(Staged("public", w), Target("public")))
          /\ Goto(w, <<"sync", "public">>)
       \/ /\ BestEffort(w, PublicFailed(w), <<"error">>)
          /\ UNCHANGED dirVars

\* Mutation of SyncPublic: a failed sync restores the previous files.
SyncPublicUndone(w) ==
    /\ pc[w] = <<"sync", "public">>
    /\ \E ok \in BOOLEAN :
          /\ fsyncDir(ok)
          /\ IF ok THEN BestEffort(w, removeBackup(w, "private")
                                        \o removeBackup(w, "public"), <<"chmod">>)
                   ELSE BestEffort(w, Restored(w), <<"error">>)

SyncPublic(w) ==
    /\ pc[w] = <<"sync", "public">>
    /\ \E ok \in BOOLEAN :
          /\ fsyncDir(ok)
          /\ IF ok THEN BestEffort(w, removeBackup(w, "private")
                                        \o removeBackup(w, "public"), <<"chmod">>)
                   ELSE BestEffort(w, removeBackup(w, "public")
                                        \o removeBackup(w, "private"), <<"error">>)

Chmod(w) ==
    /\ pc[w] = <<"chmod">>
    /\ Return(w, <<"ok">>) \/ Return(w, <<"error">>)

(***************************************************************************)
(* One operation whose error is ignored.  (Removing what is not there, or  *)
(* renaming it, fails and changes nothing.)                                *)
(***************************************************************************)
Effect(o) ==
    IF o.do = "remove" THEN With(o.name, Absent)
    ELSE IF dir[o.name] = Absent THEN dir
    ELSE Moved(o.name, o.to)

Try(w) ==
    /\ pc[w] = <<"best effort">>
    /\ todo[w] # <<>>
    /\ \/ Change(Effect(Head(todo[w]))) /\ UNCHANGED stuck
       \/ UNCHANGED dirVars /\ stuck' = TRUE
    /\ todo' = [todo EXCEPT ![w] = Tail(@)]
    /\ UNCHANGED <<pc, bak, after>>

Tried(w) ==
    /\ pc[w] = <<"best effort">>
    /\ todo[w] = <<>>
    /\ IF after[w] = <<"error">> THEN Return(w, <<"error">>)
                             ELSE Goto(w, after[w]) /\ UNCHANGED dirVars

(***************************************************************************)
(* The process is killed: its staged files and backups stay.               *)
(***************************************************************************)
Returned(w) == pc[w] \in {<<"ok">>, <<"error">>, <<"killed">>}

Kill(w) ==
    /\ ~Returned(w)
    /\ Goto(w, <<"killed">>)
    /\ UNCHANGED dirVars

WriteKeyFiles(w) ==
    \/ CheckTarget(w, "private", <<"check", "public">>)
    \/ CheckTarget(w, "public", <<"stage", "private">>)
    \/ Stage(w, "private") \/ SyncStaged(w, "private", <<"stage", "public">>)
    \/ Stage(w, "public") \/ SyncStaged(w, "public", <<"verify">>)
    \/ verifyStagedPair(w)
    \/ backupExisting(w, "private", <<"back up", "public">>)
    \/ backupExisting(w, "public", <<"commit", "private">>)
    \/ CommitPrivate(w) \/ SyncPrivate(w)
    \/ CommitPublic(w) \/ SyncPublic(w)
    \/ Chmod(w)
    \/ Try(w) \/ Tried(w)

(***************************************************************************)
(* A power loss, likewise for all calls; one that had not begun may be     *)
(* made afterwards.                                                        *)
(***************************************************************************)
KeysLost ==
    /\ pc' = [w \in Writers |->
                 IF pc[w] = FirstStep(w) THEN pc[w] ELSE <<"killed">>]
    /\ UNCHANGED <<local, stuck>>
=============================================================================
