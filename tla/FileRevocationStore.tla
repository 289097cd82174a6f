------------------------ MODULE FileRevocationStore -------------------------
(***************************************************************************)
(* pkg/license/revocation_state.go, FileRevocationStateStore, driven by    *)
(* LoadRevocationListWithPolicy (revocation.go).                           *)
(*                                                                         *)
(* Documents are delivered to the threads of one process in any order, any *)
(* number of times.  A document that passes the checks of RevocationList   *)
(* goes through the store's transaction: take the path's mutex, read and   *)
(* authenticate the whole map, classify, write the whole map back.  The    *)
(* file holds a function from list ids to records; a missing file reads as *)
(* the empty map.                                                          *)
(***************************************************************************)
EXTENDS RevocationList, AtomicFile

CONSTANTS
    Thread, Path, StorePath, CleanAbs, NoThread,
    ListId, Digest, MaxSeq, Corrupt,
    Ring,         \* the key ring the documents are verified against
    Loads,        \* bound: the loads that happen, records [doc, now, pol]
    Saves         \* bound: the records saved by hand, records [id, st]

VARIABLES
    mu, pc, op,
    list,         \* list[t]: the list id of t's call
    nxt,          \* nxt[t]: the record it wants to store
    entries,      \* entries[t]: the map it is going to write
    answer,       \* the code the last step returned to its caller, or "none"
    told,         \* told[id]: the last record a caller was told is accepted, or Nil
    accepted      \* the same, for answers given while no rename waited for a sync

vars == <<file, onDisk, mu, pc, op, list, nxt, entries, answer, told, accepted>>

Docs == {load.doc : load \in Loads}

State == [seq : 1..MaxSeq, digest : Digest]

Entries == [ListId -> State \cup {Nil}]

None == [id \in ListId |-> Nil]

ASSUME FileStoreConstants ==
    /\ NoThread \notin Thread
    /\ StorePath \in [Thread -> Path]
    /\ MaxSeq \in Nat
    /\ Nil \notin State \cup Int
    /\ Corrupt \notin Entries

ASSUME LoadsAssumption ==
    \A doc \in Docs :
        /\ doc.listId \in ListId \cup {Nil}
        /\ doc.seq \in 0..MaxSeq
        /\ doc.digest \in Digest
        /\ {doc.issuedAt, doc.expiresAt} \subseteq Int \cup {Nil}

ASSUME SavesAssumption == Saves \subseteq [id : ListId, st : State]

\* Mutation of normalizeStatePath: the registry keyed by the path as given.
PathAsGiven(p) == p

normalizeStatePath(p) == CleanAbs[p]

pathLockFor(t) == normalizeStatePath(StorePath[t])

MutexKeys == {normalizeStatePath(p) : p \in Path}

-----------------------------------------------------------------------------
Init ==
    /\ file = None
    /\ onDisk = {None}
    /\ mu = [k \in MutexKeys |-> NoThread]
    /\ pc = [t \in Thread |-> "idle"]
    /\ op = [t \in Thread |-> "none"]
    /\ list = [t \in Thread |-> Nil]
    /\ nxt = [t \in Thread |-> Nil]
    /\ entries = [t \in Thread |-> None]
    /\ answer = "none"
    /\ told = None
    /\ accepted = None

Goto(t, step) ==
    /\ pc' = [pc EXCEPT ![t] = step]
    /\ answer' = "none"
    /\ UNCHANGED <<mu, op, list, nxt>>

\* Mutation of Return: an error return that skips the Unlock.
ReturnLocked(t, r) ==
    /\ pc' = [pc EXCEPT ![t] = "idle"]
    /\ op' = [op EXCEPT ![t] = "none"]
    /\ list' = [list EXCEPT ![t] = Nil]
    /\ nxt' = [nxt EXCEPT ![t] = Nil]
    /\ entries' = [entries EXCEPT ![t] = None]
    /\ answer' = r
    /\ mu' = IF r = "ok" THEN [mu EXCEPT ![pathLockFor(t)] = NoThread] ELSE mu

(***************************************************************************)
(* Leave the store with r; the deferred Unlock runs.                       *)
(***************************************************************************)
Return(t, r) ==
    /\ pc' = [pc EXCEPT ![t] = "idle"]
    /\ op' = [op EXCEPT ![t] = "none"]
    /\ list' = [list EXCEPT ![t] = Nil]
    /\ nxt' = [nxt EXCEPT ![t] = Nil]
    /\ entries' = [entries EXCEPT ![t] = None]
    /\ answer' = r
    /\ mu' = [mu EXCEPT ![pathLockFor(t)] = NoThread]

Enter(t, m, id, st) ==
    /\ pc' = [pc EXCEPT ![t] = "lock"]
    /\ op' = [op EXCEPT ![t] = m]
    /\ list' = [list EXCEPT ![t] = id]
    /\ nxt' = [nxt EXCEPT ![t] = st]
    /\ answer' = "none"
    /\ UNCHANGED <<file, onDisk, mu, entries, told, accepted>>

(***************************************************************************)
(* LoadRevocationListWithPolicy: refused, taken without a replay check, or *)
(* handed to the store as a candidate record.                              *)
(***************************************************************************)
LoadList(t, doc, now, pol) ==
    LET code == Admit(Ring, doc, now, pol) IN
    /\ pc[t] = "idle"
    /\ \/ /\ code # "ok" \/ ~ReplayChecked(doc, pol)
          /\ answer' = code
          /\ UNCHANGED <<file, onDisk, mu, pc, op, list, nxt, entries, told, accepted>>
       \/ /\ code = "ok" /\ ReplayChecked(doc, pol)
          /\ Enter(t, "CheckAndSave", doc.listId, StateOf(doc))

(***************************************************************************)
(* The store's own methods, called directly.                               *)
(***************************************************************************)
SaveRevocationState(t, id, st) == pc[t] = "idle" /\ Enter(t, "Save", id, st)

LoadRevocationState(t, id) == pc[t] = "idle" /\ Enter(t, "Load", id, Nil)

Lock(t) ==
    /\ pc[t] = "lock"
    /\ mu[pathLockFor(t)] = NoThread
    /\ mu' = [mu EXCEPT ![pathLockFor(t)] = t]
    /\ pc' = [pc EXCEPT ![t] = "load"]
    /\ answer' = "none"
    /\ UNCHANGED <<file, onDisk, op, list, nxt, entries, told, accepted>>

(***************************************************************************)
(* loadFileLocked fails: unreadable, too large, malformed or a wrong MAC.  *)
(***************************************************************************)
LoadFails(t) ==
    /\ pc[t] = "load"
    /\ Return(t, "revocation_state_integrity_failure")
    /\ UNCHANGED <<file, onDisk, told, accepted>>

LoadReturns(t) ==
    /\ pc[t] = "load"
    /\ op[t] = "Load"
    /\ file # Corrupt
    /\ Return(t, "ok")
    /\ UNCHANGED <<file, onDisk, told, accepted>>

(***************************************************************************)
(* The candidate changes nothing: rejected, or a repetition.  A repetition *)
(* is answered without looking at what an earlier sync has done.           *)
(***************************************************************************)
Rejected(t) ==
    /\ pc[t] = "load"
    /\ op[t] = "CheckAndSave"
    /\ file # Corrupt
    /\ LET class == classifyRevocationTransition(file[list[t]], nxt[t]) IN
         /\ class \in {"revocation_stale", "revocation_rollback"}
         /\ Return(t, class)
    /\ UNCHANGED <<file, onDisk, told, accepted>>

Repeated(t) ==
    /\ pc[t] = "load"
    /\ op[t] = "CheckAndSave"
    /\ file # Corrupt
    /\ classifyRevocationTransition(file[list[t]], nxt[t]) = "idempotent"
    /\ Return(t, "ok")
    /\ told' = [told EXCEPT ![list[t]] = nxt[t]]
    /\ accepted' = IF onDisk = {file} THEN [accepted EXCEPT ![list[t]] = nxt[t]]
                                      ELSE accepted
    /\ UNCHANGED <<file, onDisk>>

\* Mutation of Merge: the other lists are dropped from the map.
MergeOnlyItsList(t) ==
    /\ pc[t] = "load"
    /\ op[t] \in {"CheckAndSave", "Save"}
    /\ file # Corrupt
    /\ op[t] = "CheckAndSave" =>
          classifyRevocationTransition(file[list[t]], nxt[t]) = "write"
    /\ entries' = [entries EXCEPT ![t] = [None EXCEPT ![list[t]] = nxt[t]]]
    /\ Goto(t, "stage")
    /\ UNCHANGED <<file, onDisk, told, accepted>>

(***************************************************************************)
(* entries[next.ListID] = *next, in the map that was read.                 *)
(***************************************************************************)
Merge(t) ==
    /\ pc[t] = "load"
    /\ op[t] \in {"CheckAndSave", "Save"}
    /\ file # Corrupt
    /\ op[t] = "CheckAndSave" =>
          classifyRevocationTransition(file[list[t]], nxt[t]) = "write"
    /\ entries' = [entries EXCEPT ![t] = [file EXCEPT ![list[t]] = nxt[t]]]
    /\ Goto(t, "stage")
    /\ UNCHANGED <<file, onDisk, told, accepted>>

(***************************************************************************)
(* writeEntriesLocked: stage the temporary file, rename it, sync the       *)
(* directory.                                                              *)
(***************************************************************************)
Stage(t) ==
    /\ pc[t] = "stage"
    /\ \/ Goto(t, "rename") /\ UNCHANGED entries
       \/ Return(t, "revocation_state_integrity_failure")
    /\ UNCHANGED <<file, onDisk, told, accepted>>

RenameFails(t) ==
    /\ pc[t] = "rename"
    /\ Return(t, "revocation_state_integrity_failure")
    /\ UNCHANGED <<file, onDisk, told, accepted>>

Rename(t) ==
    /\ pc[t] = "rename"
    /\ RenameOver(entries[t])
    /\ Goto(t, "syncdir")
    /\ IF op[t] = "Save"
       THEN /\ told' = [told EXCEPT ![list[t]] = Nil]
            /\ accepted' = [accepted EXCEPT ![list[t]] = Nil]
       ELSE UNCHANGED <<told, accepted>>
    /\ UNCHANGED entries

SyncDir(t) ==
    /\ pc[t] = "syncdir"
    /\ \E ok \in BOOLEAN :
        /\ fsyncStateDir(ok)
        /\ Return(t, IF ok THEN "ok" ELSE "revocation_state_integrity_failure")
        /\ IF ok /\ op[t] = "CheckAndSave"
           THEN /\ told' = [told EXCEPT ![list[t]] = nxt[t]]
                /\ accepted' = [accepted EXCEPT ![list[t]] = nxt[t]]
           ELSE UNCHANGED <<told, accepted>>

Step(t) ==
    \/ LoadFails(t) \/ LoadReturns(t)
    \/ Rejected(t) \/ Repeated(t) \/ Merge(t)
    \/ Stage(t)
    \/ RenameFails(t) \/ Rename(t)
    \/ SyncDir(t)

-----------------------------------------------------------------------------
(***************************************************************************)
(* The surroundings, as in RollbackStore.                                  *)
(***************************************************************************)
Crash ==
    /\ PowerLoss
    /\ mu' = [k \in MutexKeys |-> NoThread]
    /\ pc' = [t \in Thread |-> "idle"]
    /\ op' = [t \in Thread |-> "none"]
    /\ list' = [t \in Thread |-> Nil]
    /\ nxt' = [t \in Thread |-> Nil]
    /\ entries' = [t \in Thread |-> None]
    /\ answer' = "none"
    /\ UNCHANGED <<told, accepted>>

Quiet == \A t \in Thread : pc[t] \in {"idle", "lock"}

Damaged ==
    /\ Quiet
    /\ \E c \in {Corrupt, None} : ReplacedOutside(c)
    /\ told' = None
    /\ accepted' = None
    /\ answer' = "none"
    /\ UNCHANGED <<mu, pc, op, list, nxt, entries>>

Next ==
    \/ \E t \in Thread, l \in Loads : LoadList(t, l.doc, l.now, l.pol)
    \/ \E t \in Thread, s \in Saves : SaveRevocationState(t, s.id, s.st)
    \/ \E t \in Thread, id \in ListId : LoadRevocationState(t, id)
    \/ \E t \in Thread : Lock(t) \/ Step(t)
    \/ Crash
    \/ Damaged

Spec == Init /\ [][Next]_vars

-----------------------------------------------------------------------------
TypeOK ==
    /\ file \in Entries \cup {Corrupt}
    /\ onDisk \in SUBSET (Entries \cup {Corrupt})
    /\ mu \in [MutexKeys -> Thread \cup {NoThread}]
    /\ pc \in [Thread -> {"idle", "lock", "load", "stage", "rename", "syncdir"}]
    /\ op \in [Thread -> {"none", "CheckAndSave", "Save", "Load"}]
    /\ list \in [Thread -> ListId \cup {Nil}]
    /\ nxt \in [Thread -> State \cup {Nil}]
    /\ entries \in [Thread -> Entries]
    /\ told \in Entries
    /\ accepted \in Entries

(***************************************************************************)
(* "concurrent callers cannot lose updates or regress the high-water       *)
(* mark": a step of one list's transaction leaves the record of every list *)
(* where it was or moves it to a later sequence, and a file that fails its *)
(* integrity check "is never silently overwritten".                        *)
(***************************************************************************)
MarksNeverRegress ==
    [][\A t \in Thread :
          op[t] = "CheckAndSave" /\ Step(t)
             => IF file = Corrupt THEN file' = Corrupt
                ELSE \A id \in ListId : Covers(file'[id], file[id])]_vars

(***************************************************************************)
(* "the accepted sequence/digest is persisted and future lists must not    *)
(* regress": no list is accepted with a sequence before one accepted       *)
(* earlier, nor with the same sequence and other contents, through crashes *)
(* and syncs that fail.  (Answers given while a rename waited for its sync *)
(* do not count as accepted.)                                              *)
(***************************************************************************)
AcceptsNow(t) == op[t] = "CheckAndSave" /\ op'[t] = "none" /\ answer' = "ok"

NoReplay ==
    [][\A t \in Thread : AcceptsNow(t) => Covers(nxt[t], accepted[list[t]])]_vars

(***************************************************************************)
(* The same for everything that a caller was told is accepted.             *)
(***************************************************************************)
NoReplayOfTold ==
    [][\A t \in Thread : AcceptsNow(t) => Covers(nxt[t], told[list[t]])]_vars

(***************************************************************************)
(* Whatever a power loss leaves on disk covers every accepted record.      *)
(***************************************************************************)
AcceptedIsDurable ==
    \A c \in onDisk :
        IF c = Corrupt THEN accepted = None
        ELSE \A id \in ListId : Covers(c[id], accepted[id])

(***************************************************************************)
(* Only a document with a valid domain-separated v2 signature and a well   *)
(* formed body, or a direct save, ever moves a record: under any policy,   *)
(* relaxing freshness or admitting v1 lists does not open the anti-replay  *)
(* state to others.                                                        *)
(***************************************************************************)
WellFounded(doc) ==
    /\ doc.signed = "domain" /\ doc.schema = RevocationSchemaVersion
    /\ doc.keyId \in DOMAIN Ring /\ ~Ring[doc.keyId].revoked
    /\ doc.issuedAt < doc.expiresAt

RecordsAreWellFounded ==
    \A c \in (onDisk \cup {file}) \ {Corrupt} : \A id \in ListId :
        \/ c[id] = Nil
        \/ [id |-> id, st |-> c[id]] \in Saves
        \/ \E doc \in Docs :
              doc.listId = id /\ StateOf(doc) = c[id] /\ WellFounded(doc)

(***************************************************************************)
(* No way out of a call, of the many, keeps the mutex: it is held only by  *)
(* a thread that is inside the store, so no later call waits for ever.     *)
(***************************************************************************)
HeldOnlyInside ==
    \A k \in MutexKeys :
        mu[k] # NoThread => pc[mu[k]] \in {"load", "stage", "rename", "syncdir"}

(***************************************************************************)
(* The file store keeps the contract of the interface.                     *)
(***************************************************************************)
Contract == INSTANCE RevocationStateStore WITH marks <- file

ContractKept == Contract!Spec
=============================================================================
