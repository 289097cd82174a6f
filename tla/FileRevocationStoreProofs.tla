--------------------- MODULE FileRevocationStoreProofs ----------------------
(***************************************************************************)
(* Proofs about FileRevocationStore for every key ring, policy, set of     *)
(* documents, threads and lists.  As for the rollback store, the           *)
(* concurrency theorems assume SameMutex: the stores were built with       *)
(* spellings of the path that clean to one key.                            *)
(***************************************************************************)
EXTENDS RevocationDelivery, GatesProofs

-----------------------------------------------------------------------------
(***************************************************************************)
(* A list that the static checks of v2 let pass has an id, a sequence and  *)
(* a window that is not empty.                                             *)
(***************************************************************************)
LEMMA StaticPass ==
  ASSUME NEW doc, validateRevocationV2Static(doc) = "ok"
  PROVE  /\ doc.schema = RevocationSchemaVersion
         /\ doc.listId # Nil /\ doc.seq # 0
         /\ doc.issuedAt # Nil /\ doc.expiresAt # Nil
         /\ doc.expiresAt > doc.issuedAt
<1> DEFINE ordered == doc.issuedAt # Nil /\ doc.expiresAt # Nil
                        => doc.expiresAt > doc.issuedAt
           codes == <<Gate(doc.schema = RevocationSchemaVersion, "malformed"),
                      Gate(doc.listId # Nil, "malformed"),
                      Gate(doc.seq # 0, "malformed"),
                      Gate(doc.issuedAt # Nil, "malformed"),
                      Gate(doc.expiresAt # Nil, "malformed"),
                      Gate(ordered, "malformed")>>
<1>1. FirstFailure(codes) = "ok"
  BY DEF validateRevocationV2Static
<1>2. DOMAIN codes = 1..6
  OBVIOUS
<1>3. \A i \in 1..6 : codes[i] = "ok"
  BY <1>1, <1>2, AllPass DEF Checks
<1>4. /\ codes[1] = "ok" /\ codes[2] = "ok" /\ codes[3] = "ok"
      /\ codes[4] = "ok" /\ codes[5] = "ok" /\ codes[6] = "ok"
  BY <1>3
<1> QED BY <1>4 DEF Gate

(***************************************************************************)
(* A document is authentic only under a key of the ring that is enabled    *)
(* and not revoked, with a signature over its bytes or their domain.       *)
(***************************************************************************)
LEMMA AuthenticPass ==
  ASSUME NEW ring, NEW doc, NEW now, Authenticate(ring, doc, now) = "ok"
  PROVE  /\ doc.keyId \in DOMAIN ring
         /\ ~ring[doc.keyId].revoked /\ ring[doc.keyId].enabled
         /\ doc.signed # "bad" /\ doc.payloadKeyId = doc.keyId
<1> DEFINE codes == <<ParseRevocationEnvelope(doc),
                      Gate(doc.algorithm, "unsupported_algorithm"),
                      Lookup(ring, doc.keyId, now),
                      Gate(doc.encoding, "malformed"),
                      verifyRevocationSignature(doc)>>
           entry == ring[doc.keyId]
           switches == <<Gate(~entry.revoked, "key_revoked"),
                         Gate(entry.enabled, "key_disabled")>>
           checks == <<
             Gate(doc.signed # "bad", "signature_invalid"),
             Gate(doc.canonical # "undecodable", "malformed"),
             Gate(doc.canonical = "ok", "non_canonical_payload"),
             Gate(doc.schema \in {1, RevocationSchemaVersion}, "unsupported_schema"),
             Gate(doc.payloadKeyId = doc.keyId, "key_id_mismatch"),
             Gate(doc.withinCap, "file_too_large")>>
<1>1. FirstFailure(codes) = "ok" /\ DOMAIN codes = 1..5
  BY DEF Authenticate
<1>2. codes[3] = "ok" /\ codes[5] = "ok"
  BY <1>1, AllPass DEF Checks
<1>3. LookupPublicKey(ring, doc.keyId) = "ok"
  BY <1>2 DEF Lookup
<1>4. doc.keyId \in DOMAIN ring /\ FirstFailure(switches) = "ok"
  BY <1>3 DEF LookupPublicKey, KillSwitches
<1>5. switches[1] = "ok" /\ switches[2] = "ok"
  <2>1. DOMAIN switches = 1..2
    OBVIOUS
  <2> QED BY <1>4, <2>1, AllPass DEF Checks
<1>6. FirstFailure(checks) = "ok" /\ DOMAIN checks = 1..6
  BY <1>2 DEF verifyRevocationSignature
<1>7. checks[1] = "ok" /\ checks[5] = "ok"
  BY <1>6, AllPass DEF Checks
<1> QED BY <1>4, <1>5, <1>7 DEF Gate

(***************************************************************************)
(* What the replay check is given: whatever the policy relaxes, a list of  *)
(* a live key with the domain-separated signature, an id, a sequence and a *)
(* window that is not empty.                                               *)
(***************************************************************************)
THEOREM AdmittedIsWellFounded ==
  ASSUME NEW ring, NEW doc, NEW now, NEW pol,
         Admit(ring, doc, now, pol) = "ok", ReplayChecked(doc, pol)
  PROVE  /\ doc.keyId \in DOMAIN ring
         /\ ~ring[doc.keyId].revoked /\ ring[doc.keyId].enabled
         /\ doc.payloadKeyId = doc.keyId
         /\ doc.signed = "domain" /\ doc.schema = RevocationSchemaVersion
         /\ doc.listId # Nil /\ doc.seq # 0
         /\ doc.issuedAt # Nil /\ doc.expiresAt # Nil
         /\ doc.expiresAt > doc.issuedAt
<1> DEFINE codes == <<Gate(doc.signed = "domain", "signature_invalid"),
                      validateRevocationV2Static(doc)>>
<1>1. Authenticate(ring, doc, now) = "ok"
  BY DEF Admit
<1>2. doc.schema # 1 /\ AdmitV2(doc, now, pol) = "ok"
  BY <1>1 DEF Admit, ReplayChecked
<1>3. FirstFailure(codes) = "ok"
  BY <1>2 DEF AdmitV2
<1>4. DOMAIN codes = 1..2
  OBVIOUS
<1>5. codes[1] = "ok" /\ codes[2] = "ok"
  BY <1>3, <1>4, AllPass DEF Checks
<1>6. doc.signed = "domain" /\ validateRevocationV2Static(doc) = "ok"
  BY <1>5 DEF Gate
<1> QED BY <1>1, <1>6, AuthenticPass, StaticPass

-----------------------------------------------------------------------------
(***************************************************************************)
(* Writing a candidate never loses what the old record covered: sequences  *)
(* only move forward from one accepted list to the next.                   *)
(***************************************************************************)
LEMMA CoversAfterWrite ==
  ASSUME NEW prev, NEW later, NEW a, later # Nil, Covers(prev, a),
         prev # Nil => prev.seq \in Int,
         a # Nil => a.seq \in Int,
         later.seq \in Int,
         classifyRevocationTransition(prev, later) = "write"
  PROVE  Covers(later, a)
BY DEF Covers, classifyRevocationTransition

-----------------------------------------------------------------------------
(***************************************************************************)
(* All stores are built with one mutex.                                    *)
(***************************************************************************)
SameMutex == \A s, t \in Thread : pathLockFor(s) = pathLockFor(t)

InStore(t) == pc[t] \in {"load", "stage", "rename", "syncdir"}

(***************************************************************************)
(* A thread inside the store holds its mutex.                              *)
(***************************************************************************)
HoldsMutex == \A t \in Thread : InStore(t) => mu[pathLockFor(t)] = t

(***************************************************************************)
(* The methods reach only their own steps, with a list and, if they write, *)
(* a record of it.                                                         *)
(***************************************************************************)
OpInv ==
    \A t \in Thread :
        /\ pc[t] # "idle" => op[t] # "none" /\ list[t] \in ListId
        /\ op[t] \in {"CheckAndSave", "Save"} => nxt[t] \in State
        /\ pc[t] \in {"stage", "rename", "syncdir"}
              => op[t] \in {"CheckAndSave", "Save"}

(***************************************************************************)
(* What a transaction knows between its reading and its return: the map it *)
(* writes is the file with its own record replaced, and a checked record   *)
(* advances the one it replaces.                                           *)
(***************************************************************************)
WriteInv ==
    \A t \in Thread :
        /\ pc[t] \in {"stage", "rename"}
              => /\ file # Corrupt
                 /\ entries[t] = [file EXCEPT ![list[t]] = nxt[t]]
                 /\ op[t] = "CheckAndSave"
                      => classifyRevocationTransition(file[list[t]], nxt[t])
                            = "write"
        /\ pc[t] = "syncdir" /\ op[t] = "CheckAndSave"
              => file # Corrupt /\ file[list[t]] = nxt[t]

DiskInv == file \in onDisk /\ AcceptedIsDurable

IInv == TypeOK /\ HoldsMutex /\ OpInv /\ WriteInv /\ DiskInv

-----------------------------------------------------------------------------
(***************************************************************************)
(* The mutex of every store is one of the registry.                        *)
(***************************************************************************)
LEMMA MutexKey ==
  ASSUME NEW t \in Thread
  PROVE  pathLockFor(t) \in MutexKeys
BY FileStoreConstants DEF pathLockFor, MutexKeys

(***************************************************************************)
(* A load hands the store a list id and a record of their types.           *)
(***************************************************************************)
LEMMA CandidateType ==
  ASSUME NEW l \in Loads, Admit(Ring, l.doc, l.now, l.pol) = "ok",
         ReplayChecked(l.doc, l.pol)
  PROVE  l.doc.listId \in ListId /\ StateOf(l.doc) \in State
<1>1. l.doc.listId # Nil /\ l.doc.seq # 0
  BY AdmittedIsWellFounded
<1>2. /\ l.doc.listId \in ListId \cup {Nil}
      /\ l.doc.seq \in 0..MaxSeq /\ l.doc.digest \in Digest
  BY LoadsAssumption DEF Docs
<1> QED BY <1>1, <1>2, FileStoreConstants DEF StateOf, State

(***************************************************************************)
(* The program starts with variables of their types.                       *)
(***************************************************************************)
LEMMA TypeInit == Init => TypeOK
BY FileStoreConstants DEF Init, TypeOK, Entries, None

(***************************************************************************)
(* Returning from a method keeps the types of what it resets.              *)
(***************************************************************************)
LEMMA TypeReturn ==
  ASSUME TypeOK, NEW t \in Thread, NEW r, Return(t, r)
  PROVE  /\ mu' \in [MutexKeys -> Thread \cup {NoThread}]
         /\ pc' \in [Thread -> {"idle", "lock", "load", "stage", "rename", "syncdir"}]
         /\ op' \in [Thread -> {"none", "CheckAndSave", "Save", "Load"}]
         /\ list' \in [Thread -> ListId \cup {Nil}]
         /\ nxt' \in [Thread -> State \cup {Nil}]
         /\ entries' \in [Thread -> Entries]
BY MutexKey, FileStoreConstants DEF TypeOK, Return, Entries, None

(***************************************************************************)
(* So does entering one.                                                   *)
(***************************************************************************)
LEMMA TypeEnter ==
  ASSUME TypeOK, NEW t \in Thread, NEW m \in {"CheckAndSave", "Save", "Load"},
         NEW id \in ListId, NEW st \in State \cup {Nil}, Enter(t, m, id, st)
  PROVE  TypeOK'
BY DEF TypeOK, Enter

(***************************************************************************)
(* Every step keeps the types: one case per action.                        *)
(***************************************************************************)
LEMMA TypeNext == TypeOK /\ [Next]_vars => TypeOK'
<1> SUFFICES ASSUME TypeOK, [Next]_vars PROVE TypeOK'
  OBVIOUS
<1>1. ASSUME NEW t \in Thread, NEW l \in Loads, LoadList(t, l.doc, l.now, l.pol)
      PROVE  TypeOK'
  <2>1. CASE UNCHANGED <<file, onDisk, mu, pc, op, list, nxt, entries, told, accepted>>
    BY <2>1 DEF TypeOK
  <2>2. CASE /\ Admit(Ring, l.doc, l.now, l.pol) = "ok"
             /\ ReplayChecked(l.doc, l.pol)
             /\ Enter(t, "CheckAndSave", l.doc.listId, StateOf(l.doc))
    BY <2>2, CandidateType, TypeEnter
  <2> QED BY <1>1, <2>1, <2>2 DEF LoadList
<1>2. ASSUME NEW t \in Thread, NEW s \in Saves, SaveRevocationState(t, s.id, s.st)
      PROVE  TypeOK'
  <2>1. s.id \in ListId /\ s.st \in State
    BY SavesAssumption
  <2> QED BY <1>2, <2>1, TypeEnter DEF SaveRevocationState
<1>3. ASSUME NEW t \in Thread, NEW id \in ListId, LoadRevocationState(t, id)
      PROVE  TypeOK'
  BY <1>3, TypeEnter DEF LoadRevocationState
<1>4. ASSUME NEW t \in Thread, Lock(t) PROVE TypeOK'
  BY <1>4, MutexKey DEF Lock, TypeOK
<1>5. ASSUME NEW t \in Thread, LoadFails(t) PROVE TypeOK'
  BY <1>5, TypeReturn DEF LoadFails, TypeOK
<1>6. ASSUME NEW t \in Thread, LoadReturns(t) PROVE TypeOK'
  BY <1>6, TypeReturn DEF LoadReturns, TypeOK
<1>7. ASSUME NEW t \in Thread, Rejected(t) PROVE TypeOK'
  BY <1>7, TypeReturn DEF Rejected, TypeOK
<1>8. ASSUME NEW t \in Thread, Repeated(t) PROVE TypeOK'
  <2>1. told' \in Entries /\ accepted' \in Entries
    BY <1>8 DEF Repeated, TypeOK, Entries
  <2> QED BY <1>8, <2>1, TypeReturn DEF Repeated, TypeOK
<1>9. ASSUME NEW t \in Thread, Merge(t) PROVE TypeOK'
  <2>1. [file EXCEPT ![list[t]] = nxt[t]] \in Entries
    BY <1>9 DEF Merge, TypeOK, Entries
  <2> QED BY <1>9, <2>1 DEF Merge, Goto, TypeOK
<1>10. ASSUME NEW t \in Thread, Stage(t) PROVE TypeOK'
  <2>1. CASE Goto(t, "rename") /\ UNCHANGED entries
    BY <1>10, <2>1 DEF Stage, Goto, TypeOK
  <2>2. CASE Return(t, "revocation_state_integrity_failure")
    BY <1>10, <2>2, TypeReturn DEF Stage, TypeOK
  <2> QED BY <1>10, <2>1, <2>2 DEF Stage
<1>11. ASSUME NEW t \in Thread, RenameFails(t) PROVE TypeOK'
  BY <1>11, TypeReturn DEF RenameFails, TypeOK
<1>12. ASSUME NEW t \in Thread, Rename(t) PROVE TypeOK'
  <2>1. told' \in Entries /\ accepted' \in Entries
    BY <1>12 DEF Rename, TypeOK, Entries
  <2> QED BY <1>12, <2>1 DEF Rename, RenameOver, Goto, TypeOK
<1>13. ASSUME NEW t \in Thread, SyncDir(t) PROVE TypeOK'
  <2>1. PICK ok \in BOOLEAN :
          /\ fsyncStateDir(ok)
          /\ Return(t, IF ok THEN "ok" ELSE "revocation_state_integrity_failure")
          /\ IF ok /\ op[t] = "CheckAndSave"
             THEN /\ told' = [told EXCEPT ![list[t]] = nxt[t]]
                  /\ accepted' = [accepted EXCEPT ![list[t]] = nxt[t]]
             ELSE UNCHANGED <<told, accepted>>
    BY <1>13 DEF SyncDir
  <2>2. told' \in Entries /\ accepted' \in Entries
    BY <2>1 DEF TypeOK, Entries
  <2>3. file' \in Entries \cup {Corrupt} /\ onDisk' \in SUBSET (Entries \cup {Corrupt})
    BY <2>1 DEF fsyncStateDir, TypeOK
  <2> QED BY <2>1, <2>2, <2>3, TypeReturn DEF TypeOK
<1>14. ASSUME Crash PROVE TypeOK'
  BY <1>14 DEF Crash, PowerLoss, TypeOK, Entries, None
<1>15. ASSUME Damaged PROVE TypeOK'
  BY <1>15 DEF Damaged, ReplacedOutside, TypeOK, Entries, None
<1>16. CASE UNCHANGED vars
  BY <1>16 DEF vars, TypeOK
<1> QED
  BY <1>1, <1>2, <1>3, <1>4, <1>5, <1>6, <1>7, <1>8, <1>9, <1>10, <1>11, <1>12,
     <1>13, <1>14, <1>15, <1>16 DEF Next, Step

(***************************************************************************)
(* The variables of the store keep their types: what a document must carry *)
(* to be admitted is enough for a record.                                  *)
(***************************************************************************)
THEOREM FileTypeCorrect == Spec => []TypeOK
BY TypeInit, TypeNext, PTL DEF Spec

-----------------------------------------------------------------------------
(***************************************************************************)
(* The inductive invariant holds at the start.                             *)
(***************************************************************************)
LEMMA InvInit == Init => IInv
<1> SUFFICES ASSUME Init PROVE IInv
  OBVIOUS
<1>1. TypeOK
  BY TypeInit
<1>2. DiskInv
  BY FileStoreConstants
  DEF Init, DiskInv, AcceptedIsDurable, Covers, None, Entries
<1> QED
  BY <1>1, <1>2 DEF Init, IInv, HoldsMutex, InStore, OpInv, WriteInv

(***************************************************************************)
(* With one mutex there is at most one thread inside the store.            *)
(***************************************************************************)
LEMMA OneInStore ==
  ASSUME SameMutex, HoldsMutex, NEW s \in Thread, NEW t \in Thread,
         InStore(s), InStore(t)
  PROVE  s = t
BY DEF SameMutex, HoldsMutex

(***************************************************************************)
(* Returning from the store releases the mutex and keeps the invariant,    *)
(* whatever is returned, if it leaves the disk in order.                   *)
(***************************************************************************)
LEMMA InvReturn ==
  ASSUME SameMutex, IInv, TypeOK', DiskInv', NEW t \in Thread, NEW r,
         InStore(t), Return(t, r)
  PROVE  IInv'
<1>1. \A s \in Thread : s # t => ~InStore(s)
  BY OneInStore DEF IInv
<1>2. \A s \in Thread : ~InStore(s)'
  BY <1>1 DEF InStore, Return, IInv, TypeOK
<1>3. OpInv'
  BY DEF IInv, OpInv, Return, TypeOK
<1>4. WriteInv'
  BY <1>2 DEF WriteInv, InStore
<1>5. HoldsMutex'
  BY <1>2 DEF HoldsMutex
<1> QED BY <1>3, <1>4, <1>5 DEF IInv

(***************************************************************************)
(* Entering a method touches neither the store nor the disk.               *)
(***************************************************************************)
LEMMA InvEnter ==
  ASSUME IInv, TypeOK', NEW t \in Thread, pc[t] = "idle",
         NEW m \in {"CheckAndSave", "Save", "Load"}, NEW id \in ListId, NEW st,
         m # "Load" => st \in State, Enter(t, m, id, st)
  PROVE  IInv'
<1>1. HoldsMutex'
  BY DEF IInv, HoldsMutex, InStore, Enter, TypeOK
<1>2. OpInv'
  BY DEF IInv, OpInv, Enter, TypeOK
<1>3. WriteInv'
  BY DEF IInv, WriteInv, Enter, TypeOK
<1>4. DiskInv'
  BY DEF IInv, DiskInv, AcceptedIsDurable, Enter
<1> QED BY <1>1, <1>2, <1>3, <1>4 DEF IInv

(***************************************************************************)
(* A record of its type that repeats another is the same record.           *)
(***************************************************************************)
LEMMA RepeatIsSame ==
  ASSUME NEW prev \in State \cup {Nil}, NEW nx \in State,
         classifyRevocationTransition(prev, nx) = "idempotent"
  PROVE  prev = nx
<1>1. prev # Nil /\ ~(nx.seq > prev.seq) /\ ~(nx.seq < prev.seq)
      /\ nx.digest = prev.digest
  BY DEF classifyRevocationTransition
<1>2. prev \in State /\ prev.seq \in Int /\ nx.seq \in Int
  BY <1>1, FileStoreConstants DEF State
<1>3. prev.seq = nx.seq
  BY <1>1, <1>2
<1> QED BY <1>1, <1>2, <1>3 DEF State

(***************************************************************************)
(* After a write the file covers what was accepted, of every list.         *)
(***************************************************************************)
LEMMA WriteCovers ==
  ASSUME IInv, NEW t \in Thread, pc[t] = "rename", op[t] = "CheckAndSave"
  PROVE  \A id \in ListId : /\ Covers(entries[t][id], accepted[id])
                            /\ Covers(entries[t][id], file[id])
<1>0. TypeOK /\ DiskInv /\ file # Corrupt /\ list[t] \in ListId /\ nxt[t] \in State
  BY DEF IInv, OpInv, WriteInv
<1>1. file \in Entries /\ accepted \in Entries
  BY <1>0 DEF TypeOK
<1>2. \A id \in ListId : Covers(file[id], accepted[id])
  BY <1>0 DEF DiskInv, AcceptedIsDurable
<1>3. /\ entries[t] = [file EXCEPT ![list[t]] = nxt[t]]
      /\ classifyRevocationTransition(file[list[t]], nxt[t]) = "write"
  BY DEF IInv, WriteInv
<1>4. \A id \in ListId : file[id] \in State \cup {Nil} /\ accepted[id] \in State \cup {Nil}
  BY <1>1 DEF Entries
<1>5. \A st \in State : st # Nil /\ st.seq \in Int
  BY FileStoreConstants DEF State
<1>6. ASSUME NEW id \in ListId
      PROVE  Covers(entries[t][id], accepted[id]) /\ Covers(entries[t][id], file[id])
  <2>1. Covers(file[id], file[id])
    BY <1>4, <1>5 DEF Covers
  <2>2. CASE id = list[t]
    <3>1. entries[t][id] = nxt[t]
      BY <1>0, <1>1, <1>3, <2>2 DEF Entries
    <3> QED
      BY <1>0, <1>2, <1>3, <1>4, <1>5, <2>1, <2>2, <3>1, CoversAfterWrite
  <2>3. CASE id # list[t]
    <3>1. entries[t][id] = file[id]
      BY <1>0, <1>1, <1>3, <2>3 DEF Entries
    <3> QED BY <1>2, <2>1, <3>1
  <2> QED BY <2>2, <2>3
<1> QED BY <1>6

(***************************************************************************)
(* A failing read, a failing write and a refusal leave the disk alone.     *)
(***************************************************************************)
LEMMA DiskKept ==
  ASSUME DiskInv, UNCHANGED <<file, onDisk, accepted>>
  PROVE  DiskInv'
BY DEF DiskInv, AcceptedIsDurable

(***************************************************************************)
(* Every step keeps the inductive invariant, if all stores share one mutex *)
(* and directory syncs are not skipped.                                    *)
(***************************************************************************)
LEMMA InvNext ==
  ASSUME SameMutex, ~Windows
  PROVE  IInv /\ [Next]_vars => IInv'
<1> SUFFICES ASSUME IInv, [Next]_vars PROVE IInv'
  OBVIOUS
<1>0. TypeOK /\ TypeOK' /\ DiskInv
  BY TypeNext DEF IInv
<1>1. ASSUME NEW t \in Thread, NEW l \in Loads, LoadList(t, l.doc, l.now, l.pol)
      PROVE  IInv'
  <2>1. CASE UNCHANGED <<file, onDisk, mu, pc, op, list, nxt, entries, told, accepted>>
    BY <1>0, <2>1 DEF IInv, HoldsMutex, InStore, OpInv, WriteInv, DiskInv,
                      AcceptedIsDurable
  <2>2. CASE /\ Admit(Ring, l.doc, l.now, l.pol) = "ok"
             /\ ReplayChecked(l.doc, l.pol)
             /\ Enter(t, "CheckAndSave", l.doc.listId, StateOf(l.doc))
    BY <1>0, <1>1, <2>2, CandidateType, InvEnter DEF LoadList
  <2> QED BY <1>1, <2>1, <2>2 DEF LoadList
<1>2. ASSUME NEW t \in Thread, NEW s \in Saves, SaveRevocationState(t, s.id, s.st)
      PROVE  IInv'
  <2>1. s.id \in ListId /\ s.st \in State
    BY SavesAssumption
  <2> QED BY <1>0, <1>2, <2>1, InvEnter DEF SaveRevocationState
<1>3. ASSUME NEW t \in Thread, NEW id \in ListId, LoadRevocationState(t, id)
      PROVE  IInv'
  BY <1>0, <1>3, InvEnter DEF LoadRevocationState
<1>4. ASSUME NEW t \in Thread, Lock(t) PROVE IInv'
  <2>1. HoldsMutex'
    <3> SUFFICES ASSUME NEW s \in Thread, InStore(s)'
                 PROVE  mu'[pathLockFor(s)] = s
      BY DEF HoldsMutex
    <3>1. \A u \in Thread : ~InStore(u)
      BY <1>4, FileStoreConstants DEF IInv, HoldsMutex, Lock, SameMutex
    <3>2. s = t
      BY <1>4, <1>0, <3>1 DEF Lock, InStore, TypeOK
    <3> QED BY <1>4, <1>0, <3>2, MutexKey DEF Lock, TypeOK
  <2>2. OpInv'
    BY <1>4, <1>0 DEF IInv, OpInv, Lock, TypeOK
  <2>3. WriteInv'
    BY <1>4, <1>0 DEF IInv, WriteInv, Lock, TypeOK
  <2>4. DiskInv'
    BY <1>4, <1>0, DiskKept DEF Lock
  <2> QED BY <1>0, <2>1, <2>2, <2>3, <2>4 DEF IInv
<1>5. ASSUME NEW t \in Thread,
             LoadFails(t) \/ LoadReturns(t) \/ Rejected(t) \/ RenameFails(t)
      PROVE  IInv'
  <2>1. DiskInv'
    BY <1>0, <1>5, DiskKept DEF LoadFails, LoadReturns, Rejected, RenameFails
  <2>2. InStore(t) /\ \E r : Return(t, r)
    BY <1>5 DEF InStore, LoadFails, LoadReturns, Rejected, RenameFails
  <2> QED BY <1>0, <2>1, <2>2, InvReturn
<1>6. ASSUME NEW t \in Thread, Repeated(t) PROVE IInv'
  <2>1. /\ pc[t] = "load" /\ op[t] = "CheckAndSave" /\ file # Corrupt
        /\ classifyRevocationTransition(file[list[t]], nxt[t]) = "idempotent"
        /\ Return(t, "ok") /\ UNCHANGED <<file, onDisk>>
        /\ accepted' = IF onDisk = {file} THEN [accepted EXCEPT ![list[t]] = nxt[t]]
                                          ELSE accepted
    BY <1>6 DEF Repeated
  <2>2. list[t] \in ListId /\ nxt[t] \in State
    BY <2>1 DEF IInv, OpInv
  <2>3. file[list[t]] = nxt[t]
    <3>1. file[list[t]] \in State \cup {Nil}
      BY <1>0, <2>1, <2>2 DEF TypeOK, Entries
    <3> QED BY <2>1, <2>2, <3>1, RepeatIsSame
  <2>4. DiskInv'
    <3>1. CASE onDisk = {file}
      <4>1. nxt[t] # Nil
        BY <2>2, FileStoreConstants
      <4>2. \A id \in ListId : Covers(file[id], accepted'[id])
        BY <1>0, <2>1, <2>2, <2>3, <3>1, <4>1
        DEF DiskInv, AcceptedIsDurable, Covers, TypeOK, Entries
      <4> QED BY <2>1, <3>1, <4>2 DEF DiskInv, AcceptedIsDurable
    <3>2. CASE onDisk # {file}
      BY <1>0, <2>1, <3>2, DiskKept
    <3> QED BY <3>1, <3>2
  <2> QED BY <1>0, <2>1, <2>4, InvReturn DEF InStore
<1>7. ASSUME NEW t \in Thread, Merge(t) PROVE IInv'
  <2>0. /\ pc[t] = "load" /\ op[t] \in {"CheckAndSave", "Save"} /\ file # Corrupt
        /\ op[t] = "CheckAndSave" =>
              classifyRevocationTransition(file[list[t]], nxt[t]) = "write"
        /\ entries' = [entries EXCEPT ![t] = [file EXCEPT ![list[t]] = nxt[t]]]
        /\ pc' = [pc EXCEPT ![t] = "stage"]
        /\ UNCHANGED <<file, onDisk, mu, op, list, nxt, told, accepted>>
    BY <1>7 DEF Merge, Goto
  <2>1. HoldsMutex'
    BY <2>0, <1>0 DEF IInv, HoldsMutex, InStore, TypeOK
  <2>2. OpInv'
    BY <2>0, <1>0 DEF IInv, OpInv, TypeOK
  <2>3. WriteInv'
    <3>1. \A s \in Thread : s # t => ~InStore(s)
      BY <2>0, OneInStore DEF IInv, InStore
    <3> QED BY <2>0, <1>0, <3>1 DEF WriteInv, InStore, TypeOK
  <2>4. DiskInv'
    BY <2>0, <1>0, DiskKept
  <2> QED BY <1>0, <2>1, <2>2, <2>3, <2>4 DEF IInv
<1>8. ASSUME NEW t \in Thread, Stage(t) PROVE IInv'
  <2>1. pc[t] = "stage" /\ UNCHANGED <<file, onDisk, told, accepted>>
    BY <1>8 DEF Stage
  <2>2. DiskInv'
    BY <1>0, <2>1, DiskKept
  <2>3. CASE Goto(t, "rename") /\ UNCHANGED entries
    <3>1. HoldsMutex'
      BY <1>0, <2>1, <2>3 DEF IInv, HoldsMutex, InStore, Goto, TypeOK
    <3>2. OpInv'
      BY <1>0, <2>1, <2>3 DEF IInv, OpInv, Goto, TypeOK
    <3>3. WriteInv'
      BY <1>0, <2>1, <2>3 DEF IInv, WriteInv, Goto, TypeOK
    <3> QED BY <1>0, <2>2, <3>1, <3>2, <3>3 DEF IInv
  <2>4. CASE Return(t, "revocation_state_integrity_failure")
    BY <1>0, <2>1, <2>2, <2>4, InvReturn DEF InStore
  <2> QED BY <1>8, <2>3, <2>4 DEF Stage
<1>9. ASSUME NEW t \in Thread, Rename(t) PROVE IInv'
  <2>0. /\ pc[t] = "rename"
        /\ file' = entries[t] /\ onDisk' = onDisk \cup {entries[t]}
        /\ accepted' = IF op[t] = "Save" THEN [accepted EXCEPT ![list[t]] = Nil]
                                         ELSE accepted
        /\ pc' = [pc EXCEPT ![t] = "syncdir"]
        /\ UNCHANGED <<mu, op, list, nxt, entries>>
    BY <1>9 DEF Rename, RenameOver, Goto
  <2>1. /\ op[t] \in {"CheckAndSave", "Save"}
        /\ list[t] \in ListId /\ nxt[t] \in State
        /\ file # Corrupt
        /\ entries[t] = [file EXCEPT ![list[t]] = nxt[t]]
    BY <2>0 DEF IInv, OpInv, WriteInv
  <2>2. file \in Entries /\ entries[t] \in Entries /\ entries[t] # Corrupt
    <3>1. file \in Entries
      BY <1>0, <2>1 DEF TypeOK
    <3>2. entries[t] \in Entries
      BY <1>0 DEF TypeOK
    <3> QED BY <3>1, <3>2, FileStoreConstants
  <2>3. HoldsMutex'
    BY <1>0, <2>0 DEF IInv, HoldsMutex, InStore, TypeOK
  <2>4. OpInv'
    BY <1>0, <2>0 DEF IInv, OpInv, TypeOK
  <2>5. WriteInv'
    <3>1. \A s \in Thread : s # t => ~InStore(s)
      BY <2>0, OneInStore DEF IInv, InStore
    <3>2. entries[t][list[t]] = nxt[t]
      BY <2>1, <2>2 DEF Entries
    <3> QED BY <1>0, <2>0, <2>2, <3>1, <3>2 DEF WriteInv, InStore, TypeOK
  <2>6. DiskInv'
    <3>1. CASE op[t] = "CheckAndSave"
      <4>1. accepted' = accepted
        BY <2>0, <3>1
      <4>2. \A id \in ListId : Covers(entries[t][id], accepted[id])
        BY <2>0, <3>1, WriteCovers
      <4> QED BY <1>0, <2>0, <2>2, <4>1, <4>2 DEF DiskInv, AcceptedIsDurable
    <3>2. CASE op[t] = "Save"
      <4>1. accepted' = [accepted EXCEPT ![list[t]] = Nil]
        BY <2>0, <3>2
      <4>2. accepted \in Entries
        BY <1>0 DEF TypeOK
      <4>3. \A id \in ListId : accepted'[id] = IF id = list[t] THEN Nil ELSE accepted[id]
        BY <4>1, <4>2 DEF Entries
      <4>4. \A id \in ListId : id # list[t] => entries[t][id] = file[id]
        BY <2>1, <2>2 DEF Entries
      <4>5. \A c \in onDisk : c # Corrupt =>
               \A id \in ListId : Covers(c[id], accepted'[id])
        BY <1>0, <4>3 DEF DiskInv, AcceptedIsDurable, Covers
      <4>6. \A id \in ListId : Covers(entries[t][id], accepted'[id])
        BY <1>0, <2>1, <4>3, <4>4, <4>5 DEF DiskInv, Covers
      <4>7. Corrupt \in onDisk => accepted' = None
        BY <1>0, <2>1, <4>1 DEF DiskInv, AcceptedIsDurable, None
      <4> QED BY <2>0, <2>2, <4>5, <4>6, <4>7 DEF DiskInv, AcceptedIsDurable
    <3> QED BY <2>1, <3>1, <3>2
  <2> QED BY <1>0, <2>3, <2>4, <2>5, <2>6 DEF IInv
<1>10. ASSUME NEW t \in Thread, SyncDir(t) PROVE IInv'
  <2>1. PICK ok \in BOOLEAN :
          /\ fsyncStateDir(ok)
          /\ Return(t, IF ok THEN "ok" ELSE "revocation_state_integrity_failure")
          /\ IF ok /\ op[t] = "CheckAndSave"
             THEN /\ told' = [told EXCEPT ![list[t]] = nxt[t]]
                  /\ accepted' = [accepted EXCEPT ![list[t]] = nxt[t]]
             ELSE UNCHANGED <<told, accepted>>
    BY <1>10 DEF SyncDir
  <2>2. pc[t] = "syncdir" /\ file' = file
    BY <1>10, <2>1 DEF SyncDir, fsyncStateDir
  <2>3. onDisk' = {file} \/ (onDisk' = onDisk /\ ~ok)
    BY <2>1 DEF fsyncStateDir
  <2>4. DiskInv'
    <3>1. CASE ok /\ op[t] = "CheckAndSave"
      <4>1. /\ file # Corrupt /\ file[list[t]] = nxt[t]
            /\ list[t] \in ListId /\ nxt[t] \in State
        BY <2>2, <3>1 DEF IInv, WriteInv, OpInv
      <4>2. nxt[t] # Nil
        BY <4>1, FileStoreConstants
      <4>3. \A id \in ListId : Covers(file[id], accepted'[id])
        BY <1>0, <2>1, <3>1, <4>1, <4>2
        DEF DiskInv, AcceptedIsDurable, Covers, TypeOK, Entries
      <4> QED BY <2>2, <2>3, <3>1, <4>1, <4>3 DEF DiskInv, AcceptedIsDurable
    <3>2. CASE ~(ok /\ op[t] = "CheckAndSave")
      BY <1>0, <2>1, <2>2, <2>3, <3>2 DEF DiskInv, AcceptedIsDurable
    <3> QED BY <3>1, <3>2
  <2> QED BY <1>0, <2>1, <2>2, <2>4, InvReturn DEF InStore
<1>11. ASSUME Crash PROVE IInv'
  <2>1. \A t \in Thread : pc'[t] = "idle" /\ op'[t] = "none"
    BY <1>11 DEF Crash
  <2>2. DiskInv'
    BY <1>0, <1>11 DEF Crash, PowerLoss, DiskInv, AcceptedIsDurable
  <2> QED
    BY <1>0, <2>1, <2>2 DEF IInv, HoldsMutex, InStore, OpInv, WriteInv
<1>12. ASSUME Damaged PROVE IInv'
  <2>1. \A t \in Thread : ~InStore(t) /\ ~InStore(t)'
    BY <1>12 DEF Damaged, Quiet, InStore
  <2>2. PICK c \in {Corrupt, None} : file' = c /\ onDisk' = {c}
    BY <1>12 DEF Damaged, ReplacedOutside
  <2>3. accepted' = None
    BY <1>12 DEF Damaged
  <2>4. DiskInv'
    BY <2>2, <2>3 DEF DiskInv, AcceptedIsDurable, Covers, None
  <2>5. OpInv'
    BY <1>12 DEF IInv, OpInv, Damaged
  <2>6. HoldsMutex' /\ WriteInv'
    BY <2>1 DEF HoldsMutex, WriteInv, InStore
  <2> QED BY <1>0, <2>4, <2>5, <2>6 DEF IInv
<1>13. CASE UNCHANGED vars
  BY <1>0, <1>13 DEF vars, IInv, HoldsMutex, InStore, OpInv, WriteInv, DiskInv,
                     AcceptedIsDurable
<1> QED
  BY <1>1, <1>2, <1>3, <1>4, <1>5, <1>6, <1>7, <1>8, <1>9, <1>10, <1>11, <1>12,
     <1>13 DEF Next, Step

(***************************************************************************)
(* The inductive invariant holds always.                                   *)
(***************************************************************************)
LEMMA InvHolds ==
  ASSUME SameMutex, ~Windows
  PROVE  Spec => []IInv
BY InvInit, InvNext, PTL DEF Spec

-----------------------------------------------------------------------------
(***************************************************************************)
(* Whatever a power loss leaves covers every accepted record, whatever was *)
(* loaded, saved and failed in between (POSIX).                            *)
(***************************************************************************)
THEOREM FileAcceptedDurable ==
  ASSUME SameMutex, ~Windows
  PROVE  Spec => []AcceptedIsDurable
<1>1. IInv => AcceptedIsDurable
  BY DEF IInv, DiskInv
<1> QED BY <1>1, InvHolds, PTL

(***************************************************************************)
(* No transaction moves a record back, its own or another list's, nor      *)
(* writes over a file that fails its integrity check.                      *)
(***************************************************************************)
THEOREM MarksKept ==
  ASSUME SameMutex, ~Windows
  PROVE  Spec => MarksNeverRegress
<1>1. ASSUME IInv, NEW t \in Thread, op[t] = "CheckAndSave", Step(t)
      PROVE  IF file = Corrupt THEN file' = Corrupt
             ELSE \A id \in ListId : Covers(file'[id], file[id])
  <2>1. CASE Rename(t)
    <3>1. pc[t] = "rename" /\ file' = entries[t]
      BY <2>1 DEF Rename, RenameOver
    <3>2. file # Corrupt
      BY <1>1, <3>1 DEF IInv, WriteInv
    <3> QED BY <1>1, <3>1, <3>2, WriteCovers
  <2>2. CASE ~Rename(t)
    <3>1. file' = file
      BY <1>1, <2>2 DEF Step, LoadFails, LoadReturns, Rejected, Repeated, Merge,
                        Stage, RenameFails, SyncDir, fsyncStateDir
    <3> QED BY <3>1 DEF Covers
  <2> QED BY <2>1, <2>2
<1>2. IInv => [\A t \in Thread :
                 op[t] = "CheckAndSave" /\ Step(t)
                   => IF file = Corrupt THEN file' = Corrupt
                      ELSE \A id \in ListId : Covers(file'[id], file[id])]_vars
  BY <1>1
<1> QED BY <1>2, InvHolds, PTL DEF MarksNeverRegress

(***************************************************************************)
(* The anti-replay guarantee: nothing is accepted that an accepted list    *)
(* does not cover.                                                         *)
(***************************************************************************)
THEOREM NeverReplayed ==
  ASSUME SameMutex, ~Windows
  PROVE  Spec => NoReplay
<1>1. ASSUME IInv, [Next]_vars, NEW t \in Thread, AcceptsNow(t)
      PROVE  Covers(nxt[t], accepted[list[t]])
  <2>0. op[t] = "CheckAndSave" /\ op'[t] = "none" /\ answer' = "ok" /\ TypeOK
    BY <1>1 DEF AcceptsNow, IInv
  <2>1. ASSUME NEW s \in Thread, NEW r, Return(s, r)
        PROVE  s = t /\ r = "ok"
    BY <2>0, <2>1 DEF Return, TypeOK
  <2>2. Repeated(t) \/ SyncDir(t)
    <3>1. ASSUME NEW s \in Thread, NEW m \in {"CheckAndSave", "Save", "Load"},
                 NEW id, NEW st, Enter(s, m, id, st)
          PROVE  FALSE
      BY <2>0, <3>1 DEF Enter, TypeOK
    <3>2. ASSUME NEW s \in Thread, NEW l \in Loads, LoadList(s, l.doc, l.now, l.pol)
          PROVE  FALSE
      BY <2>0, <3>1, <3>2 DEF LoadList
    <3>3. ASSUME NEW s \in Thread, NEW v \in Saves, SaveRevocationState(s, v.id, v.st)
          PROVE  FALSE
      BY <3>1, <3>3 DEF SaveRevocationState
    <3>4. ASSUME NEW s \in Thread, NEW id \in ListId, LoadRevocationState(s, id)
          PROVE  FALSE
      BY <3>1, <3>4 DEF LoadRevocationState
    <3>5. ASSUME NEW s \in Thread, Lock(s) PROVE FALSE
      BY <2>0, <3>5 DEF Lock
    <3>6. ASSUME NEW s \in Thread,
                 LoadFails(s) \/ LoadReturns(s) \/ Rejected(s) \/ RenameFails(s)
          PROVE  FALSE
      BY <2>0, <2>1, <3>6 DEF LoadFails, LoadReturns, Rejected, RenameFails
    <3>7. ASSUME NEW s \in Thread, Merge(s) \/ Rename(s) PROVE FALSE
      BY <2>0, <3>7 DEF Merge, Rename, Goto
    <3>8. ASSUME NEW s \in Thread, Stage(s) PROVE FALSE
      BY <2>0, <2>1, <3>8 DEF Stage, Goto
    <3>9. ASSUME NEW s \in Thread, Repeated(s) \/ SyncDir(s) PROVE s = t
      BY <2>1, <3>9 DEF Repeated, SyncDir
    <3>10. ASSUME Crash \/ Damaged \/ UNCHANGED vars PROVE FALSE
      BY <2>0, <3>10 DEF Crash, Damaged, vars
    <3> QED
      BY <1>1, <3>2, <3>3, <3>4, <3>5, <3>6, <3>7, <3>8, <3>9, <3>10
      DEF Next, Step
  <2>3. /\ file # Corrupt /\ list[t] \in ListId /\ file[list[t]] = nxt[t]
    <3>1. CASE Repeated(t)
      <4>1. /\ pc[t] = "load" /\ file # Corrupt
            /\ classifyRevocationTransition(file[list[t]], nxt[t]) = "idempotent"
        BY <3>1 DEF Repeated
      <4>2. list[t] \in ListId /\ nxt[t] \in State
        BY <1>1, <2>0, <4>1 DEF IInv, OpInv
      <4>3. file[list[t]] \in State \cup {Nil}
        BY <2>0, <4>1, <4>2 DEF TypeOK, Entries
      <4> QED BY <4>1, <4>2, <4>3, RepeatIsSame
    <3>2. CASE SyncDir(t)
      BY <1>1, <2>0, <3>2 DEF SyncDir, IInv, OpInv, WriteInv
    <3> QED BY <2>2, <3>1, <3>2
  <2> QED BY <1>1, <2>3 DEF IInv, DiskInv, AcceptedIsDurable
<1>2. IInv /\ [Next]_vars
        => [\A t \in Thread : AcceptsNow(t) => Covers(nxt[t], accepted[list[t]])]_vars
  BY <1>1
<1> QED BY <1>2, InvHolds, PTL DEF NoReplay, Spec

-----------------------------------------------------------------------------
(***************************************************************************)
(* Where directory syncs do not fail, the file on the disk is the visible  *)
(* one unless a call is about to sync it, and whoever was told that a list *)
(* is accepted can rely on it.                                             *)
(***************************************************************************)
SyncedInv ==
    /\ told = accepted
    /\ (\A t \in Thread : pc[t] # "syncdir") => onDisk = {file}

(***************************************************************************)
(* Every step keeps that: a repetition is answered by a thread alone in    *)
(* the store, so no sync is outstanding.                                   *)
(***************************************************************************)
LEMMA SyncedNext ==
  ASSUME SameMutex, ~SyncMayFail
  PROVE  IInv /\ SyncedInv /\ [Next]_vars => SyncedInv'
<1> SUFFICES ASSUME IInv, SyncedInv, [Next]_vars PROVE SyncedInv'
  OBVIOUS
<1>0. TypeOK /\ HoldsMutex /\ told = accepted
  BY DEF IInv, SyncedInv
<1>1. ASSUME NEW t \in Thread, NEW step, step # "syncdir", pc[t] # "syncdir",
             pc' = [pc EXCEPT ![t] = step],
             UNCHANGED <<file, onDisk, told, accepted>>
      PROVE  SyncedInv'
  BY <1>0, <1>1 DEF SyncedInv, TypeOK
<1>2. ASSUME NEW t \in Thread, NEW m, NEW id, NEW st,
             pc[t] = "idle", Enter(t, m, id, st)
      PROVE  SyncedInv'
  BY <1>1, <1>2 DEF Enter
<1>3. ASSUME NEW t \in Thread, NEW l \in Loads, LoadList(t, l.doc, l.now, l.pol)
      PROVE  SyncedInv'
  BY <1>2, <1>3 DEF LoadList, SyncedInv
<1>4. ASSUME NEW t \in Thread, NEW s \in Saves, SaveRevocationState(t, s.id, s.st)
      PROVE  SyncedInv'
  BY <1>2, <1>4 DEF SaveRevocationState
<1>5. ASSUME NEW t \in Thread, NEW id \in ListId, LoadRevocationState(t, id)
      PROVE  SyncedInv'
  BY <1>2, <1>5 DEF LoadRevocationState
<1>6. ASSUME NEW t \in Thread, Lock(t) PROVE SyncedInv'
  BY <1>1, <1>6 DEF Lock
<1>7. ASSUME NEW t \in Thread,
             \/ LoadFails(t) \/ LoadReturns(t) \/ Rejected(t)
             \/ Merge(t) \/ Stage(t) \/ RenameFails(t)
      PROVE  SyncedInv'
  BY <1>1, <1>7 DEF LoadFails, LoadReturns, Rejected, Merge, Stage, RenameFails,
                    Return, Goto
<1>8. ASSUME NEW t \in Thread, Repeated(t) PROVE SyncedInv'
  <2>1. pc[t] = "load" /\ Return(t, "ok") /\ UNCHANGED <<file, onDisk>>
    BY <1>8 DEF Repeated
  <2>2. \A s \in Thread : pc[s] # "syncdir"
    BY <1>0, <2>1, OneInStore DEF InStore
  <2>3. onDisk = {file}
    BY <2>2 DEF SyncedInv
  <2>4. told' = accepted'
    BY <1>0, <1>8, <2>3 DEF Repeated
  <2> QED BY <2>1, <2>3, <2>4 DEF SyncedInv
<1>9. ASSUME NEW t \in Thread, Rename(t) PROVE SyncedInv'
  <2>1. pc'[t] = "syncdir"
    BY <1>0, <1>9 DEF Rename, Goto, TypeOK
  <2>2. told' = accepted'
    BY <1>0, <1>9 DEF Rename
  <2> QED BY <2>1, <2>2 DEF SyncedInv
<1>10. ASSUME NEW t \in Thread, SyncDir(t) PROVE SyncedInv'
  BY <1>0, <1>10 DEF SyncDir, fsyncStateDir, SyncedInv
<1>11. CASE Crash
  BY <1>0, <1>11 DEF Crash, PowerLoss, SyncedInv
<1>12. CASE Damaged
  BY <1>12 DEF Damaged, ReplacedOutside, SyncedInv
<1>13. CASE UNCHANGED vars
  BY <1>13 DEF vars, SyncedInv
<1> QED BY <1>3, <1>4, <1>5, <1>6, <1>7, <1>8, <1>9, <1>10, <1>11, <1>12, <1>13
        DEF Next, Step

(***************************************************************************)
(* revocation_state.go:364: it is a failed sync of the directory only that *)
(* makes the answer to a repetition worth nothing.  Where none fails, no   *)
(* list is accepted that one a caller was told is accepted does not cover, *)
(* whatever power is lost.                                                 *)
(***************************************************************************)
THEOREM ToldIsKeptBySyncs ==
  ASSUME SameMutex, ~Windows, ~SyncMayFail
  PROVE  Spec => NoReplayOfTold
<1>1. Init => SyncedInv
  BY DEF Init, SyncedInv
<1>2. Spec => [](IInv /\ SyncedInv)
  BY <1>1, SyncedNext, InvInit, InvNext, PTL DEF Spec
<1>3. SyncedInv
        /\ [\A t \in Thread : AcceptsNow(t) => Covers(nxt[t], accepted[list[t]])]_vars
        => [\A t \in Thread : AcceptsNow(t) => Covers(nxt[t], told[list[t]])]_vars
  BY DEF SyncedInv
<1> QED BY <1>2, <1>3, NeverReplayed, PTL DEF NoReplay, NoReplayOfTold

-----------------------------------------------------------------------------
(***************************************************************************)
(* A mutex is held by a thread inside the store, and it is that thread's.  *)
(***************************************************************************)
HeldInv ==
    /\ TypeOK
    /\ \A k \in MutexKeys :
          mu[k] # NoThread => InStore(mu[k]) /\ pathLockFor(mu[k]) = k

(***************************************************************************)
(* Every step keeps that, also for stores with mutexes of their own.       *)
(***************************************************************************)
LEMMA HeldNext == HeldInv /\ [Next]_vars => HeldInv'
<1> SUFFICES ASSUME HeldInv, [Next]_vars PROVE HeldInv'
  OBVIOUS
<1>0. TypeOK /\ TypeOK'
  BY TypeNext DEF HeldInv
<1>1. ASSUME NEW t \in Thread, NEW r, Return(t, r) PROVE HeldInv'
  BY <1>0, <1>1, MutexKey DEF HeldInv, Return, InStore, TypeOK
<1>2. ASSUME NEW t \in Thread, NEW m, NEW id, NEW st,
             pc[t] = "idle", Enter(t, m, id, st)
      PROVE  HeldInv'
  BY <1>0, <1>2 DEF HeldInv, Enter, InStore, TypeOK
<1>3. ASSUME NEW t \in Thread, NEW step \in {"stage", "rename", "syncdir"},
             Goto(t, step)
      PROVE  HeldInv'
  BY <1>0, <1>3 DEF HeldInv, Goto, InStore, TypeOK
<1>4. ASSUME NEW t \in Thread, NEW l \in Loads, LoadList(t, l.doc, l.now, l.pol)
      PROVE  HeldInv'
  BY <1>0, <1>2, <1>4 DEF LoadList, HeldInv, InStore
<1>5. ASSUME NEW t \in Thread, NEW s \in Saves, SaveRevocationState(t, s.id, s.st)
      PROVE  HeldInv'
  BY <1>2, <1>5 DEF SaveRevocationState
<1>6. ASSUME NEW t \in Thread, NEW id \in ListId, LoadRevocationState(t, id)
      PROVE  HeldInv'
  BY <1>2, <1>6 DEF LoadRevocationState
<1>7. ASSUME NEW t \in Thread, Lock(t) PROVE HeldInv'
  BY <1>0, <1>7, MutexKey DEF HeldInv, Lock, InStore, TypeOK
<1>8. ASSUME NEW t \in Thread, Step(t) PROVE HeldInv'
  <2>1. \/ \E r : Return(t, r)
        \/ \E step \in {"stage", "rename", "syncdir"} : Goto(t, step)
    BY <1>8 DEF Step, LoadFails, LoadReturns, Rejected, Repeated, Merge, Stage,
                RenameFails, Rename, SyncDir
  <2> QED BY <1>1, <1>3, <2>1
<1>9. ASSUME Crash PROVE HeldInv'
  BY <1>0, <1>9 DEF Crash, HeldInv
<1>10. ASSUME Damaged PROVE HeldInv'
  BY <1>0, <1>10 DEF Damaged, HeldInv, InStore
<1>11. CASE UNCHANGED vars
  BY <1>0, <1>11 DEF vars, HeldInv, InStore
<1> QED
  BY <1>4, <1>5, <1>6, <1>7, <1>8, <1>9, <1>10, <1>11 DEF Next

(***************************************************************************)
(* No way out of a call keeps the mutex: who holds it is inside the store, *)
(* whatever the spellings of the path.                                     *)
(***************************************************************************)
THEOREM MutexHeldOnlyInside == Spec => []HeldOnlyInside
<1>1. Init => HeldInv
  BY TypeInit DEF Init, HeldInv
<1>2. HeldInv => HeldOnlyInside
  BY DEF HeldInv, HeldOnlyInside, InStore
<1> QED BY <1>1, <1>2, HeldNext, PTL DEF Spec

-----------------------------------------------------------------------------
(***************************************************************************)
(* A record of list id that a well founded document or a direct save gives *)
(* reason for.                                                             *)
(***************************************************************************)
Founded(id, st) ==
    \/ st = Nil
    \/ [id |-> id, st |-> st] \in Saves
    \/ \E doc \in Docs : doc.listId = id /\ StateOf(doc) = st /\ WellFounded(doc)

(***************************************************************************)
(* There is a reason for every record on disk, in hand, or on its way.     *)
(***************************************************************************)
FoundedInv ==
    /\ TypeOK
    /\ \A c \in onDisk \cup {file} :
          c # Corrupt => \A id \in ListId : Founded(id, c[id])
    /\ \A t \in Thread :
          /\ pc[t] # "idle" => list[t] \in ListId
          /\ op[t] \in {"CheckAndSave", "Save"} => Founded(list[t], nxt[t])
          /\ pc[t] \in {"stage", "rename"}
                => \A id \in ListId : Founded(id, entries[t][id])

(***************************************************************************)
(* What a load hands the store has its document as the reason.             *)
(***************************************************************************)
LEMMA CandidateFounded ==
  ASSUME NEW l \in Loads, Admit(Ring, l.doc, l.now, l.pol) = "ok",
         ReplayChecked(l.doc, l.pol)
  PROVE  Founded(l.doc.listId, StateOf(l.doc))
<1>1. /\ l.doc.keyId \in DOMAIN Ring /\ ~Ring[l.doc.keyId].revoked
      /\ l.doc.signed = "domain" /\ l.doc.schema = RevocationSchemaVersion
      /\ l.doc.issuedAt # Nil /\ l.doc.expiresAt # Nil
      /\ l.doc.expiresAt > l.doc.issuedAt
  BY AdmittedIsWellFounded
<1>2. l.doc \in Docs /\ {l.doc.issuedAt, l.doc.expiresAt} \subseteq Int \cup {Nil}
  BY LoadsAssumption DEF Docs
<1>3. l.doc.issuedAt < l.doc.expiresAt
  BY <1>1, <1>2
<1>4. WellFounded(l.doc)
  BY <1>1, <1>3 DEF WellFounded
<1> QED BY <1>2, <1>4 DEF Founded

(***************************************************************************)
(* No step brings in a record without a reason.                            *)
(***************************************************************************)
LEMMA FoundedNext == FoundedInv /\ [Next]_vars => FoundedInv'
<1> SUFFICES ASSUME FoundedInv, [Next]_vars PROVE FoundedInv'
  OBVIOUS
<1>0. TypeOK /\ TypeOK'
  BY TypeNext DEF FoundedInv
<1>1. ASSUME NEW t \in Thread, NEW r, Return(t, r), file' = file,
             onDisk' \in {onDisk, {file}}
      PROVE  FoundedInv'
  BY <1>0, <1>1 DEF FoundedInv, Return, TypeOK
<1>2. ASSUME NEW t \in Thread, NEW m, NEW id \in ListId, NEW st,
             pc[t] = "idle", m \in {"CheckAndSave", "Save"} => Founded(id, st),
             Enter(t, m, id, st)
      PROVE  FoundedInv'
  BY <1>0, <1>2 DEF FoundedInv, Enter, TypeOK
<1>3. ASSUME NEW t \in Thread, NEW l \in Loads, LoadList(t, l.doc, l.now, l.pol)
      PROVE  FoundedInv'
  <2>1. CASE UNCHANGED <<file, onDisk, mu, pc, op, list, nxt, entries, told, accepted>>
    BY <1>0, <2>1 DEF FoundedInv
  <2>2. CASE /\ Admit(Ring, l.doc, l.now, l.pol) = "ok"
             /\ ReplayChecked(l.doc, l.pol)
             /\ Enter(t, "CheckAndSave", l.doc.listId, StateOf(l.doc))
    <3>1. l.doc.listId \in ListId /\ Founded(l.doc.listId, StateOf(l.doc))
      BY <2>2, CandidateType, CandidateFounded
    <3> QED BY <1>2, <1>3, <2>2, <3>1 DEF LoadList
  <2> QED BY <1>3, <2>1, <2>2 DEF LoadList
<1>4. ASSUME NEW t \in Thread, NEW s \in Saves, SaveRevocationState(t, s.id, s.st)
      PROVE  FoundedInv'
  <2>1. s.id \in ListId /\ s = [id |-> s.id, st |-> s.st]
    BY SavesAssumption
  <2>2. Founded(s.id, s.st)
    BY <2>1 DEF Founded
  <2> QED BY <1>2, <1>4, <2>1, <2>2 DEF SaveRevocationState
<1>5. ASSUME NEW t \in Thread, NEW id \in ListId, LoadRevocationState(t, id)
      PROVE  FoundedInv'
  BY <1>2, <1>5 DEF LoadRevocationState
<1>6. ASSUME NEW t \in Thread, Lock(t) PROVE FoundedInv'
  BY <1>0, <1>6 DEF FoundedInv, Lock, TypeOK
<1>7. ASSUME NEW t \in Thread,
             \/ LoadFails(t) \/ LoadReturns(t) \/ Rejected(t) \/ Repeated(t)
             \/ RenameFails(t) \/ SyncDir(t)
      PROVE  FoundedInv'
  <2>1. /\ \E r : Return(t, r)
        /\ file' = file /\ onDisk' \in {onDisk, {file}}
    BY <1>7 DEF LoadFails, LoadReturns, Rejected, Repeated, RenameFails, SyncDir,
                fsyncStateDir
  <2> QED BY <1>1, <2>1
<1>8. ASSUME NEW t \in Thread, Merge(t) PROVE FoundedInv'
  <2>1. /\ pc[t] = "load" /\ op[t] \in {"CheckAndSave", "Save"} /\ file # Corrupt
        /\ entries' = [entries EXCEPT ![t] = [file EXCEPT ![list[t]] = nxt[t]]]
        /\ pc' = [pc EXCEPT ![t] = "stage"]
        /\ UNCHANGED <<file, onDisk, op, list, nxt>>
    BY <1>8 DEF Merge, Goto
  <2>2. file \in Entries /\ list[t] \in ListId /\ Founded(list[t], nxt[t])
    BY <1>0, <2>1 DEF FoundedInv, TypeOK
  <2>3. \A id \in ListId : Founded(id, entries'[t][id])
    BY <1>0, <2>1, <2>2 DEF FoundedInv, TypeOK, Entries
  <2> QED BY <1>0, <2>1, <2>3 DEF FoundedInv, TypeOK
<1>9. ASSUME NEW t \in Thread, Stage(t) PROVE FoundedInv'
  <2>1. CASE Goto(t, "rename") /\ UNCHANGED entries
    BY <1>0, <1>9, <2>1 DEF FoundedInv, Stage, Goto, TypeOK
  <2>2. CASE Return(t, "revocation_state_integrity_failure")
    BY <1>1, <1>9, <2>2 DEF Stage
  <2> QED BY <1>9, <2>1, <2>2 DEF Stage
<1>10. ASSUME NEW t \in Thread, Rename(t) PROVE FoundedInv'
  BY <1>0, <1>10 DEF FoundedInv, Rename, RenameOver, Goto, TypeOK
<1>11. ASSUME Crash PROVE FoundedInv'
  BY <1>0, <1>11 DEF FoundedInv, Crash, PowerLoss
<1>12. ASSUME Damaged PROVE FoundedInv'
  <2>1. PICK c \in {Corrupt, None} : file' = c /\ onDisk' = {c}
    BY <1>12 DEF Damaged, ReplacedOutside
  <2>2. \A id \in ListId : Founded(id, None[id])
    BY DEF Founded, None
  <2> QED BY <1>0, <1>12, <2>1, <2>2 DEF FoundedInv, Damaged
<1>13. CASE UNCHANGED vars
  BY <1>0, <1>13 DEF FoundedInv, vars
<1> QED
  BY <1>3, <1>4, <1>5, <1>6, <1>7, <1>8, <1>9, <1>10, <1>11, <1>12, <1>13
  DEF Next, Step

(***************************************************************************)
(* Only a document of a live key, with the domain-separated v2 signature   *)
(* and a well formed body, or a direct save, ever moves a record, under    *)
(* any policy and with any interleaving, failure or power loss.            *)
(***************************************************************************)
THEOREM RecordsFounded == Spec => []RecordsAreWellFounded
<1>1. Init => FoundedInv
  <2> SUFFICES ASSUME Init PROVE FoundedInv
    OBVIOUS
  <2>1. \A id \in ListId : Founded(id, None[id])
    BY DEF Founded, None
  <2> QED BY <2>1, TypeInit DEF Init, FoundedInv
<1>2. FoundedInv => RecordsAreWellFounded
  BY DEF FoundedInv, RecordsAreWellFounded, Founded
<1> QED BY <1>1, <1>2, FoundedNext, PTL DEF Spec

-----------------------------------------------------------------------------
(***************************************************************************)
(* Every step of the file store is a step of the interface's contract or   *)
(* changes nothing that the contract speaks of.                            *)
(***************************************************************************)
LEMMA StepKeepsContract ==
  ASSUME SameMutex, ~Windows, IInv, [Next]_vars
  PROVE  [Contract!Next]_<<file, accepted>>
<1> USE DEF Contract!Next, Contract!CheckAndSave, Contract!Lose, Contract!Save,
            Contract!Damage, Contract!State, Contract!None,
            Contract!Covers, Contract!classifyRevocationTransition
<1>0. TypeOK /\ DiskInv
  BY DEF IInv
<1>1. ASSUME NEW t \in Thread, Rename(t) PROVE Contract!Next
  <2>1. /\ pc[t] = "rename" /\ file' = entries[t]
        /\ accepted' = IF op[t] = "Save" THEN [accepted EXCEPT ![list[t]] = Nil]
                                         ELSE accepted
    BY <1>1 DEF Rename, RenameOver
  <2>2. /\ op[t] \in {"CheckAndSave", "Save"}
        /\ list[t] \in ListId /\ nxt[t] \in State /\ file # Corrupt
        /\ entries[t] = [file EXCEPT ![list[t]] = nxt[t]]
        /\ op[t] = "CheckAndSave"
              => classifyRevocationTransition(file[list[t]], nxt[t]) = "write"
    BY <2>1 DEF IInv, OpInv, WriteInv
  <2>3. CASE op[t] = "Save"
    <3>1. Contract!Save(list[t], nxt[t])
      BY <2>1, <2>2, <2>3
    <3> QED BY <2>2, <3>1 DEF State
  <2>4. CASE op[t] = "CheckAndSave"
    <3>1. Contract!CheckAndSave(list[t], nxt[t])
      BY <2>1, <2>2, <2>4 DEF classifyRevocationTransition
    <3> QED BY <2>2, <3>1 DEF State
  <2> QED BY <2>2, <2>3, <2>4
<1>2. ASSUME NEW t \in Thread, SyncDir(t)
      PROVE  Contract!Next \/ UNCHANGED <<file, accepted>>
  <2>1. PICK ok \in BOOLEAN :
          /\ fsyncStateDir(ok)
          /\ IF ok /\ op[t] = "CheckAndSave"
             THEN /\ told' = [told EXCEPT ![list[t]] = nxt[t]]
                  /\ accepted' = [accepted EXCEPT ![list[t]] = nxt[t]]
             ELSE UNCHANGED <<told, accepted>>
    BY <1>2 DEF SyncDir
  <2>2. pc[t] = "syncdir" /\ file' = file
    BY <1>2, <2>1 DEF SyncDir, fsyncStateDir
  <2>3. CASE ok /\ op[t] = "CheckAndSave"
    <3>1. /\ file # Corrupt /\ file[list[t]] = nxt[t]
          /\ list[t] \in ListId /\ nxt[t] \in State
      BY <2>2, <2>3 DEF IInv, WriteInv, OpInv
    <3>2. file' = [file EXCEPT ![list[t]] = nxt[t]]
      BY <1>0, <2>2, <3>1 DEF TypeOK, Entries
    <3>3. classifyRevocationTransition(nxt[t], nxt[t]) = "idempotent"
      BY <3>1, FileStoreConstants DEF classifyRevocationTransition, State
    <3>4. Contract!CheckAndSave(list[t], nxt[t])
      BY <2>1, <2>3, <3>1, <3>2, <3>3 DEF classifyRevocationTransition
    <3> QED BY <3>1, <3>4 DEF State
  <2>4. CASE ~(ok /\ op[t] = "CheckAndSave")
    BY <2>1, <2>2, <2>4
  <2> QED BY <2>3, <2>4
<1>3. ASSUME NEW t \in Thread, Repeated(t) PROVE Contract!Next
  <2>1. /\ pc[t] = "load" /\ op[t] = "CheckAndSave"
        /\ file # Corrupt /\ file' = file
        /\ classifyRevocationTransition(file[list[t]], nxt[t]) = "idempotent"
        /\ accepted' \in {accepted, [accepted EXCEPT ![list[t]] = nxt[t]]}
    BY <1>3 DEF Repeated
  <2>2. list[t] \in ListId /\ nxt[t] \in State
    BY <2>1 DEF IInv, OpInv
  <2>3. file[list[t]] = nxt[t] /\ file \in Entries
    <3>1. file \in Entries
      BY <1>0, <2>1 DEF TypeOK
    <3>2. file[list[t]] \in State \cup {Nil}
      BY <2>2, <3>1 DEF Entries
    <3> QED BY <2>1, <2>2, <3>1, <3>2, RepeatIsSame
  <2>4. file' = [file EXCEPT ![list[t]] = nxt[t]]
    BY <2>1, <2>2, <2>3 DEF Entries
  <2>5. Contract!CheckAndSave(list[t], nxt[t])
    BY <2>1, <2>4 DEF classifyRevocationTransition
  <2> QED BY <2>2, <2>5 DEF State
<1>4. ASSUME Crash PROVE Contract!Next
  <2>1. file' \in onDisk /\ UNCHANGED accepted
    BY <1>4 DEF Crash, PowerLoss
  <2>2. Contract!Lose
    BY <1>0, <2>1 DEF DiskInv, AcceptedIsDurable, Covers, None
  <2> QED BY <2>2
<1>5. ASSUME Damaged PROVE Contract!Next
  <2>1. file' \in {Corrupt, None} /\ accepted' = None
    BY <1>5 DEF Damaged, ReplacedOutside
  <2>2. Contract!Damage
    BY <2>1 DEF None
  <2> QED BY <2>2
<1>6. ASSUME NEW t \in Thread,
             \/ LoadFails(t) \/ LoadReturns(t) \/ Rejected(t) \/ Merge(t)
             \/ Stage(t) \/ RenameFails(t) \/ Lock(t)
      PROVE  UNCHANGED <<file, accepted>>
  BY <1>6 DEF LoadFails, LoadReturns, Rejected, Merge, Stage, RenameFails, Lock
<1>7. ASSUME NEW t \in Thread,
             \/ \E l \in Loads : LoadList(t, l.doc, l.now, l.pol)
             \/ \E s \in Saves : SaveRevocationState(t, s.id, s.st)
             \/ \E id \in ListId : LoadRevocationState(t, id)
      PROVE  UNCHANGED <<file, accepted>>
  BY <1>7 DEF LoadList, SaveRevocationState, LoadRevocationState, Enter
<1>8. CASE UNCHANGED vars
  BY <1>8 DEF vars
<1> QED
  BY <1>1, <1>2, <1>3, <1>4, <1>5, <1>6, <1>7, <1>8 DEF Next, Step

(***************************************************************************)
(* The file store keeps the contract of the RevocationStateStore           *)
(* interface: threads, failing writes and power losses are invisible       *)
(* behind it.                                                              *)
(***************************************************************************)
THEOREM FileStoreKeepsContract ==
  ASSUME SameMutex, ~Windows
  PROVE  Spec => ContractKept
<1>1. Init => Contract!Init
  BY DEF Init, Contract!Init, None, Contract!None
<1>2. IInv /\ [Next]_vars => [Contract!Next]_<<file, accepted>>
  BY StepKeepsContract
<1> QED
  BY <1>1, <1>2, InvHolds, PTL
  DEF Spec, ContractKept, Contract!Spec, Contract!cvars

-----------------------------------------------------------------------------
(***************************************************************************)
(* A minted list passes every check that does not depend on the client.    *)
(***************************************************************************)
LEMMA MintedIsSound ==
  ASSUME NEW doc \in Minted, doc \in Docs
  PROVE  /\ doc.form \in {"ok", "too_large"}
         /\ doc.algorithm = TRUE /\ doc.encoding = TRUE
         /\ doc.signed \in {"legacy", "domain"} /\ doc.canonical = "ok"
         /\ doc.payloadKeyId = doc.keyId
         /\ doc.schema \in {1, RevocationSchemaVersion}
         /\ doc.schema # 1 =>
               doc.signed = "domain" /\ validateRevocationV2Static(doc) = "ok"
<1>1. PICK o \in Orders : doc = cmdRevokeList(o.order, o.at) /\ doc # Nil
  BY DEF Minted
<1> DEFINE ids == collectRevokedIDs(o.order)
           expiry == IF o.order.expiresAt # Nil THEN o.order.expiresAt
                     ELSE o.at + o.order.ttl
           opts == [listId |-> o.order.listId, seq |-> o.order.seq,
                    issuedAt |-> o.at, expiresAt |-> expiry, ids |-> ids]
<1>2. CASE doc = BuildRevocationList(o.order.keyId, ids, o.at)
  BY <1>2 DEF BuildRevocationList, Envelope
<1>3. CASE /\ doc = SignedV2(o.order.keyId, opts)
           /\ o.order.listId # Nil /\ o.order.seq > 0 /\ o.at # Nil
           /\ expiry > o.at
           /\ (o.order.expiresAt # Nil) # (o.order.ttl > 0)
  <2>1. /\ doc.form \in {"ok", "too_large"}
        /\ doc.algorithm = TRUE /\ doc.encoding = TRUE
        /\ doc.signed = "domain" /\ doc.canonical = "ok"
        /\ doc.payloadKeyId = doc.keyId /\ doc.schema = RevocationSchemaVersion
        /\ doc.listId = o.order.listId /\ doc.seq = o.order.seq
        /\ doc.issuedAt = o.at /\ doc.expiresAt = expiry
    BY <1>3 DEF SignedV2, Envelope
  <2>2. /\ doc.seq \in 0..MaxSeq /\ MaxSeq \in Nat
        /\ doc.issuedAt \in Int \cup {Nil} /\ doc.expiresAt \in Int \cup {Nil}
    BY LoadsAssumption, FileStoreConstants
  <2>3. doc.seq # 0
    BY <1>3, <2>1, <2>2
  <2>4. doc.expiresAt # Nil
    <3>1. CASE o.order.expiresAt # Nil
      BY <2>1, <3>1
    <3>2. CASE o.order.expiresAt = Nil
      <4>1. o.at \in Int /\ o.order.ttl \in Int
        BY <1>3, <2>1, <2>2, OrdersAssumption
      <4>2. expiry \in Int
        BY <3>2, <4>1
      <4> QED BY <2>1, <4>2, FileStoreConstants
    <3> QED BY <3>1, <3>2
  <2> HIDE DEF expiry
  <2> DEFINE ordered == doc.issuedAt # Nil /\ doc.expiresAt # Nil
                          => doc.expiresAt > doc.issuedAt
             codes == <<Gate(doc.schema = RevocationSchemaVersion, "malformed"),
                        Gate(doc.listId # Nil, "malformed"),
                        Gate(doc.seq # 0, "malformed"),
                        Gate(doc.issuedAt # Nil, "malformed"),
                        Gate(doc.expiresAt # Nil, "malformed"),
                        Gate(ordered, "malformed")>>
  <2>5. /\ doc.schema = RevocationSchemaVersion /\ doc.listId # Nil
        /\ doc.issuedAt # Nil /\ ordered
    BY <1>3, <2>1
  <2>6. \A i \in 1..6 : codes[i] = "ok"
    BY <2>3, <2>4, <2>5 DEF Gate
  <2>7. DOMAIN codes = 1..6
    OBVIOUS
  <2>8. FirstFailure(codes) = "ok"
    BY <2>6, <2>7, PassAll
  <2>9. validateRevocationV2Static(doc) = "ok"
    BY <2>8 DEF validateRevocationV2Static
  <2> QED BY <2>1, <2>9
<1>4. ids # <<>>
  BY <1>1 DEF cmdRevokeList
<1>5. CASE o.order.v1
  BY <1>1, <1>2, <1>4, <1>5 DEF cmdRevokeList
<1>6. CASE ~o.order.v1
  <2>1. doc = buildRevocationV2(o.order, ids, o.at)
    BY <1>1, <1>4, <1>6 DEF cmdRevokeList
  <2>2. /\ doc = BuildRevocationListV2(o.order.keyId, opts)
        /\ (o.order.expiresAt # Nil) # (o.order.ttl > 0)
    BY <1>1, <2>1 DEF buildRevocationV2
  <2>3. /\ doc = SignedV2(o.order.keyId, opts)
        /\ opts.listId # Nil /\ opts.seq > 0 /\ opts.issuedAt # Nil
        /\ opts.expiresAt > opts.issuedAt
    BY <1>1, <2>2 DEF BuildRevocationListV2
  <2> QED BY <1>3, <2>2, <2>3
<1> QED BY <1>5, <1>6

(***************************************************************************)
(* A client that may take a minted list finds nothing wrong with it.       *)
(***************************************************************************)
LEMMA DeliverableIsAdmitted ==
  ASSUME NEW l \in Deliverable
  PROVE  Admit(Ring, l.doc, l.now, l.pol) = "ok"
<1> DEFINE doc == l.doc
<1>1. /\ doc \in Minted /\ doc \in Docs
      /\ doc.withinCap /\ doc.form # "too_large"
      /\ Lookup(Ring, doc.keyId, l.now) = "ok"
      /\ IF doc.schema = 1 THEN l.pol.allowV1
         ELSE RequireFresh(l.pol) =>
                 checkRevocationFreshness(doc, l.now, l.pol) = "ok"
  BY DEF Deliverable, Docs
<1>2. /\ doc.form = "ok" /\ doc.algorithm = TRUE /\ doc.encoding = TRUE
      /\ doc.signed \in {"legacy", "domain"} /\ doc.canonical = "ok"
      /\ doc.payloadKeyId = doc.keyId
      /\ doc.schema \in {1, RevocationSchemaVersion}
      /\ doc.schema # 1 =>
            doc.signed = "domain" /\ validateRevocationV2Static(doc) = "ok"
  BY <1>1, MintedIsSound
<1> HIDE DEF doc
<1>3. ParseRevocationEnvelope(doc) = "ok"
  BY <1>2, PassAll DEF ParseRevocationEnvelope, Gate
<1>4. verifyRevocationSignature(doc) = "ok"
  <2> DEFINE codes == <<
             Gate(doc.signed # "bad", "signature_invalid"),
             Gate(doc.canonical # "undecodable", "malformed"),
             Gate(doc.canonical = "ok", "non_canonical_payload"),
             Gate(doc.schema \in {1, RevocationSchemaVersion}, "unsupported_schema"),
             Gate(doc.payloadKeyId = doc.keyId, "key_id_mismatch"),
             Gate(doc.withinCap, "file_too_large")>>
  <2>1. DOMAIN codes = 1..6
    OBVIOUS
  <2>2. \A i \in 1..6 : codes[i] = "ok"
    BY <1>1, <1>2 DEF Gate
  <2> QED BY <2>1, <2>2, PassAll DEF verifyRevocationSignature
<1>5. Authenticate(Ring, doc, l.now) = "ok"
  <2> DEFINE codes == <<
             ParseRevocationEnvelope(doc),
             Gate(doc.algorithm, "unsupported_algorithm"),
             Lookup(Ring, doc.keyId, l.now),
             Gate(doc.encoding, "malformed"),
             verifyRevocationSignature(doc)>>
  <2>1. DOMAIN codes = 1..5
    OBVIOUS
  <2>2. \A i \in 1..5 : codes[i] = "ok"
    BY <1>1, <1>2, <1>3, <1>4 DEF Gate
  <2> QED BY <2>1, <2>2, PassAll DEF Authenticate
<1>6. CASE doc.schema = 1
  BY <1>1, <1>5, <1>6 DEF Admit, AdmitV1, Gate, doc
<1>7. CASE doc.schema # 1
  <2> DEFINE codes == <<Gate(doc.signed = "domain", "signature_invalid"),
                        validateRevocationV2Static(doc)>>
  <2>1. DOMAIN codes = 1..2 /\ \A i \in 1..2 : codes[i] = "ok"
    BY <1>2, <1>7 DEF Gate
  <2>2. FirstFailure(codes) = "ok"
    BY <2>1, PassAll
  <2>3. AdmitV2(doc, l.now, l.pol) = "ok"
    BY <1>1, <1>7, <2>2 DEF AdmitV2
  <2> QED BY <1>5, <1>7, <2>3 DEF Admit, doc
<1> QED BY <1>6, <1>7

(***************************************************************************)
(* revoke.go: what the tool mints, no client refuses that may take it: the *)
(* issuer's rules are the client's, but for the two bounds that Deliverable*)
(* names, on the number of the ids and on the size of the file.            *)
(***************************************************************************)
THEOREM NothingUselessIsMinted == Spec => MintedIsAdmitted
<1>1. ASSUME NEW t \in Thread, NEW l \in Deliverable,
             LoadList(t, l.doc, l.now, l.pol)
      PROVE  answer' \in {"ok", "none"}
  BY <1>1, DeliverableIsAdmitted DEF LoadList, Enter
<1>2. answer' \notin {"ok", "none"}
         => \A t \in Thread, l \in Deliverable : ~LoadList(t, l.doc, l.now, l.pol)
  BY <1>1
<1> QED BY <1>2, PTL DEF MintedIsAdmitted
=============================================================================
