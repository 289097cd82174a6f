------------------------ MODULE RevocationStateStore ------------------------
(***************************************************************************)
(* The contract of the RevocationStateStore interface (revocation.go), to  *)
(* which the shipped stores are held: per list a record of the highest     *)
(* sequence and its digest.  `accepted' is what callers were told.         *)
(***************************************************************************)
EXTENDS RevocationList

CONSTANTS ListId, Digest, MaxSeq, Corrupt

VARIABLES marks,      \* the stored records, or Corrupt
          accepted    \* accepted[id]: the last record accepted for id, or Nil

cvars == <<marks, accepted>>

State == [seq : 1..MaxSeq, digest : Digest]

None == [id \in ListId |-> Nil]

Init == marks = None /\ accepted = None

(***************************************************************************)
(* The candidate advances the record or repeats it.  The caller may not    *)
(* have its answer yet, or may get an error for a write that happened.     *)
(***************************************************************************)
CheckAndSave(id, nxt) ==
    /\ marks # Corrupt
    /\ classifyRevocationTransition(marks[id], nxt) \in {"write", "idempotent"}
    /\ marks' = [marks EXCEPT ![id] = nxt]
    /\ accepted' \in {accepted, [accepted EXCEPT ![id] = nxt]}

(***************************************************************************)
(* Records come and go with a power loss, except accepted ones.            *)
(***************************************************************************)
Lose ==
    /\ IF marks' = Corrupt THEN accepted = None
       ELSE \A id \in ListId : Covers(marks'[id], accepted[id])
    /\ UNCHANGED accepted

(***************************************************************************)
(* SaveRevocationState is unchecked: the caller takes responsibility.      *)
(***************************************************************************)
Save(id, st) ==
    /\ marks # Corrupt
    /\ marks' = [marks EXCEPT ![id] = st]
    /\ accepted' = [accepted EXCEPT ![id] = Nil]

(***************************************************************************)
(* Someone else damages or deletes the storage.                            *)
(***************************************************************************)
Damage ==
    /\ marks' \in {Corrupt, None}
    /\ accepted' = None

Next ==
    \/ \E id \in ListId, st \in State : CheckAndSave(id, st) \/ Save(id, st)
    \/ Lose
    \/ Damage

Spec == Init /\ [][Next]_cvars
=============================================================================
