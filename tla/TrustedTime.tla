---------------------------- MODULE TrustedTime -----------------------------
(***************************************************************************)
(* What the anti-rollback store promises its callers, without threads,     *)
(* locks or disks: a mark that only moves forward, and a floor that is the *)
(* latest instant some caller was told had been accepted.  An instant      *)
(* behind the floor by more than the skew is never accepted, and a power   *)
(* loss may undo only what nobody was told about.                          *)
(***************************************************************************)
EXTENDS Integers

CONSTANTS Instant,    \* the instants a clock may show, a set of naturals
          Skew, NoState, Corrupt

VARIABLES mark,     \* what the state file says: an instant, NoState or Corrupt
          floor     \* the latest accepted instant; -1 when none is promised

tvars == <<mark, floor>>

IsMark(m) == m \notin {NoState, Corrupt}

Later(a, b) == IF a >= b THEN a ELSE b

Init ==
    /\ mark = NoState
    /\ floor = -1

(***************************************************************************)
(* A caller's instant reaches the file; the caller has no answer yet.      *)
(***************************************************************************)
Advance ==
    /\ mark # Corrupt
    /\ mark' \in Instant
    /\ IsMark(mark) => mark' >= mark
    /\ UNCHANGED floor

(***************************************************************************)
(* A caller is told that the instant `now' is accepted.                    *)
(***************************************************************************)
Accept(now) ==
    /\ IsMark(mark)
    /\ now <= mark
    /\ now + Skew >= floor
    /\ floor' = Later(floor, now)
    /\ UNCHANGED mark

(***************************************************************************)
(* A power loss takes back unanswered advances, never below the floor.     *)
(***************************************************************************)
Lose ==
    /\ mark' \in Instant
    /\ mark' >= floor
    /\ UNCHANGED floor

LoseAll ==
    /\ floor = -1
    /\ mark' \in {NoState, Corrupt}
    /\ UNCHANGED floor

(***************************************************************************)
(* The file is overridden by someone else, or by the unchecked Save: the   *)
(* promise starts again.                                                   *)
(***************************************************************************)
Override ==
    /\ floor' = -1
    /\ mark' \in Instant \cup {NoState, Corrupt}

Next ==
    \/ Advance
    \/ \E now \in Instant : Accept(now)
    \/ Lose
    \/ LoseAll
    \/ Override

Spec == Init /\ [][Next]_tvars
=============================================================================
