--------------------------- MODULE CheckRollback ----------------------------
(***************************************************************************)
(* CheckRollback of pkg/license/rollback.go and the mark that follows from *)
(* it: pure, shared by the store and by what composes it.                  *)
(***************************************************************************)
EXTENDS Integers

CONSTANTS
    Skew,         \* RollbackStore.skew
    NoState       \* the state file does not exist

Later(a, b) == IF a >= b THEN a ELSE b

\* Mutation of RolledBack: without the skew.
RolledBackAtOnce(prev, now) == prev # NoState /\ now < prev

\* Mutation of RolledBack: the skew counted twice.
RolledBackLate(prev, now) == prev # NoState /\ now + 2 * Skew < prev

(***************************************************************************)
(* `prev' is a time or NoState.                                            *)
(***************************************************************************)
RolledBack(prev, now) == prev # NoState /\ now + Skew < prev

\* Mutation of NextTrustedTime: a missing state taken for the later one.
NextUnlessMissing(prev, now) == IF prev = NoState THEN prev ELSE Later(prev, now)

\* Mutation of NextTrustedTime: the skew added to the mark.
NextAhead(prev, now) == IF prev = NoState THEN now ELSE Later(prev, now) + Skew

NextTrustedTime(prev, now) == IF prev = NoState THEN now ELSE Later(prev, now)
=============================================================================
