-------------------------- MODULE ExclusiveWriter ---------------------------
(***************************************************************************)
(* The in-process guardrail of pkg/license/revocation_state.go: stores     *)
(* built with NewFileRevocationStateStoreExclusive reserve their path      *)
(* until they are closed.  A store may be closed by several goroutines at  *)
(* once, and any number of times.                                          *)
(***************************************************************************)

CONSTANTS
    Store,        \* the stores that may be built
    Path,         \* spellings of paths
    CleanAbs,     \* CleanAbs[p]: p, made absolute and cleaned
    Closer,       \* goroutines that call Close
    NoStore, NoPath, NoKey

VARIABLES
    revStateExclusive,   \* the reserved paths
    path,         \* path[s]: the path s was built for, NoPath while it is not
    exclusiveKey, \* exclusiveKey[s]
    closed,       \* closed[s]
    closing       \* closing[c]: the store whose closeMu c holds, or NoStore

xvars == <<revStateExclusive, path, exclusiveKey, closed, closing>>

ASSUME ExclusiveConstants ==
    /\ NoPath \notin Path
    /\ NoStore \notin Store
    /\ NoKey \notin {CleanAbs[p] : p \in Path}

normalizeStatePath(p) == CleanAbs[p]

Init ==
    /\ revStateExclusive = {}
    /\ path = [s \in Store |-> NoPath]
    /\ exclusiveKey = [s \in Store |-> NoKey]
    /\ closed = [s \in Store |-> FALSE]
    /\ closing = [c \in Closer |-> NoStore]

(***************************************************************************)
(* Look-up and reservation are one critical section; a refused store is    *)
(* not returned to anyone.                                                 *)
(***************************************************************************)
NewExclusive(s, p) ==
    /\ path[s] = NoPath
    /\ normalizeStatePath(p) \notin revStateExclusive
    /\ revStateExclusive' = revStateExclusive \cup {normalizeStatePath(p)}
    /\ path' = [path EXCEPT ![s] = p]
    /\ exclusiveKey' = [exclusiveKey EXCEPT ![s] = normalizeStatePath(p)]
    /\ UNCHANGED <<closed, closing>>

(***************************************************************************)
(* Without the guardrail, also next to an exclusive store.                 *)
(***************************************************************************)
New(s, p) ==
    /\ path[s] = NoPath
    /\ path' = [path EXCEPT ![s] = p]
    /\ UNCHANGED <<revStateExclusive, exclusiveKey, closed, closing>>

\* Mutation of Close: the closed flag is not looked at.
CloseAgain(c, s) ==
    /\ path[s] # NoPath
    /\ closing[c] = NoStore
    /\ \A d \in Closer : closing[d] # s
    /\ closed' = [closed EXCEPT ![s] = TRUE]
    /\ closing' = [closing EXCEPT ![c] = IF exclusiveKey[s] = NoKey THEN NoStore
                                                                    ELSE s]
    /\ UNCHANGED <<revStateExclusive, path, exclusiveKey>>

(***************************************************************************)
(* Close takes closeMu; it goes on to the registry at most once, and only  *)
(* for a store that holds a reservation.                                   *)
(***************************************************************************)
Close(c, s) ==
    /\ path[s] # NoPath
    /\ closing[c] = NoStore
    /\ \A d \in Closer : closing[d] # s
    /\ closed' = [closed EXCEPT ![s] = TRUE]
    /\ closing' = [closing EXCEPT ![c] =
          IF closed[s] \/ exclusiveKey[s] = NoKey THEN NoStore ELSE s]
    /\ UNCHANGED <<revStateExclusive, path, exclusiveKey>>

\* Mutation of Release: the reservation is left behind.
KeepReservation(c) ==
    /\ closing[c] # NoStore
    /\ closing' = [closing EXCEPT ![c] = NoStore]
    /\ UNCHANGED <<revStateExclusive, path, exclusiveKey, closed>>

Release(c) ==
    /\ closing[c] # NoStore
    /\ revStateExclusive' = revStateExclusive \ {exclusiveKey[closing[c]]}
    /\ closing' = [closing EXCEPT ![c] = NoStore]
    /\ UNCHANGED <<path, exclusiveKey, closed>>

Next ==
    \/ \E s \in Store, p \in Path : NewExclusive(s, p) \/ New(s, p)
    \/ \E c \in Closer, s \in Store : Close(c, s)
    \/ \E c \in Closer : Release(c)

Spec == Init /\ [][Next]_xvars

-----------------------------------------------------------------------------
HoldsPath(s) == exclusiveKey[s] # NoKey /\ ~closed[s]

(***************************************************************************)
(* "construction fails closed if another exclusive store is already        *)
(* registered for the same path": of the stores in use at most one per     *)
(* file is exclusive, however often and by whomever the earlier ones were  *)
(* closed.                                                                 *)
(***************************************************************************)
OneExclusiveWriter ==
    \A s1, s2 \in Store :
        HoldsPath(s1) /\ HoldsPath(s2) /\ CleanAbs[path[s1]] = CleanAbs[path[s2]]
            => s1 = s2

(***************************************************************************)
(* A reservation never outlives its store ("so the path may be             *)
(* reconstructed") and never ends before it: a path is reserved exactly    *)
(* while its store is in use or on its way through Close.                  *)
(***************************************************************************)
ReservedWhileHeld ==
    revStateExclusive =
        {exclusiveKey[s] : s \in {x \in Store :
            HoldsPath(x) \/ \E c \in Closer : closing[c] = x}}
=============================================================================
