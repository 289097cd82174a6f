----------------------- MODULE ExclusiveWriterProofs ------------------------
(***************************************************************************)
(* Proofs about ExclusiveWriter for any number of stores, of goroutines    *)
(* that close them, and of spellings of paths.                             *)
(***************************************************************************)
EXTENDS ExclusiveWriter, TLAPS

Key == {CleanAbs[p] : p \in Path}

TypeInv ==
    /\ revStateExclusive \in SUBSET Key
    /\ path \in [Store -> Path \cup {NoPath}]
    /\ exclusiveKey \in [Store -> Key \cup {NoKey}]
    /\ closed \in [Store -> BOOLEAN]
    /\ closing \in [Closer -> Store \cup {NoStore}]

(***************************************************************************)
(* A store has the reservation: it is in use, or inside its one Close that *)
(* goes on to the registry.                                                *)
(***************************************************************************)
Reserves(s) == HoldsPath(s) \/ \E c \in Closer : closing[c] = s

(***************************************************************************)
(* The key of a store is that of its path, and only closed exclusive       *)
(* stores are on their way through Close, each once.                       *)
(***************************************************************************)
StoreInv ==
    /\ \A s \in Store :
          exclusiveKey[s] # NoKey =>
              path[s] # NoPath /\ exclusiveKey[s] = CleanAbs[path[s]]
    /\ \A s \in Store : path[s] = NoPath => ~closed[s]
    /\ \A c \in Closer :
          closing[c] # NoStore =>
              closed[closing[c]] /\ exclusiveKey[closing[c]] # NoKey
    /\ \A c, d \in Closer :
          closing[c] # NoStore /\ closing[c] = closing[d] => c = d

(***************************************************************************)
(* The registry holds the keys of the stores that have a reservation, and  *)
(* no two of them have the same.                                           *)
(***************************************************************************)
RegistryInv ==
    /\ \A k \in Key :
          k \in revStateExclusive
             <=> \E s \in Store : Reserves(s) /\ exclusiveKey[s] = k
    /\ \A s1, s2 \in Store :
          Reserves(s1) /\ Reserves(s2) /\ exclusiveKey[s1] = exclusiveKey[s2]
             => s1 = s2

XInv == TypeInv /\ StoreInv /\ RegistryInv

(***************************************************************************)
(* It holds at the start.                                                  *)
(***************************************************************************)
LEMMA XInit == Init => XInv
BY ExclusiveConstants
DEF Init, XInv, TypeInv, StoreInv, RegistryInv, Reserves, HoldsPath, Key

(***************************************************************************)
(* Every step keeps the types.                                             *)
(***************************************************************************)
LEMMA XType == TypeInv /\ [Next]_xvars => TypeInv'
<1> SUFFICES ASSUME TypeInv, [Next]_xvars PROVE TypeInv'
  OBVIOUS
<1>1. ASSUME NEW s \in Store, NEW p \in Path, NewExclusive(s, p) PROVE TypeInv'
  BY <1>1 DEF TypeInv, NewExclusive, normalizeStatePath, Key
<1>2. ASSUME NEW s \in Store, NEW p \in Path, New(s, p) PROVE TypeInv'
  BY <1>2 DEF TypeInv, New
<1>3. ASSUME NEW c \in Closer, NEW s \in Store, Close(c, s) PROVE TypeInv'
  BY <1>3 DEF TypeInv, Close
<1>4. ASSUME NEW c \in Closer, Release(c) PROVE TypeInv'
  BY <1>4 DEF TypeInv, Release
<1>5. CASE UNCHANGED xvars
  BY <1>5 DEF TypeInv, xvars
<1> QED BY <1>1, <1>2, <1>3, <1>4, <1>5 DEF Next

(***************************************************************************)
(* Every step keeps the invariant: a reservation begins with the store     *)
(* that makes it, and ends with the one Close that may end it.             *)
(***************************************************************************)
LEMMA XNext == XInv /\ [Next]_xvars => XInv'
<1> SUFFICES ASSUME XInv, [Next]_xvars PROVE XInv'
  OBVIOUS
<1>0. TypeInv /\ TypeInv' /\ StoreInv /\ RegistryInv
  BY XType DEF XInv
<1>1. ASSUME NEW s \in Store, NEW p \in Path, NewExclusive(s, p) PROVE XInv'
  <2>1. /\ path[s] = NoPath /\ CleanAbs[p] \notin revStateExclusive
        /\ revStateExclusive' = revStateExclusive \cup {CleanAbs[p]}
        /\ path' = [path EXCEPT ![s] = p]
        /\ exclusiveKey' = [exclusiveKey EXCEPT ![s] = CleanAbs[p]]
        /\ closed' = closed /\ closing' = closing
    BY <1>1 DEF NewExclusive, normalizeStatePath
  <2>2. CleanAbs[p] \in Key /\ CleanAbs[p] # NoKey /\ p # NoPath
    BY ExclusiveConstants DEF Key
  <2>3. ~Reserves(s) /\ ~closed[s] /\ exclusiveKey[s] = NoKey
    BY <1>0, <2>1, ExclusiveConstants DEF StoreInv, Reserves, HoldsPath
  <2>4. StoreInv'
    BY <1>0, <2>1, <2>2, <2>3 DEF StoreInv, TypeInv
  <2>5. \A x \in Store : Reserves(x)' <=> x = s \/ Reserves(x)
    BY <1>0, <2>1, <2>2, <2>3 DEF Reserves, HoldsPath, TypeInv
  <2>6. \A x \in Store : exclusiveKey'[x] = IF x = s THEN CleanAbs[p] ELSE exclusiveKey[x]
    BY <1>0, <2>1 DEF TypeInv
  <2>7. \A x \in Store : Reserves(x) => exclusiveKey[x] # CleanAbs[p]
    BY <1>0, <2>1, <2>2 DEF RegistryInv
  <2>8. RegistryInv'
    BY <1>0, <2>1, <2>2, <2>3, <2>5, <2>6, <2>7 DEF RegistryInv
  <2> QED BY <1>0, <2>4, <2>8 DEF XInv
<1>2. ASSUME NEW s \in Store, NEW p \in Path, New(s, p) PROVE XInv'
  <2>1. \A x \in Store : Reserves(x)' <=> Reserves(x)
    BY <1>2 DEF New, Reserves, HoldsPath
  <2>2. RegistryInv'
    BY <1>0, <1>2, <2>1 DEF New, RegistryInv
  <2>3. StoreInv'
    BY <1>0, <1>2, ExclusiveConstants DEF New, StoreInv, TypeInv
  <2> QED BY <1>0, <2>2, <2>3 DEF XInv
<1>3. ASSUME NEW c \in Closer, NEW s \in Store, Close(c, s) PROVE XInv'
  <2>1. /\ path[s] # NoPath /\ closing[c] = NoStore
        /\ \A d \in Closer : closing[d] # s
        /\ closed' = [closed EXCEPT ![s] = TRUE]
        /\ closing' = [closing EXCEPT ![c] =
              IF closed[s] \/ exclusiveKey[s] = NoKey THEN NoStore ELSE s]
        /\ UNCHANGED <<revStateExclusive, path, exclusiveKey>>
    BY <1>3 DEF Close
  <2>2. StoreInv'
    BY <1>0, <2>1, ExclusiveConstants DEF StoreInv, TypeInv
  <2>3. \A x \in Store : Reserves(x)' <=> Reserves(x)
    BY <1>0, <2>1, ExclusiveConstants DEF Reserves, HoldsPath, TypeInv
  <2>4. RegistryInv'
    BY <1>0, <2>1, <2>3 DEF RegistryInv
  <2> QED BY <1>0, <2>2, <2>4 DEF XInv
<1>4. ASSUME NEW c \in Closer, Release(c) PROVE XInv'
  <2> DEFINE s == closing[c]
  <2>1. /\ s # NoStore
        /\ revStateExclusive' = revStateExclusive \ {exclusiveKey[s]}
        /\ closing' = [closing EXCEPT ![c] = NoStore]
        /\ UNCHANGED <<path, exclusiveKey, closed>>
    BY <1>4 DEF Release
  <2>2. s \in Store /\ closed[s] /\ exclusiveKey[s] # NoKey /\ Reserves(s)
    BY <1>0, <2>1 DEF StoreInv, TypeInv, Reserves
  <2>3. StoreInv'
    BY <1>0, <2>1 DEF StoreInv, TypeInv
  <2>4. \A x \in Store : Reserves(x)' <=> Reserves(x) /\ x # s
    BY <1>0, <2>1, <2>2, ExclusiveConstants DEF Reserves, HoldsPath, TypeInv, StoreInv
  <2>5. RegistryInv'
    BY <1>0, <2>1, <2>2, <2>4 DEF RegistryInv
  <2> QED BY <1>0, <2>3, <2>5 DEF XInv
<1>5. CASE UNCHANGED xvars
  BY <1>0, <1>5 DEF XInv, StoreInv, RegistryInv, Reserves, HoldsPath, xvars
<1> QED BY <1>1, <1>2, <1>3, <1>4, <1>5 DEF Next

-----------------------------------------------------------------------------
(***************************************************************************)
(* Of the stores in use at most one per file is exclusive.                 *)
(***************************************************************************)
THEOREM ExclusiveIsAlone == Spec => []OneExclusiveWriter
<1>1. XInv => OneExclusiveWriter
  BY DEF XInv, StoreInv, RegistryInv, Reserves, HoldsPath, OneExclusiveWriter
<1> QED BY <1>1, XInit, XNext, PTL DEF Spec

(***************************************************************************)
(* A path is reserved exactly while its store is in use or on its way      *)
(* through Close: reservations neither leak nor end early.                 *)
(***************************************************************************)
THEOREM ReservationLivesWithStore == Spec => []ReservedWhileHeld
<1>1. ASSUME XInv PROVE ReservedWhileHeld
  <2> DEFINE holders == {x \in Store : HoldsPath(x) \/ \E c \in Closer : closing[c] = x}
  <2>1. ASSUME NEW s \in holders PROVE exclusiveKey[s] \in Key
    <3>1. exclusiveKey[s] \in Key \cup {NoKey}
      BY <1>1 DEF XInv, StoreInv, TypeInv
    <3>2. CASE HoldsPath(s)
      BY <3>1, <3>2 DEF HoldsPath
    <3>3. CASE \E c \in Closer : closing[c] = s
      <4>1. s # NoStore
        BY ExclusiveConstants
      <4> QED BY <1>1, <3>1, <3>3, <4>1 DEF XInv, StoreInv, TypeInv
    <3> QED BY <3>2, <3>3
  <2>2. \A k \in revStateExclusive : \E s \in holders : exclusiveKey[s] = k
    BY <1>1 DEF XInv, TypeInv, RegistryInv, Reserves
  <2>3. \A s \in holders : exclusiveKey[s] \in revStateExclusive
    BY <1>1, <2>1 DEF XInv, RegistryInv, Reserves
  <2> QED BY <1>1, <2>2, <2>3 DEF XInv, TypeInv, ReservedWhileHeld
<1> QED BY <1>1, XInit, XNext, PTL DEF Spec
=============================================================================
