--------------------------- MODULE ManagerProofs ----------------------------
(***************************************************************************)
(* Proofs about the Manager for any number of goroutines, documents,       *)
(* contexts and keys, and any range of instants.                           *)
(***************************************************************************)
EXTENDS Manager, DecisionProofs

Validations == {"Validate", "LoadAndValidate"}

Steps == {"idle", "clear", "stat", "read", "clock", "decide",
          "trust", "store", "snapshot", "fresh", "invalidate"}

(***************************************************************************)
(* Which call is at which step, and what it has got by then.               *)
(***************************************************************************)
CallInv(t) ==
    /\ pc[t] \in {"clear", "stat", "read", "clock", "trust", "store"} =>
          op[t] \in Validations
    /\ pc[t] = "decide" => op[t] \in Validations \cup {"Inspect"}
    /\ pc[t] \in {"snapshot", "fresh"} => op[t] = "CachedResult"
    /\ pc[t] = "invalidate" => op[t] = "InvalidateCache"
    /\ pc[t] \in {"clear", "clock", "decide", "trust", "store"} =>
          doc[t] \in Documents
    /\ pc[t] # "idle" /\ op[t] \in Validations => ctx[t] \in Contexts
    /\ pc[t] \in {"decide", "trust", "store"} /\ op[t] \in Validations =>
          now[t] \in Time
    /\ pc[t] \in {"trust", "store"} =>
          /\ result[t] \in Results
          /\ result[t].payload = doc[t].payload
          /\ result[t].under = Effective(ctx[t])
          /\ result[t].checkedAt = now[t]
    /\ pc[t] = "fresh" => result[t] \in Results

ScopeInv == scope \in DOMAIN Scopes

CallsInv == \A t \in Thread : CallInv(t)

TypeInv == ScopeInv /\ TypeOK /\ CallsInv

(***************************************************************************)
(* It holds at the start.                                                  *)
(***************************************************************************)
LEMMA TypeInit == Init => TypeInv
BY DEF Init, TypeInv, ScopeInv, TypeOK, CallsInv, CallInv

(***************************************************************************)
(* The scope is the same after a step.                                     *)
(***************************************************************************)
LEMMA SameScope ==
  ASSUME scope' = scope
  PROVE  /\ Thread' = Thread /\ Docs' = Docs /\ Files' = Files
         /\ Contexts' = Contexts /\ Time' = Time /\ Documents' = Documents
         /\ Results' = Results
BY DEF Thread, Docs, Files, Contexts, Time, Documents, Results

(***************************************************************************)
(* A validation approves only what is authentic, and by the policy.        *)
(***************************************************************************)
LEMMA ApprovedMeans ==
  ASSUME NEW d, NEW c, NEW at, Usable(Decide(d, c, at))
  PROVE  /\ d.signed /\ d.keyId \notin RevokedKeys
         /\ Decide(d, c, at) = validate(d.payload, at, Effective(c))
<1>1. ~Usable(ProductScope(c))
  BY GateFails DEF ProductScope
<1>2. ~Usable(Authenticate(d))
  BY ParseFails, VerifyFails DEF Authenticate
<1>3. ProductScope(c) = "ok" /\ Authenticate(d) = "ok"
  BY <1>1, <1>2 DEF Decide
<1>4. Verify(ring, d) = "ok"
  BY <1>3 DEF Authenticate
<1> QED BY <1>3, <1>4, VerifiedMeans DEF Decide, RevokedKeys

(***************************************************************************)
(* An unreadable license file is no usable license.                        *)
(***************************************************************************)
LEMMA FileErrorFails == ASSUME NEW f PROVE ~Usable(FileError(f))
BY DEF FileError, Usable

-----------------------------------------------------------------------------
(***************************************************************************)
(* A step of one goroutine leaves the calls of the others alone.           *)
(***************************************************************************)
LEMMA OthersKeep ==
  ASSUME TypeInv, scope' = scope, NEW t \in Thread,
         \A u \in Thread \ {t} :
            /\ pc'[u] = pc[u] /\ op'[u] = op[u] /\ doc'[u] = doc[u]
            /\ ctx'[u] = ctx[u] /\ now'[u] = now[u] /\ result'[u] = result[u],
         CallInv(t)'
  PROVE  CallsInv'
<1> SUFFICES ASSUME NEW u \in Thread \ {t} PROVE CallInv(u)'
  BY SameScope DEF CallsInv
<1> QED BY SameScope DEF TypeInv, CallsInv, CallInv

(***************************************************************************)
(* A call that returns has nothing left of it.                             *)
(***************************************************************************)
LEMMA ReturnTyped ==
  ASSUME TypeInv, scope' = scope, NEW t \in Thread, NEW r, Return(t, r),
         cached' \in Results \cup {Nil}, clock' \in Time, wentBack' \in BOOLEAN,
         mark' \in Time \cup {NoState, Corrupt}, licenseFile' \in Files
  PROVE  TypeInv'
<1>1. TypeOK'
  BY SameScope DEF TypeInv, TypeOK, Return
<1>2. CallsInv'
  <2>1. pc'[t] = "idle"
    BY DEF Return, TypeInv, TypeOK
  <2>2. CallInv(t)'
    BY <2>1 DEF CallInv
  <2> QED BY <2>2, OthersKeep DEF Return, TypeInv, TypeOK
<1> QED BY <1>1, <1>2 DEF TypeInv, ScopeInv

(***************************************************************************)
(* What a decision that approves makes of a document.                      *)
(***************************************************************************)
LEMMA ApproveTyped ==
  ASSUME TypeInv, scope' = scope, NEW t \in Thread, Approve(t)
  PROVE  TypeInv'
<1> DEFINE decision == Decide(doc[t], ctx[t], now[t])
           r == [payload |-> doc[t].payload, under |-> Effective(ctx[t]),
                 status |-> decision, checkedAt |-> now[t]]
<1>1. /\ pc[t] = "decide" /\ op[t] \in Validations
      /\ doc[t] \in Documents /\ ctx[t] \in Contexts /\ now[t] \in Time
  BY DEF Approve, TypeInv, CallsInv, CallInv
<1>2. /\ result' = [result EXCEPT ![t] = r]
      /\ pc' = [pc EXCEPT ![t] = AfterDecision(doc[t].payload)]
      /\ UNCHANGED <<op, cached, doc, ctx, now, world>>
  BY DEF Approve, Goto
<1>3. r \in Results
  BY <1>1 DEF Approve, Usable, Results
<1>4. AfterDecision(doc[t].payload) \in {"trust", "store"}
  BY DEF AfterDecision
<1>5. TypeOK'
  BY <1>2, <1>3, <1>4, SameScope DEF TypeInv, TypeOK, world
<1>6. CallInv(t)'
  <2>1. pc'[t] \in {"trust", "store"} /\ result'[t] = r /\ op'[t] = op[t]
    BY <1>2, <1>4 DEF TypeInv, TypeOK
  <2> QED BY <1>1, <1>2, <1>3, <2>1, SameScope DEF CallInv
<1> QED BY <1>2, <1>5, <1>6, OthersKeep DEF TypeInv, TypeOK, ScopeInv

(***************************************************************************)
(* Where a call begins.                                                    *)
(***************************************************************************)
LEMMA FirstSteps ==
  /\ FirstStep("Validate") = "clear" /\ FirstStep("LoadAndValidate") = "stat"
  /\ FirstStep("Inspect") = "decide" /\ FirstStep("CachedResult") = "snapshot"
  /\ FirstStep("InvalidateCache") = "invalidate"
BY DEF FirstStep

(***************************************************************************)
(* Beginning a call keeps the types.                                       *)
(***************************************************************************)
LEMMA CallTyped ==
  ASSUME TypeInv, scope' = scope, NEW t \in Thread, NEW m \in Operations,
         NEW d \in Docs \cup {Nil}, NEW c \in Contexts \cup {Nil},
         Call(t, m, d, c)
  PROVE  TypeInv'
<1>1. /\ pc' = [pc EXCEPT ![t] = FirstStep(m)]
      /\ op' = [op EXCEPT ![t] = m]
      /\ doc' = [doc EXCEPT ![t] = d]
      /\ ctx' = [ctx EXCEPT ![t] = c]
      /\ UNCHANGED <<cached, now, result, world>>
      /\ d = Nil <=> m \notin {"Validate", "Inspect"}
      /\ c = Nil <=> m \notin Validations
  BY DEF Call, Validations
<1>2. m \in {"Validate", "LoadAndValidate", "Inspect", "CachedResult",
             "InvalidateCache"}
  BY DEF Operations
<1>3. TypeOK'
  BY <1>1, <1>2, FirstSteps, SameScope DEF TypeInv, TypeOK, world, Documents
<1>4. CallInv(t)'
  <2>1. /\ pc'[t] = FirstStep(m) /\ op'[t] = m /\ doc'[t] = d /\ ctx'[t] = c
        /\ now'[t] = now[t]
    BY <1>1 DEF TypeInv, TypeOK
  <2> QED BY <1>1, <1>2, <2>1, FirstSteps, SameScope
          DEF CallInv, Validations, Documents
<1> QED BY <1>1, <1>3, <1>4, OthersKeep DEF TypeInv, TypeOK, ScopeInv

(***************************************************************************)
(* Every step keeps the types.                                             *)
(***************************************************************************)
LEMMA TypeNext == TypeInv /\ [Next]_mvars => TypeInv'
<1> SUFFICES ASSUME TypeInv, [Next]_mvars PROVE TypeInv'
  OBVIOUS
<1>1. CASE UNCHANGED mvars
  BY <1>1, SameScope DEF mvars, calls, world, TypeInv, ScopeInv, TypeOK,
                         CallsInv, CallInv
<1>2. ASSUME scope' = scope, Environment PROVE TypeInv'
  <2>1. UNCHANGED <<cached, calls>>
    BY <1>2 DEF Environment
  <2>2. /\ clock' \in Time /\ wentBack' \in BOOLEAN
        /\ mark' \in Time \cup {NoState, Corrupt} /\ licenseFile' \in Files
    BY <1>2 DEF Environment, MoveClock, RevokeKey, ReplaceLicense, DamageState,
                TypeInv, TypeOK
  <2> QED BY <1>2, <2>1, <2>2, SameScope
          DEF calls, TypeInv, ScopeInv, TypeOK, CallsInv, CallInv
<1>3. ASSUME scope' = scope, NEW t \in Thread, Step(t) PROVE TypeInv'
  <2>1. ASSUME StatFails(t) PROVE TypeInv'
    BY <1>3, <2>1, ReturnTyped DEF StatFails, world, TypeInv, TypeOK
  <2>2. ASSUME ReadFails(t) PROVE TypeInv'
    BY <1>3, <2>2, ReturnTyped DEF ReadFails, world, TypeInv, TypeOK
  <2>3. ASSUME StatPasses(t) PROVE TypeInv'
    <3>1. TypeOK'
      BY <1>3, <2>3, SameScope DEF StatPasses, Goto, world, TypeInv, TypeOK
    <3>2. CallInv(t)'
      BY <1>3, <2>3, SameScope DEF StatPasses, Goto, TypeInv, TypeOK, CallsInv, CallInv
    <3> QED BY <1>3, <2>3, <3>1, <3>2, OthersKeep
            DEF StatPasses, Goto, TypeInv, TypeOK, ScopeInv
  <2>4. ASSUME ReadPasses(t) PROVE TypeInv'
    <3>1. licenseFile \in Documents
      BY <2>4 DEF ReadPasses, Documents, TypeInv, TypeOK
    <3>2. TypeOK'
      BY <1>3, <2>4, <3>1, SameScope DEF ReadPasses, Goto, world, TypeInv, TypeOK
    <3>3. CallInv(t)'
      BY <1>3, <2>4, <3>1, SameScope
      DEF ReadPasses, Goto, TypeInv, TypeOK, CallsInv, CallInv
    <3> QED BY <1>3, <2>4, <3>2, <3>3, OthersKeep
            DEF ReadPasses, Goto, TypeInv, TypeOK, ScopeInv
  <2>5. ASSUME ClearCache(t) PROVE TypeInv'
    <3>1. TypeOK'
      BY <1>3, <2>5, SameScope DEF ClearCache, Goto, world, TypeInv, TypeOK
    <3>2. CallInv(t)'
      BY <1>3, <2>5, SameScope DEF ClearCache, Goto, TypeInv, TypeOK, CallsInv, CallInv
    <3> QED BY <1>3, <2>5, <3>1, <3>2, OthersKeep
            DEF ClearCache, Goto, TypeInv, TypeOK, ScopeInv
  <2>6. ASSUME ReadClock(t) PROVE TypeInv'
    <3>1. UNCHANGED <<cached, world>> /\ pc[t] = "clock"
      BY <2>6 DEF ReadClock
    <3>2. CASE Return(t, "clock_rollback")
      BY <1>3, <3>1, <3>2, ReturnTyped DEF world, TypeInv, TypeOK
    <3>3. CASE /\ now' = [now EXCEPT ![t] = clock]
               /\ Goto(t, "decide")
               /\ UNCHANGED <<doc, ctx, result>>
      <4>1. TypeOK'
        BY <1>3, <3>1, <3>3, SameScope DEF Goto, world, TypeInv, TypeOK
      <4>2. CallInv(t)'
        BY <1>3, <3>1, <3>3, SameScope DEF Goto, TypeInv, TypeOK, CallsInv, CallInv
      <4> QED BY <1>3, <3>1, <3>3, <4>1, <4>2, OthersKeep
              DEF Goto, TypeInv, TypeOK, ScopeInv
    <3> QED BY <2>6, <3>2, <3>3 DEF ReadClock
  <2>7. ASSUME Refuse(t) PROVE TypeInv'
    BY <1>3, <2>7, ReturnTyped DEF Refuse, world, TypeInv, TypeOK
  <2>8. ASSUME Inspect(t) PROVE TypeInv'
    BY <1>3, <2>8, ReturnTyped DEF Inspect, world, TypeInv, TypeOK
  <2>9. ASSUME RollbackRefused(t) PROVE TypeInv'
    BY <1>3, <2>9, ReturnTyped DEF RollbackRefused, world, TypeInv, TypeOK
  <2>10. ASSUME RollbackFails(t) \/ RollbackAccepted(t)
         PROVE  mark' \in Time \cup {NoState, Corrupt}
    <3>1. now[t] \in Time
      BY <2>10 DEF RollbackFails, RollbackAccepted, TypeInv, CallsInv, CallInv
    <3> QED BY <2>10, <3>1 DEF RollbackFails, RollbackAccepted, NextTrustedTime, Later,
                               TypeInv, TypeOK
  <2>11. ASSUME RollbackFails(t) PROVE TypeInv'
    BY <1>3, <2>10, <2>11, ReturnTyped DEF RollbackFails, TypeInv, TypeOK
  <2>12. ASSUME RollbackAccepted(t) PROVE TypeInv'
    <3>1. TypeOK'
      BY <1>3, <2>10, <2>12, SameScope DEF RollbackAccepted, Goto, TypeInv, TypeOK
    <3>2. CallInv(t)'
      BY <1>3, <2>12, SameScope
      DEF RollbackAccepted, Goto, TypeInv, TypeOK, CallsInv, CallInv
    <3> QED BY <1>3, <2>12, <3>1, <3>2, OthersKeep
            DEF RollbackAccepted, Goto, TypeInv, TypeOK, ScopeInv
  <2>13. ASSUME storeCache(t) PROVE TypeInv'
    <3>1. result[t] \in Results
      BY <2>13 DEF storeCache, TypeInv, CallsInv, CallInv
    <3> QED BY <1>3, <2>13, <3>1, ReturnTyped DEF storeCache, world, TypeInv, TypeOK
  <2>14. ASSUME Snapshot(t) PROVE TypeInv'
    <3>1. UNCHANGED <<cached, world>> /\ pc[t] = "snapshot"
      BY <2>14 DEF Snapshot
    <3>2. CASE Return(t, "miss") \/ Return(t, "served")
      BY <1>3, <3>1, <3>2, ReturnTyped DEF world, TypeInv, TypeOK
    <3>3. CASE /\ cached # Nil
               /\ result' = [result EXCEPT ![t] = cached]
               /\ Goto(t, "fresh")
               /\ UNCHANGED <<doc, ctx, now>>
      <4>1. TypeOK'
        BY <1>3, <3>1, <3>3, SameScope DEF Goto, world, TypeInv, TypeOK
      <4>2. CallInv(t)'
        BY <1>3, <3>1, <3>3, SameScope
        DEF Goto, TypeInv, TypeOK, CallsInv, CallInv, Validations
      <4> QED BY <1>3, <3>1, <3>3, <4>1, <4>2, OthersKeep
              DEF Goto, TypeInv, TypeOK, ScopeInv
    <3> QED BY <2>14, <3>2, <3>3 DEF Snapshot
  <2>15. ASSUME Fresh(t) PROVE TypeInv'
    BY <1>3, <2>15, ReturnTyped DEF Fresh, world, TypeInv, TypeOK
  <2>16. ASSUME InvalidateCache(t) PROVE TypeInv'
    BY <1>3, <2>16, ReturnTyped DEF InvalidateCache, world, TypeInv, TypeOK
  <2> QED BY <1>3, <2>1, <2>2, <2>3, <2>4, <2>5, <2>6, <2>7, <2>8, <2>9, <2>11,
             <2>12, <2>13, <2>14, <2>15, <2>16, ApproveTyped DEF Step
<1> QED BY <1>1, <1>2, <1>3, CallTyped DEF Next

(***************************************************************************)
(* The types, for all threads, documents, contexts and instants.           *)
(***************************************************************************)
THEOREM ManagerTypeCorrect == Spec => []TypeOK
<1>1. TypeInv => TypeOK
  BY DEF TypeInv
<1> QED BY <1>1, TypeInit, TypeNext, PTL DEF Spec

-----------------------------------------------------------------------------
(***************************************************************************)
(* A step of a goroutine is of a call of its own, and leaves the others'   *)
(* calls alone.                                                            *)
(***************************************************************************)
Mine(t) ==
    \A u \in Thread \ {t} :
        /\ pc'[u] = pc[u] /\ op'[u] = op[u] /\ doc'[u] = doc[u]
        /\ ctx'[u] = ctx[u] /\ now'[u] = now[u] /\ result'[u] = result[u]

(***************************************************************************)
(* A step of one thread leaves the others where they are.                  *)
(***************************************************************************)
LEMMA StepIsMine ==
  ASSUME TypeInv, NEW t \in Thread, Step(t)
  PROVE  Mine(t) /\ pc[t] # "idle" /\ ring' = ring /\ clock' = clock
            /\ wentBack' = wentBack
<1> USE DEF Mine, TypeInv, TypeOK, Goto, Return, world
<1>1. ASSUME StatFails(t) \/ StatPasses(t) \/ ReadFails(t) \/ ReadPasses(t)
      PROVE  Mine(t) /\ pc[t] # "idle" /\ UNCHANGED <<ring, clock, wentBack>>
  BY <1>1 DEF StatFails, StatPasses, ReadFails, ReadPasses
<1>2. ASSUME ClearCache(t) \/ ReadClock(t) \/ Refuse(t) \/ Inspect(t)
      PROVE  Mine(t) /\ pc[t] # "idle" /\ UNCHANGED <<ring, clock, wentBack>>
  BY <1>2 DEF ClearCache, ReadClock, Refuse, Inspect
<1>3. ASSUME Approve(t)
      PROVE  Mine(t) /\ pc[t] # "idle" /\ UNCHANGED <<ring, clock, wentBack>>
  BY <1>3 DEF Approve
<1>4. ASSUME RollbackRefused(t) \/ RollbackFails(t) \/ RollbackAccepted(t)
      PROVE  Mine(t) /\ pc[t] # "idle" /\ UNCHANGED <<ring, clock, wentBack>>
  BY <1>4 DEF RollbackRefused, RollbackFails, RollbackAccepted
<1>5. ASSUME storeCache(t) \/ Snapshot(t) \/ Fresh(t) \/ InvalidateCache(t)
      PROVE  Mine(t) /\ pc[t] # "idle" /\ UNCHANGED <<ring, clock, wentBack>>
  BY <1>5 DEF storeCache, Snapshot, Fresh, InvalidateCache
<1> QED BY <1>1, <1>2, <1>3, <1>4, <1>5 DEF Step

(***************************************************************************)
(* So does a call.                                                         *)
(***************************************************************************)
LEMMA CallIsMine ==
  ASSUME TypeInv, NEW t \in Thread, NEW m \in Operations,
         NEW d \in Docs \cup {Nil}, NEW c \in Contexts \cup {Nil},
         Call(t, m, d, c)
  PROVE  /\ Mine(t) /\ pc[t] = "idle" /\ UNCHANGED <<cached, world>>
         /\ \/ pc'[t] \in {"clear", "stat", "snapshot", "invalidate"}
            \/ (pc'[t] = "decide" /\ op'[t] = "Inspect")
<1>0. m \in {"Validate", "LoadAndValidate", "Inspect", "CachedResult",
             "InvalidateCache"}
  BY DEF Operations
<1>1. \/ FirstStep(m) \in {"clear", "stat", "snapshot", "invalidate"}
      \/ (FirstStep(m) = "decide" /\ m = "Inspect")
  BY <1>0, FirstSteps
<1>2. /\ pc' = [pc EXCEPT ![t] = FirstStep(m)] /\ op' = [op EXCEPT ![t] = m]
      /\ doc' = [doc EXCEPT ![t] = d] /\ ctx' = [ctx EXCEPT ![t] = c]
      /\ pc[t] = "idle" /\ UNCHANGED <<cached, now, result, world>>
  BY DEF Call
<1> QED BY <1>1, <1>2 DEF Mine, TypeInv, TypeOK

(***************************************************************************)
(* Which step leads where, and which one writes what.                      *)
(***************************************************************************)
Leads(t) ==
    /\ pc'[t] \in {"trust", "store"} => Approve(t) \/ RollbackAccepted(t)
    /\ pc'[t] = "decide" => ReadClock(t)
    /\ pc'[t] = "clock" => ClearCache(t)
    /\ pc'[t] = "fresh" => Snapshot(t)
    /\ cached' \in {Nil, cached} \/ storeCache(t)
    /\ mark' = mark \/ RollbackFails(t) \/ RollbackAccepted(t)

(***************************************************************************)
(* Where a step of a thread leads to.                                      *)
(***************************************************************************)
LEMMA StepLeads ==
  ASSUME TypeInv, NEW t \in Thread, Step(t)
  PROVE  Leads(t)
<1> USE DEF Leads, TypeInv, TypeOK, Goto, Return, world
<1>1. ASSUME StatFails(t) \/ StatPasses(t) \/ ReadFails(t) \/ ReadPasses(t)
      PROVE  Leads(t)
  BY <1>1 DEF StatFails, StatPasses, ReadFails, ReadPasses
<1>2. ASSUME ClearCache(t) PROVE Leads(t)
  BY <1>2 DEF ClearCache
<1>3. ASSUME ReadClock(t) PROVE Leads(t)
  BY <1>3 DEF ReadClock
<1>4. ASSUME Refuse(t) \/ Inspect(t) \/ RollbackRefused(t) PROVE Leads(t)
  BY <1>4 DEF Refuse, Inspect, RollbackRefused
<1>5. ASSUME Approve(t) PROVE Leads(t)
  <2>1. AfterDecision(doc[t].payload) \in {"trust", "store"}
    BY DEF AfterDecision
  <2> QED BY <1>5, <2>1 DEF Approve
<1>6. ASSUME RollbackFails(t) PROVE Leads(t)
  BY <1>6 DEF RollbackFails
<1>7. ASSUME RollbackAccepted(t) PROVE Leads(t)
  BY <1>7 DEF RollbackAccepted
<1>8. ASSUME storeCache(t) PROVE Leads(t)
  BY <1>8 DEF storeCache
<1>9. ASSUME Snapshot(t) PROVE Leads(t)
  BY <1>9 DEF Snapshot
<1>10. ASSUME Fresh(t) \/ InvalidateCache(t) PROVE Leads(t)
  BY <1>10 DEF Fresh, InvalidateCache
<1> QED BY <1>1, <1>2, <1>3, <1>4, <1>5, <1>6, <1>7, <1>8, <1>9, <1>10 DEF Step

-----------------------------------------------------------------------------
(***************************************************************************)
(* A key once revoked stays revoked, and a call past its decision has a    *)
(* document that was authentic under a key alive when the call began, and  *)
(* usable at the call's instant.                                           *)
(***************************************************************************)
RingInv == \A k \in DOMAIN ring : "revoked" \in DOMAIN ring[k]

Approved(t) ==
    /\ doc[t].signed /\ doc[t].keyId \notin revokedAt[t]
    /\ Usable(validate(doc[t].payload, now[t], Effective(ctx[t])))

DecidedInv ==
    /\ RingInv
    /\ \A t \in Thread :
          /\ revokedAt[t] \subseteq RevokedKeys
          /\ pc[t] \in {"trust", "store"} => Approved(t)
          /\ pc[t] = "trust" => TimeLimited(doc[t].payload)

(***************************************************************************)
(* No thread has decided at the start.                                     *)
(***************************************************************************)
LEMMA DecidedInit == Init => DecidedInv
BY ManagerConstants DEF Init, DecidedInv, RingInv

(***************************************************************************)
(* Revoked keys stay revoked.                                              *)
(***************************************************************************)
LEMMA RingNext ==
  ASSUME RingInv, ring' = ring \/ Environment
  PROVE  RingInv' /\ RevokedKeys \subseteq RevokedKeys'
<1>1. CASE ring' = ring
  BY <1>1 DEF RingInv, RevokedKeys
<1>2. CASE Environment
  <2>1. CASE RevokeKey
    <3>1. PICK k \in DOMAIN ring :
            ring' = Add(ring, k, [ring[k] EXCEPT !.revoked = TRUE])
      BY <2>1 DEF RevokeKey
    <3> DEFINE entry == [ring[k] EXCEPT !.revoked = TRUE]
    <3>2. "revoked" \in DOMAIN ring[k]
      BY DEF RingInv
    <3>3. "revoked" \in DOMAIN entry /\ entry.revoked = TRUE
      BY <3>2, Zenon
    <3> HIDE DEF entry
    <3>4. CASE Add(ring, k, entry) = ring
      BY <1>1, <3>1, <3>4 DEF entry
    <3>5. CASE Add(ring, k, entry) # ring
      <4>1. /\ DOMAIN ring' = DOMAIN ring
            /\ \A j \in DOMAIN ring : ring'[j] = IF j = k THEN entry ELSE ring[j]
        BY <3>1, <3>5 DEF Add, entry
      <4> QED BY <3>3, <4>1 DEF RingInv, RevokedKeys
    <3> QED BY <3>4, <3>5
  <2>2. CASE ring' = ring
    BY <1>1, <2>2
  <2> QED BY <1>2, <2>1, <2>2
          DEF Environment, MoveClock, ReplaceLicense, DamageState
<1> QED BY <1>1, <1>2

(***************************************************************************)
(* Every step keeps what is known of a decision.                           *)
(***************************************************************************)
LEMMA DecidedNext == TypeInv /\ DecidedInv /\ [Next]_mvars => DecidedInv'
<1> SUFFICES ASSUME TypeInv, DecidedInv, [Next]_mvars PROVE DecidedInv'
  OBVIOUS
<1>1. CASE UNCHANGED mvars
  BY <1>1, SameScope
  DEF mvars, calls, world, DecidedInv, RingInv, RevokedKeys, Approved
<1>2. ASSUME Next PROVE DecidedInv'
  <2>1. scope' = scope /\ History
    BY <1>2 DEF Next
  <2>2. RingInv' /\ RevokedKeys \subseteq RevokedKeys'
    BY <1>2, RingNext, StepIsMine, CallIsMine DEF Next, DecidedInv, world
  <2>3. \A u \in Thread :
          revokedAt'[u] = IF pc'[u] = "idle" THEN {}
                          ELSE IF pc[u] # "idle" THEN revokedAt[u] ELSE RevokedKeys
    BY <2>1, SameScope DEF History, Running
  <2>4. \A u \in Thread : revokedAt'[u] \subseteq RevokedKeys'
    BY <2>2, <2>3 DEF DecidedInv
  <2>5. ASSUME NEW u \in Thread, pc'[u] = pc[u], doc'[u] = doc[u],
               ctx'[u] = ctx[u], now'[u] = now[u]
        PROVE  /\ pc'[u] \in {"trust", "store"} => Approved(u)'
               /\ pc'[u] = "trust" => TimeLimited(doc'[u].payload)
    BY <2>3, <2>5 DEF DecidedInv, Approved
  <2>6. ASSUME NEW t \in Thread, Approve(t)
        PROVE  /\ Approved(t)'
               /\ pc'[t] = "trust" => TimeLimited(doc'[t].payload)
    <3>1. /\ pc[t] = "decide" /\ Usable(Decide(doc[t], ctx[t], now[t]))
          /\ pc' = [pc EXCEPT ![t] = AfterDecision(doc[t].payload)]
          /\ UNCHANGED <<doc, ctx, now>>
      BY <2>6 DEF Approve, Goto
    <3>2. pc'[t] = AfterDecision(doc[t].payload)
      BY <3>1 DEF TypeInv, TypeOK
    <3>3. pc'[t] \in {"trust", "store"}
            /\ (pc'[t] = "trust" => TimeLimited(doc[t].payload))
      BY <3>2 DEF AfterDecision
    <3>4. revokedAt'[t] = revokedAt[t]
      BY <2>3, <3>1, <3>3
    <3>5. /\ doc[t].signed /\ doc[t].keyId \notin RevokedKeys
          /\ Usable(validate(doc[t].payload, now[t], Effective(ctx[t])))
      BY <3>1, ApprovedMeans
    <3> QED BY <3>1, <3>3, <3>4, <3>5 DEF DecidedInv, Approved
  <2>7. ASSUME NEW t \in Thread, RollbackAccepted(t)
        PROVE  Approved(t)' /\ pc'[t] = "store"
    <3>1. /\ pc[t] = "trust" /\ pc'[t] = "store"
          /\ UNCHANGED <<doc, ctx, now>>
      BY <2>7 DEF RollbackAccepted, Goto, TypeInv, TypeOK
    <3> QED BY <2>3, <3>1 DEF DecidedInv, Approved
  <2>8. ASSUME NEW u \in Thread
        PROVE  /\ pc'[u] \in {"trust", "store"} => Approved(u)'
               /\ pc'[u] = "trust" => TimeLimited(doc'[u].payload)
    <3>1. CASE Environment
      BY <2>5, <3>1 DEF Environment, calls
    <3>2. ASSUME NEW t \in Thread, NEW m \in Operations,
                 NEW d \in Docs \cup {Nil}, NEW c \in Contexts \cup {Nil},
                 Call(t, m, d, c)
          PROVE  /\ pc'[u] \in {"trust", "store"} => Approved(u)'
                 /\ pc'[u] = "trust" => TimeLimited(doc'[u].payload)
      BY <2>5, <3>2, CallIsMine DEF Mine
    <3>3. ASSUME NEW t \in Thread, Step(t)
          PROVE  /\ pc'[u] \in {"trust", "store"} => Approved(u)'
                 /\ pc'[u] = "trust" => TimeLimited(doc'[u].payload)
      <4>1. CASE u = t
        BY <2>6, <2>7, <3>3, <4>1, StepLeads DEF Leads
      <4>2. CASE u # t
        BY <2>5, <3>3, <4>2, StepIsMine DEF Mine
      <4> QED BY <4>1, <4>2
    <3> QED BY <1>2, <3>1, <3>2, <3>3 DEF Next
  <2> QED BY <2>1, <2>2, <2>4, <2>8, SameScope DEF DecidedInv
<1> QED BY <1>1, <1>2

-----------------------------------------------------------------------------
(***************************************************************************)
(* The anti-rollback mark only moves forward, to the instant of a call     *)
(* that is inside checkAndPersistRollback, or is damaged for good.         *)
(***************************************************************************)
Trusted(at) == mark = Corrupt \/ (mark # NoState /\ at <= mark)

MarkMoves ==
    \/ mark' \in {mark, Corrupt}
    \/ mark # Corrupt /\ \E t \in Thread :
          /\ pc[t] = "trust" /\ now[t] \in Time
          /\ (RollbackFails(t) \/ RollbackAccepted(t))
          /\ mark' = NextTrustedTime(mark, now[t])

(***************************************************************************)
(* No step moves the mark back; only damage takes it away.                 *)
(***************************************************************************)
LEMMA MarkNext ==
  ASSUME TypeInv, Next
  PROVE  MarkMoves
<1>1. CASE Environment
  BY <1>1 DEF Environment, MoveClock, RevokeKey, ReplaceLicense, DamageState,
              MarkMoves
<1>2. ASSUME NEW t \in Thread, NEW m \in Operations,
             NEW d \in Docs \cup {Nil}, NEW c \in Contexts \cup {Nil},
             Call(t, m, d, c)
      PROVE  MarkMoves
  BY <1>2 DEF Call, world, MarkMoves
<1>3. ASSUME NEW t \in Thread, Step(t) PROVE MarkMoves
  <2>1. CASE mark' = mark
    BY <2>1 DEF MarkMoves
  <2>2. CASE mark' # mark
    <3>1. RollbackFails(t) \/ RollbackAccepted(t)
      BY <1>3, <2>2, StepLeads DEF Leads
    <3>2. pc[t] = "trust" /\ mark # Corrupt /\ mark' = NextTrustedTime(mark, now[t])
      BY <2>2, <3>1 DEF RollbackFails, RollbackAccepted
    <3>3. now[t] \in Time
      BY <3>2 DEF TypeInv, CallsInv, CallInv
    <3> QED BY <3>1, <3>2, <3>3 DEF MarkMoves
  <2> QED BY <2>1, <2>2
<1> QED BY <1>1, <1>2, <1>3 DEF Next

(***************************************************************************)
(* An instant that the mark covers stays covered.                          *)
(***************************************************************************)
LEMMA TrustLasts ==
  ASSUME TypeInv, MarkMoves, NEW at \in Time, Trusted(at)
  PROVE  Trusted(at)'
<1>1. Time \subseteq Int
  BY ManagerConstants DEF TypeInv, ScopeInv, Time
<1>2. mark # Corrupt => mark \in Int
  BY <1>1, ManagerConstants DEF TypeInv, TypeOK, Trusted
<1> QED BY <1>1, <1>2, ManagerConstants
        DEF MarkMoves, Trusted, NextTrustedTime, Later

(***************************************************************************)
(* A call on its way to the cache, and what the cache holds, is covered by *)
(* the mark if it has to be.                                               *)
(***************************************************************************)
NeedsTrust(p) == RollbackEnabled /\ TimeLimited(p)

TrustInv ==
    /\ \A t \in Thread :
          pc[t] = "store" /\ NeedsTrust(doc[t].payload) => Trusted(now[t])
    /\ cached # Nil /\ NeedsTrust(cached.payload) => Trusted(cached.checkedAt)

(***************************************************************************)
(* At the start nothing is cached or trusted.                              *)
(***************************************************************************)
LEMMA TrustInit == Init => TrustInv
BY DEF Init, TrustInv

(***************************************************************************)
(* Every step keeps what is cached, or about to be, trusted.               *)
(***************************************************************************)
LEMMA TrustNext == TypeInv /\ TrustInv /\ [Next]_mvars => TrustInv'
<1> SUFFICES ASSUME TypeInv, TrustInv, [Next]_mvars PROVE TrustInv'
  OBVIOUS
<1>1. CASE UNCHANGED mvars
  BY <1>1, SameScope DEF mvars, calls, world, TrustInv, NeedsTrust, Trusted
<1>2. ASSUME Next PROVE TrustInv'
  <2>1. MarkMoves /\ Thread' = Thread
    BY <1>2, MarkNext, SameScope DEF Next
  <2>2. \A u \in Thread : pc[u] \in {"trust", "store"} => now[u] \in Time
    BY DEF TypeInv, CallsInv, CallInv
  <2>3. cached # Nil => cached.checkedAt \in Time
    BY DEF TypeInv, TypeOK, Results
  <2>4. ASSUME NEW u \in Thread, pc'[u] = pc[u], doc'[u] = doc[u],
               now'[u] = now[u], pc'[u] = "store", NeedsTrust(doc'[u].payload)
        PROVE  Trusted(now[u])'
    <3>1. now[u] \in Time /\ Trusted(now[u])
      BY <2>2, <2>4 DEF TrustInv
    <3> QED BY <2>1, <2>4, <3>1, TrustLasts DEF Trusted
  <2>5. ASSUME cached # Nil, NeedsTrust(cached.payload)
        PROVE  Trusted(cached.checkedAt) /\ cached.checkedAt \in Time
    BY <2>3, <2>5 DEF TrustInv
  <2>6. ASSUME cached' = cached, cached' # Nil, NeedsTrust(cached'.payload)
        PROVE  Trusted(cached.checkedAt)'
    <3> DEFINE at == cached.checkedAt
    <3>1. Trusted(at) /\ at \in Time
      BY <2>5, <2>6
    <3>2. mark' = Corrupt \/ (mark' # NoState /\ at <= mark')
      BY <2>1, <3>1, TrustLasts DEF Trusted
    <3> QED BY <2>6, <3>2 DEF Trusted
  <2>7. CASE Environment
    BY <2>1, <2>4, <2>6, <2>7 DEF Environment, calls, TrustInv
  <2>8. ASSUME NEW t \in Thread, NEW m \in Operations,
               NEW d \in Docs \cup {Nil}, NEW c \in Contexts \cup {Nil},
               Call(t, m, d, c)
        PROVE  TrustInv'
    BY <2>1, <2>4, <2>6, <2>8, CallIsMine DEF Mine, TrustInv
  <2>9. ASSUME NEW t \in Thread, Step(t) PROVE TrustInv'
    <3>1. ASSUME pc'[t] = "store", NeedsTrust(doc'[t].payload)
          PROVE  Trusted(now[t])'
      <4>1. Approve(t) => pc'[t] = AfterDecision(doc[t].payload) /\ doc' = doc
        BY DEF Approve, Goto, TypeInv, TypeOK
      <4>2. RollbackAccepted(t)
        BY <2>9, <3>1, <4>1, StepLeads DEF Leads, AfterDecision, NeedsTrust
      <4>3. /\ mark # Corrupt /\ mark' = NextTrustedTime(mark, now[t])
            /\ now'[t] = now[t] /\ now[t] \in Time
        BY <2>2, <4>2 DEF RollbackAccepted
      <4>4. now[t] \in Int /\ (mark = NoState \/ mark \in Int)
        BY <4>3, ManagerConstants DEF TypeInv, TypeOK, ScopeInv, Time
      <4>5. mark' \in Int /\ now'[t] <= mark'
        BY <4>3, <4>4 DEF NextTrustedTime, Later
      <4> QED BY <4>5, ManagerConstants DEF Trusted
    <3>2. \A u \in Thread :
            pc'[u] = "store" /\ NeedsTrust(doc'[u].payload) => Trusted(now[u])'
      BY <2>4, <2>9, <3>1, StepIsMine DEF Mine
    <3>3. ASSUME storeCache(t), cached' # Nil, NeedsTrust(cached'.payload)
          PROVE  Trusted(cached.checkedAt)'
      <4>1. /\ pc[t] = "store" /\ cached' = result[t] /\ mark' = mark
            /\ result[t].payload = doc[t].payload
            /\ result[t].checkedAt = now[t]
        BY <3>3 DEF storeCache, world, TypeInv, CallsInv, CallInv
      <4>2. Trusted(now[t])
        BY <3>3, <4>1 DEF TrustInv
      <4> QED BY <4>1, <4>2 DEF Trusted
    <3>4. cached' # Nil /\ NeedsTrust(cached'.payload) => Trusted(cached.checkedAt)'
      BY <2>6, <2>9, <3>3, StepLeads DEF Leads
    <3> QED BY <2>1, <3>2, <3>4 DEF TrustInv
  <2> QED BY <1>2, <2>7, <2>8, <2>9 DEF Next
<1> QED BY <1>1, <1>2

(***************************************************************************)
(* What the cache shows of a time-limited license is covered by the        *)
(* anti-rollback mark.                                                     *)
(***************************************************************************)
THEOREM CacheIsTrusted == Spec => []CachedIsTrusted
<1>1. TrustInv => CachedIsTrusted
  BY DEF TrustInv, NeedsTrust, Trusted, CachedIsTrusted
<1> QED BY <1>1, TypeInit, TypeNext, TrustInit, TrustNext, PTL DEF Spec

(***************************************************************************)
(* The mark changes only by damage or forward, and a state that fails its  *)
(* integrity check stays as it is.                                         *)
(***************************************************************************)
MarkAdvances ==
    [][mark' # mark =>
          /\ mark # Corrupt
          /\ \/ mark' = Corrupt
             \/ mark' \in Time /\ (mark = NoState \/ mark' > mark)]_mvars

(***************************************************************************)
(* Whatever the goroutines that share a Manager do, and whatever happens   *)
(* around them, the mark of the anti-rollback store only advances, and a   *)
(* state that fails its integrity check is never silently reset.           *)
(***************************************************************************)
THEOREM MarkOnlyAdvances == Spec => MarkAdvances
<1>1. ASSUME TypeInv, Next, mark' # mark
      PROVE  /\ mark # Corrupt
             /\ mark' = Corrupt
                \/ (mark' \in Time /\ (mark = NoState \/ mark' > mark))
  <2>1. MarkMoves
    BY <1>1, MarkNext
  <2>2. Time \subseteq Int /\ mark \in Time \cup {NoState, Corrupt}
    BY <1>1, ManagerConstants DEF TypeInv, TypeOK, ScopeInv, Time
  <2>3. CASE mark' = Corrupt
    BY <1>1, <2>3
  <2>4. CASE mark' # Corrupt
    <3>1. PICK t \in Thread :
            mark # Corrupt /\ now[t] \in Time /\ mark' = NextTrustedTime(mark, now[t])
      BY <1>1, <2>1, <2>4 DEF MarkMoves
    <3>2. CASE mark = NoState
      BY <3>1, <3>2 DEF NextTrustedTime
    <3>3. CASE mark # NoState
      <4>1. mark \in Int /\ now[t] \in Int
        BY <2>2, <3>1, <3>3
      <4> QED BY <1>1, <3>1, <3>3, <4>1 DEF NextTrustedTime, Later
    <3> QED BY <3>2, <3>3
  <2> QED BY <2>3, <2>4
<1>2. TypeInv /\ [Next]_mvars =>
        [mark' # mark =>
          /\ mark # Corrupt
          /\ \/ mark' = Corrupt
             \/ mark' \in Time /\ (mark = NoState \/ mark' > mark)]_mvars
  BY <1>1
<1> QED BY <1>2, TypeInit, TypeNext, PTL DEF Spec, MarkAdvances

-----------------------------------------------------------------------------
(***************************************************************************)
(* A call returns in a step of its own, and a validation that returns      *)
(* either fills the cache or answers with a refusal.                       *)
(***************************************************************************)
LEMMA ReturnsByStep ==
  ASSUME TypeInv, [Next]_mvars, NEW t \in Thread, Returns(t)
  PROVE  Step(t)
<1>1. pc[t] # "idle" /\ pc'[t] = "idle"
  BY DEF Returns, Running
<1>2. Next /\ ~Environment
  BY <1>1 DEF mvars, calls, Environment
<1>3. ASSUME NEW s \in Thread, NEW m \in Operations,
             NEW d \in Docs \cup {Nil}, NEW c \in Contexts \cup {Nil},
             Call(s, m, d, c)
      PROVE  FALSE
  BY <1>1, <1>3, CallIsMine DEF Mine
<1>4. ASSUME NEW s \in Thread, Step(s) PROVE s = t
  BY <1>1, <1>4, StepIsMine DEF Mine
<1> QED BY <1>2, <1>3, <1>4 DEF Next

(***************************************************************************)
(* The steps in which a validation returns.                                *)
(***************************************************************************)
LEMMA ReturnMeans ==
  ASSUME TypeInv, NEW t \in Thread, Step(t), Returns(t), op[t] \in Validations
  PROVE  \/ storeCache(t)
         \/ (StatFails(t) \/ ReadFails(t)) /\ ~Usable(Answer(t)')
         \/ /\ ReadClock(t) \/ Refuse(t) \/ RollbackRefused(t) \/ RollbackFails(t)
            /\ ~Usable(Answer(t)')
<1> USE DEF Validations
<1>1. pc[t] # "idle" /\ pc'[t] = "idle"
  BY DEF Returns, Running
<1>2. \A r : Return(t, r) => Answer(t)' = r
  BY DEF Return, Answer
<1>3. ~(StatPasses(t) \/ ReadPasses(t) \/ ClearCache(t) \/ RollbackAccepted(t))
  BY <1>1 DEF StatPasses, ReadPasses, ClearCache, RollbackAccepted, Goto,
              TypeInv, TypeOK
<1>4. ~Approve(t)
  <2>1. AfterDecision(doc[t].payload) # "idle"
    BY DEF AfterDecision
  <2> QED BY <1>1, <2>1 DEF Approve, Goto, TypeInv, TypeOK
<1>5. ~(Inspect(t) \/ Snapshot(t) \/ Fresh(t) \/ InvalidateCache(t))
  BY DEF Inspect, Snapshot, Fresh, InvalidateCache, TypeInv, CallsInv, CallInv
<1>6. StatFails(t) \/ ReadFails(t) => ~Usable(Answer(t)')
  BY <1>2, FileErrorFails DEF StatFails, ReadFails, Usable
<1>7. ReadClock(t) => ~Usable(Answer(t)')
  BY <1>1, <1>2 DEF ReadClock, Goto, Usable, TypeInv, TypeOK
<1>8. Refuse(t) => ~Usable(Answer(t)')
  BY <1>2 DEF Refuse
<1>9. RollbackRefused(t) \/ RollbackFails(t) => ~Usable(Answer(t)')
  BY <1>2 DEF RollbackRefused, RollbackFails, Usable
<1> QED BY <1>3, <1>4, <1>5, <1>6, <1>7, <1>8, <1>9 DEF Step

-----------------------------------------------------------------------------
(***************************************************************************)
(* No call that begins after a key was revoked accepts a license of it.    *)
(***************************************************************************)
THEOREM RevokedNeverAccepted == Spec => RevokedKeyNeverAccepted
<1>1. ASSUME TypeInv, DecidedInv, [Next]_mvars, NEW t \in Thread,
             Validates(t), Returns(t), Usable(Answer(t)')
      PROVE  doc[t].keyId \notin revokedAt[t]
  <2>1. op[t] \in Validations
    BY <1>1 DEF Validates, Validations
  <2>2. storeCache(t)
    BY <1>1, <2>1, ReturnsByStep, ReturnMeans
  <2> QED BY <1>1, <2>2 DEF storeCache, DecidedInv, Approved
<1>2. TypeInv /\ DecidedInv /\ [Next]_mvars =>
        [\A t \in Thread :
            Validates(t) /\ Returns(t) /\ Usable(Answer(t)')
              => doc[t].keyId \notin revokedAt[t]]_mvars
  BY <1>1
<1> QED BY <1>2, TypeInit, TypeNext, DecidedInit, DecidedNext, PTL
        DEF Spec, RevokedKeyNeverAccepted

(***************************************************************************)
(* Whatever moves the mark is authentic, time-limited and usable at        *)
(* exactly that instant.                                                   *)
(***************************************************************************)
THEOREM OnlyAcceptedWrites == Spec => RejectedNeverWrites
<1>1. ASSUME TypeInv, DecidedInv, [Next]_mvars, mark' # mark, mark' \in Time
      PROVE  \E t \in Thread :
                /\ Validates(t) /\ doc[t] # Nil
                /\ doc[t].signed /\ doc[t].keyId \notin revokedAt[t]
                /\ TimeLimited(doc[t].payload)
                /\ Usable(validate(doc[t].payload, mark', Effective(ctx[t])))
  <2>1. Next
    BY <1>1 DEF mvars, world
  <2>2. Corrupt \notin Time
    BY <1>1, ManagerConstants DEF TypeInv, ScopeInv, Time
  <2>3. PICK t \in Thread : pc[t] = "trust" /\ mark' = NextTrustedTime(mark, now[t])
    BY <1>1, <2>1, <2>2, MarkNext DEF MarkMoves
  <2>4. mark' = now[t]
    BY <1>1, <2>3 DEF NextTrustedTime, Later
  <2>5. Approved(t) /\ TimeLimited(doc[t].payload)
    BY <1>1, <2>3 DEF DecidedInv
  <2>6. Validates(t) /\ doc[t] \in Documents
    BY <1>1, <2>3
    DEF Validates, Validations, Running, TypeInv, CallsInv, CallInv
  <2>7. doc[t] # Nil
    BY <1>1, <2>6, ScopesAssumption DEF TypeInv, ScopeInv, Documents, Docs, Files
  <2> QED BY <2>4, <2>5, <2>6, <2>7 DEF Approved
<1>2. TypeInv /\ DecidedInv /\ [Next]_mvars =>
        [mark' # mark /\ mark' \in Time =>
          \E t \in Thread :
              /\ Validates(t) /\ doc[t] # Nil
              /\ doc[t].signed /\ doc[t].keyId \notin revokedAt[t]
              /\ TimeLimited(doc[t].payload)
              /\ Usable(validate(doc[t].payload, mark', Effective(ctx[t])))]_mvars
  BY <1>1
<1> QED BY <1>2, TypeInit, TypeNext, DecidedInit, DecidedNext, PTL
        DEF Spec, RejectedNeverWrites

-----------------------------------------------------------------------------
(***************************************************************************)
(* Between clearing the cache and its end a validation sees an empty       *)
(* cache, or one that was filled while it ran.                             *)
(***************************************************************************)
Hidden(t) ==
    pc[t] \in {"clock", "decide", "trust", "store"} /\ op[t] \in Validations
        => cached = Nil \/ storedIn[t]

HiddenInv == \A t \in Thread : Hidden(t)

(***************************************************************************)
(* No validation runs at the start.                                        *)
(***************************************************************************)
LEMMA HiddenInit == Init => HiddenInv
BY DEF Init, HiddenInv, Hidden

(***************************************************************************)
(* Every step keeps older decisions hidden from a validation.              *)
(***************************************************************************)
LEMMA HiddenNext == TypeInv /\ HiddenInv /\ [Next]_mvars => HiddenInv'
<1> SUFFICES ASSUME TypeInv, HiddenInv, [Next]_mvars PROVE HiddenInv'
  OBVIOUS
<1>1. CASE UNCHANGED mvars
  BY <1>1, SameScope DEF mvars, calls, HiddenInv, Hidden
<1>2. ASSUME Next PROVE HiddenInv'
  <2>1. /\ Thread' = Thread
        /\ \A u \in Thread :
              pc'[u] # "idle" /\ pc[u] # "idle" =>
                 storedIn'[u] = (storedIn[u] \/ (cached' # cached /\ cached' # Nil))
    BY <1>2, SameScope DEF Next, History, Running
  <2>2. ASSUME NEW u \in Thread, pc[u] # "idle", op'[u] = op[u],
               pc'[u] \in {"clock", "decide", "trust", "store"},
               \/ pc[u] \in {"clock", "decide", "trust", "store"}
               \/ cached' = Nil
        PROVE  Hidden(u)'
    BY <2>1, <2>2 DEF HiddenInv, Hidden
  <2>3. ASSUME NEW u \in Thread, pc'[u] = pc[u], op'[u] = op[u]
        PROVE  Hidden(u)'
    BY <2>2, <2>3 DEF Hidden
  <2>4. CASE Environment
    BY <2>1, <2>3, <2>4 DEF Environment, calls, HiddenInv
  <2>5. ASSUME NEW t \in Thread, NEW m \in Operations,
               NEW d \in Docs \cup {Nil}, NEW c \in Contexts \cup {Nil},
               Call(t, m, d, c)
        PROVE  HiddenInv'
    <3>1. Hidden(t)'
      BY <2>5, CallIsMine DEF Hidden, Validations
    <3> QED BY <2>1, <2>3, <2>5, <3>1, CallIsMine DEF Mine, HiddenInv
  <2>6. ASSUME NEW t \in Thread, Step(t) PROVE HiddenInv'
    <3>1. CASE pc'[t] \in {"clock", "decide", "trust", "store"}
      <4>1. \/ ClearCache(t) /\ cached' = Nil
            \/ ReadClock(t) /\ pc[t] = "clock"
            \/ Approve(t) /\ pc[t] = "decide"
            \/ RollbackAccepted(t) /\ pc[t] = "trust"
        BY <2>6, <3>1, StepLeads
        DEF Leads, ClearCache, ReadClock, Approve, RollbackAccepted
      <4>2. op' = op
        BY <3>1, <4>1
        DEF ClearCache, ReadClock, Approve, RollbackAccepted, Goto, Return,
            TypeInv, TypeOK
      <4>3. Hidden(t)'
        BY <2>2, <2>6, <3>1, <4>1, <4>2, StepIsMine
      <4> QED BY <2>1, <2>3, <2>6, <4>3, StepIsMine DEF Mine, HiddenInv
    <3>2. CASE pc'[t] \notin {"clock", "decide", "trust", "store"}
      <4>1. Hidden(t)'
        BY <3>2 DEF Hidden
      <4> QED BY <2>1, <2>3, <2>6, <4>1, StepIsMine DEF Mine, HiddenInv
    <3> QED BY <3>1, <3>2
  <2> QED BY <1>2, <2>4, <2>5, <2>6 DEF Next
<1> QED BY <1>1, <1>2

(***************************************************************************)
(* A validation that fails leaves no decision from before it in the cache. *)
(***************************************************************************)
THEOREM FailureHides == Spec => FailureHidesOlderDecisions
<1>1. ASSUME TypeInv, HiddenInv, [Next]_mvars, NEW t \in Thread,
             Validates(t), Returns(t), ~Usable(Answer(t)')
      PROVE  cached' = Nil \/ storedIn[t]
  <2>1. op[t] \in Validations /\ Step(t)
    BY <1>1, ReturnsByStep DEF Validates, Validations
  <2>2. CASE storeCache(t)
    <3>1. /\ result[t] \in Results /\ Answer(t)' = result[t].status
      BY <1>1, <2>2 DEF storeCache, Return, Answer, TypeInv, CallsInv, CallInv
    <3> QED BY <1>1, <3>1 DEF Results, Usable
  <2>3. CASE StatFails(t) \/ ReadFails(t)
    BY <2>3 DEF StatFails, ReadFails
  <2>4. CASE ReadClock(t) \/ Refuse(t) \/ RollbackRefused(t) \/ RollbackFails(t)
    <3>1. pc[t] \in {"clock", "decide", "trust"} /\ cached' = cached
      BY <2>4 DEF ReadClock, Refuse, RollbackRefused, RollbackFails
    <3> QED BY <1>1, <2>1, <3>1 DEF HiddenInv, Hidden
  <2> QED BY <1>1, <2>1, <2>2, <2>3, <2>4, ReturnMeans
<1>2. TypeInv /\ HiddenInv /\ [Next]_mvars =>
        [\A t \in Thread :
            Validates(t) /\ Returns(t) /\ ~Usable(Answer(t)')
              => cached' = Nil \/ storedIn[t]]_mvars
  BY <1>1
<1> QED BY <1>2, TypeInit, TypeNext, HiddenInit, HiddenNext, PTL
        DEF Spec, FailureHidesOlderDecisions

(***************************************************************************)
(* Only another goroutine's validation fills the cache while a call runs.  *)
(***************************************************************************)
FilledByOthers == \A t \in Thread : storedIn[t] => \E u \in Thread : u # t

(***************************************************************************)
(* At the start nobody has filled it.                                      *)
(***************************************************************************)
LEMMA FilledInit == Init => FilledByOthers
BY DEF Init, FilledByOthers

(***************************************************************************)
(* A call that fills the cache is over with it, so it was another that did.*)
(***************************************************************************)
LEMMA FilledNext == TypeInv /\ FilledByOthers /\ [Next]_mvars => FilledByOthers'
<1> SUFFICES ASSUME TypeInv, FilledByOthers, [Next]_mvars PROVE FilledByOthers'
  OBVIOUS
<1>1. CASE UNCHANGED mvars
  BY <1>1, SameScope DEF mvars, FilledByOthers
<1>2. ASSUME Next PROVE FilledByOthers'
  <2> SUFFICES ASSUME NEW t \in Thread, storedIn'[t]
               PROVE  \E u \in Thread : u # t
    BY <1>2, SameScope DEF Next, FilledByOthers
  <2>1. /\ pc'[t] # "idle" /\ pc[t] # "idle"
        /\ storedIn[t] \/ (cached' # cached /\ cached' # Nil)
    BY <1>2, SameScope DEF Next, History, Running
  <2>2. CASE storedIn[t]
    BY <2>2 DEF FilledByOthers
  <2>3. CASE cached' # cached /\ cached' # Nil
    <3>1. PICK u \in Thread : Step(u)
      BY <1>2, <2>3, CallIsMine DEF Next, Environment
    <3>2. storeCache(u)
      BY <2>3, <3>1, StepLeads DEF Leads
    <3>3. pc'[u] = "idle"
      BY <3>2 DEF storeCache, Return, TypeInv, TypeOK
    <3> QED BY <2>1, <3>3
  <2> QED BY <2>1, <2>2, <2>3
<1> QED BY <1>1, <1>2

(***************************************************************************)
(* Each program considered validates in one goroutine at most.             *)
(***************************************************************************)
OneGoroutine ==
    \A s \in DOMAIN Scopes : \A t, u \in Scopes[s].threads : t = u

(***************************************************************************)
(* What the comment at manager.go:133-137 promises is so in a program that *)
(* validates in one goroutine only: a validation that fails leaves an      *)
(* empty cache.                                                            *)
(***************************************************************************)
THEOREM AloneFailureEmpties ==
  ASSUME OneGoroutine PROVE Spec => FailureEmptiesCache
<1>1. ASSUME TypeInv, FilledByOthers, NEW t \in Thread PROVE ~storedIn[t]
  BY <1>1, OneGoroutine DEF OneGoroutine, FilledByOthers, Thread, TypeInv, ScopeInv
<1>2. TypeInv /\ FilledByOthers /\
        [\A t \in Thread :
            Validates(t) /\ Returns(t) /\ ~Usable(Answer(t)')
              => cached' = Nil \/ storedIn[t]]_mvars
      => [\A t \in Thread :
            Validates(t) /\ Returns(t) /\ ~Usable(Answer(t)') => cached' = Nil]_mvars
  BY <1>1
<1> QED BY <1>2, TypeInit, TypeNext, FilledInit, FilledNext, FailureHides, PTL
        DEF Spec, FailureHidesOlderDecisions, FailureEmptiesCache

-----------------------------------------------------------------------------
(***************************************************************************)
(* While the clock has not been moved back, neither a call nor the mark is *)
(* ahead of it.                                                            *)
(***************************************************************************)
BehindClock(t) ==
    pc[t] \in {"decide", "trust", "store"} /\ op[t] \in Validations
        => now[t] <= clock

ClockInv ==
    wentBack \/ /\ mark \in Time => mark <= clock
                /\ \A t \in Thread : BehindClock(t)

(***************************************************************************)
(* At the start nothing is ahead of the clock.                             *)
(***************************************************************************)
LEMMA ClockInit == Init => ClockInv
<1> SUFFICES ASSUME Init PROVE ClockInv
  OBVIOUS
<1>1. NoState \notin Time
  BY ManagerConstants DEF Init, Time
<1> QED BY <1>1 DEF Init, ClockInv, BehindClock

(***************************************************************************)
(* Nothing gets ahead of a clock that has not gone back.                   *)
(***************************************************************************)
LEMMA ClockNext == TypeInv /\ ClockInv /\ [Next]_mvars => ClockInv'
<1> SUFFICES ASSUME TypeInv, ClockInv, [Next]_mvars PROVE ClockInv'
  OBVIOUS
<1>1. CASE UNCHANGED mvars
  BY <1>1, SameScope DEF mvars, calls, world, ClockInv, BehindClock
<1>2. ASSUME Next PROVE ClockInv'
  <2>1. /\ Thread' = Thread /\ Time' = Time /\ MarkMoves
    BY <1>2, MarkNext, SameScope DEF Next
  <2>2. /\ Time \subseteq Int /\ Corrupt \notin Time
        /\ clock \in Int
    BY ManagerConstants DEF TypeInv, ScopeInv, TypeOK, Time
  <2>3. ASSUME NEW t \in Thread, Step(t) PROVE ClockInv'
    <3> SUFFICES ASSUME ~wentBack PROVE ClockInv'
      BY <2>3, StepIsMine DEF ClockInv
    <3>1. (mark \in Time => mark <= clock) /\ \A u \in Thread : BehindClock(u)
      BY DEF ClockInv
    <3>2. clock' = clock /\ Mine(t)
      BY <2>3, StepIsMine
    <3>3. mark' \in Time => mark' <= clock
      <4>1. CASE mark' \in {mark, Corrupt}
        BY <2>2, <3>1, <4>1
      <4>2. ASSUME NEW s \in Thread, mark # Corrupt, pc[s] = "trust", now[s] \in Time,
                   mark' = NextTrustedTime(mark, now[s])
            PROVE  mark' <= clock
        <5>1. now[s] <= clock
          BY <3>1, <4>2 DEF BehindClock, TypeInv, CallsInv, CallInv
        <5>2. mark = NoState \/ mark \in Time
          BY <4>2 DEF TypeInv, TypeOK
        <5> QED BY <2>2, <3>1, <4>2, <5>1, <5>2 DEF NextTrustedTime, Later
      <4> QED BY <2>1, <4>1, <4>2 DEF MarkMoves
    <3>4. BehindClock(t)'
      <4>1. ASSUME pc'[t] \in {"decide", "trust", "store"}
            PROVE  \/ now'[t] = clock
                   \/ /\ pc[t] \in {"decide", "trust"} /\ op'[t] = op[t]
                      /\ now'[t] = now[t]
        <5>1. CASE ReadClock(t)
          BY <4>1, <5>1 DEF ReadClock, Goto, Return, TypeInv, TypeOK
        <5>2. CASE Approve(t) \/ RollbackAccepted(t)
          BY <5>2 DEF Approve, RollbackAccepted, Goto
        <5> QED BY <2>3, <4>1, <5>1, <5>2, StepLeads DEF Leads
      <4> QED BY <2>2, <3>1, <3>2, <4>1 DEF BehindClock
    <3>5. \A u \in Thread : BehindClock(u)'
      BY <3>1, <3>2, <3>4 DEF Mine, BehindClock
    <3> QED BY <2>1, <3>2, <3>3, <3>5 DEF ClockInv
  <2>4. ASSUME NEW t \in Thread, NEW m \in Operations,
               NEW d \in Docs \cup {Nil}, NEW c \in Contexts \cup {Nil},
               Call(t, m, d, c)
        PROVE  ClockInv'
    <3>1. BehindClock(t)'
      BY <2>4, CallIsMine DEF BehindClock, Validations
    <3>2. UNCHANGED world /\ Mine(t)
      BY <2>4, CallIsMine
    <3> QED BY <2>1, <3>1, <3>2 DEF ClockInv, BehindClock, Mine, world
  <2>5. CASE Environment
    <3>1. UNCHANGED calls
      BY <2>5 DEF Environment
    <3>2. CASE MoveClock
      <4>1. /\ clock' \in Int /\ wentBack' = (wentBack \/ clock' < clock)
            /\ mark' = mark
        BY <2>2, <3>2 DEF MoveClock
      <4>2. \A u \in Thread :
              pc[u] \in {"decide", "trust", "store"} /\ op[u] \in Validations
                => now[u] \in Int
        BY <2>2 DEF TypeInv, CallsInv, CallInv
      <4> SUFFICES ASSUME ~wentBack' PROVE ClockInv'
        BY DEF ClockInv
      <4>3. ~wentBack /\ ~(clock' < clock)
        BY <4>1
      <4>4. (mark \in Time => mark <= clock) /\ \A u \in Thread : BehindClock(u)
        BY <4>3 DEF ClockInv
      <4>5. clock <= clock'
        BY <2>2, <4>1, <4>3
      <4>6. mark' \in Time => mark' <= clock'
        BY <2>2, <4>1, <4>4, <4>5
      <4>7. \A u \in Thread : BehindClock(u)'
        BY <2>2, <3>1, <4>1, <4>2, <4>4, <4>5 DEF BehindClock, calls
      <4> QED BY <2>1, <4>6, <4>7 DEF ClockInv
    <3>3. CASE RevokeKey \/ ReplaceLicense \/ DamageState
      BY <2>1, <2>2, <3>1, <3>3
      DEF RevokeKey, ReplaceLicense, DamageState, ClockInv, BehindClock, calls
    <3> QED BY <2>5, <3>2, <3>3 DEF Environment
  <2> QED BY <1>2, <2>3, <2>4, <2>5 DEF Next
<1> QED BY <1>1, <1>2

(***************************************************************************)
(* A rollback is reported only if the clock did go back, or if the call    *)
(* was overtaken by more than the store's skew.                            *)
(***************************************************************************)
THEOREM FalseAlarmsExplained == Spec => NoFalseAlarm
<1>1. ASSUME TypeInv, ClockInv, [Next]_mvars, NEW t \in Thread,
             pc[t] = "trust", Returns(t), Answer(t)' = "clock_rollback"
      PROVE  wentBack \/ clock - now[t] > Skew
  <2>1. Step(t)
    BY <1>1, ReturnsByStep
  <2>2. op[t] \in Validations /\ now[t] \in Time
    BY <1>1 DEF TypeInv, CallsInv, CallInv
  <2>3. ~storeCache(t) /\ ~StatFails(t) /\ ~ReadFails(t) /\ ~ReadClock(t) /\ ~Refuse(t)
    BY <1>1 DEF storeCache, StatFails, ReadFails, ReadClock, Refuse
  <2>4. ~RollbackFails(t)
    BY <1>1 DEF RollbackFails, Return, Answer
  <2>5. RollbackRefused(t)
    BY <1>1, <2>1, <2>2, <2>3, <2>4, ReturnMeans
  <2>6. mark \in Time /\ now[t] + Skew < mark
    BY <1>1, <2>5 DEF RollbackRefused, RolledBack, TypeInv, TypeOK
  <2>7. Time \subseteq Int /\ clock \in Int /\ Skew \in Int
    BY <1>1, ManagerConstants DEF TypeInv, ScopeInv, TypeOK, Time
  <2>8. wentBack \/ mark <= clock
    <3>1. CASE wentBack
      BY <3>1
    <3>2. CASE ~wentBack
      BY <1>1, <2>6, <3>2 DEF ClockInv
    <3> QED BY <3>1, <3>2
  <2>9. mark <= clock => clock - now[t] > Skew
    <3>1. mark \in Int /\ now[t] \in Int
      BY <2>2, <2>6, <2>7
    <3> QED BY <2>6, <2>7, <3>1
  <2> QED BY <2>8, <2>9
<1>2. TypeInv /\ ClockInv /\ [Next]_mvars =>
        [\A t \in Thread :
            pc[t] = "trust" /\ Returns(t) /\ Answer(t)' = "clock_rollback"
              => wentBack \/ clock - now[t] > Skew]_mvars
  BY <1>1
<1> QED BY <1>2, TypeInit, TypeNext, ClockInit, ClockNext, PTL
        DEF Spec, NoFalseAlarm

-----------------------------------------------------------------------------
(***************************************************************************)
(* What is on its way to the cache, in it, or was read from it, was usable *)
(* when it was checked.                                                    *)
(***************************************************************************)
Sound(r) == Usable(validate(r.payload, r.checkedAt, r.under))

SoundInv ==
    /\ cached # Nil => Sound(cached)
    /\ \A t \in Thread : pc[t] = "fresh" => Sound(result[t])

(***************************************************************************)
(* At the start there is no entry to serve.                                *)
(***************************************************************************)
LEMMA SoundInit == Init => SoundInv
BY DEF Init, SoundInv

(***************************************************************************)
(* Every step keeps what is cached, or was read from the cache, sound.     *)
(***************************************************************************)
LEMMA SoundNext ==
  TypeInv /\ DecidedInv /\ SoundInv /\ [Next]_mvars => SoundInv'
<1> SUFFICES ASSUME TypeInv, DecidedInv, SoundInv, [Next]_mvars PROVE SoundInv'
  OBVIOUS
<1>1. CASE UNCHANGED mvars
  BY <1>1, SameScope DEF mvars, calls, SoundInv, Sound
<1>2. ASSUME Next PROVE SoundInv'
  <2>1. Thread' = Thread
    BY <1>2, SameScope DEF Next
  <2>2. CASE Environment
    BY <2>1, <2>2 DEF Environment, calls, SoundInv, Sound
  <2>3. ASSUME NEW t \in Thread, NEW m \in Operations,
               NEW d \in Docs \cup {Nil}, NEW c \in Contexts \cup {Nil},
               Call(t, m, d, c)
        PROVE  SoundInv'
    BY <2>1, <2>3, CallIsMine DEF Mine, SoundInv, Sound
  <2>4. ASSUME NEW t \in Thread, Step(t) PROVE SoundInv'
    <3>1. ASSUME storeCache(t) PROVE Sound(cached)'
      <4>1. /\ pc[t] = "store" /\ cached' = result[t]
            /\ result[t].payload = doc[t].payload
            /\ result[t].under = Effective(ctx[t])
            /\ result[t].checkedAt = now[t]
        BY <3>1 DEF storeCache, TypeInv, CallsInv, CallInv
      <4>2. Approved(t)
        BY <4>1 DEF DecidedInv
      <4> QED BY <4>1, <4>2 DEF Approved, Sound
    <3>2. cached' # Nil => Sound(cached)'
      BY <2>4, <3>1, StepLeads DEF Leads, SoundInv, Sound
    <3>3. ASSUME pc'[t] = "fresh" PROVE Sound(result[t])'
      <4>1. Snapshot(t)
        BY <2>4, <3>3, StepLeads DEF Leads
      <4>2. cached # Nil /\ result'[t] = cached
        BY <3>3, <4>1 DEF Snapshot, Goto, Return, TypeInv, TypeOK
      <4> QED BY <4>2 DEF SoundInv, Sound
    <3> QED BY <2>1, <2>4, <3>2, <3>3, StepIsMine DEF Mine, SoundInv, Sound
  <2> QED BY <1>2, <2>2, <2>3, <2>4 DEF Next
<1> QED BY <1>1, <1>2

(***************************************************************************)
(* Until the instant up to which the cache serves it, a result does not    *)
(* expire.                                                                 *)
(***************************************************************************)
LEMMA NotPastEnd ==
  ASSUME NEW p, NEW at \in Int, NEW skew \in Nat, HasTimes(p),
         \/ UsableUntil([payload |-> p]) = Nil
         \/ at <= UsableUntil([payload |-> p])
  PROVE  Usable(evaluateExpiry(p, at, skew))
<1>1. Nil \notin Int /\ p.expiresAt \in Int \cup {Nil} /\ p.graceDays \in Int
  BY ManagerConstants DEF HasTimes
<1>2. Expires(p) => GraceEnd(p) \in Int
  BY <1>1, ValidatorConstants DEF GraceEnd, Expires
<1>3. UsableUntil([payload |-> p]) = IF GraceUntil(p) # Nil THEN GraceUntil(p)
                                                           ELSE p.expiresAt
  BY DEF UsableUntil
<1>4. CASE ~Expires(p)
  BY <1>4 DEF evaluateExpiry, PastExpiry, Usable
<1>5. CASE Expires(p) /\ p.graceDays > 0
  <2>1. GraceUntil(p) = GraceEnd(p) /\ GraceEnd(p) # Nil
    BY <1>1, <1>2, <1>5 DEF GraceUntil
  <2>2. at - skew <= GraceEnd(p)
    BY <1>1, <1>2, <1>3, <1>5, <2>1
  <2> QED BY <1>5, <2>2 DEF evaluateExpiry, InGrace, Usable
<1>6. CASE Expires(p) /\ ~(p.graceDays > 0)
  <2>1. UsableUntil([payload |-> p]) = p.expiresAt /\ p.expiresAt \in Int
    BY <1>1, <1>3, <1>6 DEF GraceUntil, Expires
  <2>2. ~(at - skew > p.expiresAt)
    BY <1>1, <2>1
  <2> QED BY <2>2 DEF evaluateExpiry, PastExpiry, Usable
<1> QED BY <1>4, <1>5, <1>6

(***************************************************************************)
(* Every result is of a payload with times, under a context with a skew.   *)
(***************************************************************************)
LEMMA ResultTypes ==
  ASSUME TypeInv, NEW r \in Results
  PROVE  /\ HasTimes(r.payload) /\ r.checkedAt \in Int
         /\ r.under.skew \in Nat \ {0}
<1>1. PICK d \in Documents : r.payload = d.payload
  BY DEF Results
<1>2. PICK c \in Contexts : r.under = Effective(c)
  BY DEF Results
<1>3. scope \in DOMAIN Scopes
  BY DEF TypeInv, ScopeInv
<1>4. HasTimes(d.payload)
  BY <1>3, ScopesAssumption DEF Documents, Docs, Files
<1>5. "skew" \in DOMAIN c /\ c.skew \in Int
  BY <1>3, ScopesAssumption DEF Contexts
<1>6. Effective(c).skew = IF c.skew > 0 THEN c.skew ELSE ManagerSkew
  BY <1>5 DEF Effective
<1>7. r.checkedAt \in Int
  BY <1>3, ManagerConstants DEF Results, Time
<1> QED BY <1>1, <1>2, <1>4, <1>5, <1>6, <1>7, ManagerConstants

(***************************************************************************)
(* What the cache serves, Validate would still decide at that instant,     *)
(* unless the clock went back or maintenance has lapsed.                   *)
(***************************************************************************)
THEOREM ServedStillUsable == Spec => ServedIsUsable
<1>1. ASSUME TypeInv, SoundInv, [Next]_mvars, NEW t \in Thread,
             op[t] = "CachedResult", Returns(t), Answer(t)' = "served",
             clock >= Served(t).checkedAt
      PROVE  \/ Usable(validate(Served(t).payload, clock, Served(t).under))
             \/ MaintenanceLapsed(Served(t).payload, clock, Served(t).under.skew)
  <2>1. Step(t) /\ pc[t] # "idle" /\ pc'[t] = "idle"
    BY <1>1, ReturnsByStep DEF Returns, Running
  <2>2. pc[t] \notin {"clear", "stat", "read", "clock", "decide", "trust", "store",
                      "invalidate"}
    BY <1>1 DEF Validations, TypeInv, CallsInv, CallInv
  <2>3. Snapshot(t) \/ Fresh(t)
    BY <2>1, <2>2
    DEF Step, StatFails, StatPasses, ReadFails, ReadPasses, ClearCache, ReadClock,
        Refuse, Approve, Inspect, RollbackRefused, RollbackFails, RollbackAccepted,
        storeCache, InvalidateCache
  <2> DEFINE r == Served(t)
  <2>4. /\ r \in Results /\ Sound(r)
        /\ UsableUntil(r) = Nil \/ clock <= UsableUntil(r)
    <3>1. CASE Snapshot(t)
      <4>1. pc[t] = "snapshot" /\ cached # Nil /\ UsableUntil(cached) = Nil
        BY <1>1, <2>1, <3>1 DEF Snapshot, Goto, Return, Answer, TypeInv, TypeOK
      <4>2. r = cached
        BY <4>1 DEF Served
      <4> QED BY <1>1, <4>1, <4>2 DEF SoundInv, TypeInv, TypeOK
    <3>2. CASE Fresh(t)
      <4>1. pc[t] = "fresh" /\ clock <= UsableUntil(result[t])
        BY <1>1, <3>2 DEF Fresh, Return, Answer
      <4>2. r = result[t]
        BY <4>1 DEF Served
      <4> QED BY <1>1, <4>1, <4>2 DEF SoundInv, TypeInv, CallsInv, CallInv
    <3> QED BY <2>3, <3>1, <3>2
  <2> DEFINE p == r.payload
             skew == r.under.skew
  <2>5. HasTimes(p) /\ r.checkedAt \in Int /\ skew \in Nat \ {0}
    BY <1>1, <2>4, ResultTypes
  <2>6. SkewOf(r.under) = skew
    BY <2>5 DEF SkewOf
  <2>7. clock \in Int
    BY <1>1, ManagerConstants DEF TypeInv, ScopeInv, TypeOK, Time
  <2>8. UsableUntil(r) = UsableUntil([payload |-> p])
    BY DEF UsableUntil
  <2>9. Usable(evaluateExpiry(p, clock, skew))
    BY <2>4, <2>5, <2>7, <2>8, NotPastEnd
  <2>10. ASSUME ~MaintenanceLapsed(p, clock, skew)
         PROVE  Usable(validate(p, clock, r.under))
    <3> HIDE DEF r
    <3>1. Usable(validate(p, r.checkedAt, r.under))
      BY <2>4 DEF Sound
    <3>2. r.under.skew \in Int /\ r.checkedAt <= clock
      BY <1>1, <2>5 DEF r
    <3> QED BY <2>5, <2>6, <2>7, <2>9, <2>10, <3>1, <3>2, StaysUsable,
               ManagerConstants
  <2> QED BY <2>10
<1>2. TypeInv /\ SoundInv /\ [Next]_mvars =>
        [\A t \in Thread :
          op[t] = "CachedResult" /\ Returns(t) /\ Answer(t)' = "served"
                /\ clock >= Served(t).checkedAt
             => \/ Usable(validate(Served(t).payload, clock, Served(t).under))
                \/ MaintenanceLapsed(Served(t).payload, clock,
                                     Served(t).under.skew)]_mvars
  BY <1>1
<1> QED BY <1>2, TypeInit, TypeNext, DecidedInit, DecidedNext, SoundInit,
           SoundNext, PTL DEF Spec, ServedIsUsable
=============================================================================
