------------------------------ MODULE Manager -------------------------------
(***************************************************************************)
(* pkg/license/manager.go: the facade, "safe for concurrent use".          *)
(*                                                                         *)
(* Goroutines share one Manager: its clock, key ring, anti-rollback store, *)
(* revocation provider, and the cache of the last successful validation.   *)
(* A call takes the cache mutex only for a single access, so calls run     *)
(* interleaved at every access to something shared.  The anti-rollback     *)
(* store is the one of RollbackStore.tla, whose CheckAndSave excludes      *)
(* other calls and is one step here; a power loss is studied there.        *)
(***************************************************************************)
EXTENDS Verifier, Validator, CheckRollback

CONSTANTS
    Scopes,            \* what may happen: named records of
                       \*   threads,
                       \*   docs      license documents of Verifier.tla,
                       \*   files     what the license file may be: documents,
                       \*             Missing, Unreadable,
                       \*   contexts  validation contexts of Validator.tla,
                       \*   end       a bound: instants are 0..end
    Ring,              \* the key ring at the start
    RollbackEnabled,   \* m.rollback # nil
    ManagerSkew,       \* m.skew
    ManagerRevoked,    \* m.revocation: revoked license ids
    UnscopedProduct,   \* m.unscopedProduct
    Corrupt,           \* the anti-rollback state fails its integrity check
    Missing,           \* the license file is not there
    Unreadable         \* stat or read fails for another reason

VARIABLES
    scope,        \* the name of one of Scopes
    cached,       \* m.cached: a result or Nil
    pc, op, doc, ctx, now, result,   \* each thread's call
    answer,       \* what the last step returned, and to whom
    clock,        \* what the trusted clock shows when it can be read
    ring, mark, licenseFile,
    wentBack,     \* history: the clock was moved back
    storedIn,     \* history: storedIn[t], the cache was filled during t's call
    revokedAt     \* history: revokedAt[t], the keys revoked when t's call began

calls == <<pc, op, doc, ctx, now, result>>
world == <<clock, ring, mark, licenseFile, wentBack>>
mvars == <<scope, cached, calls, answer, world, storedIn, revokedAt>>

Thread == Scopes[scope].threads
Docs == Scopes[scope].docs
Files == Scopes[scope].files
Contexts == Scopes[scope].contexts
Time == 0..Scopes[scope].end

Documents == Docs \cup (Files \ {Missing, Unreadable})

ASSUME ManagerConstants ==
    /\ \A s \in DOMAIN Scopes : Scopes[s].end \in Nat
    /\ Skew \in Nat /\ ManagerSkew \in Nat \ {0}
    /\ RollbackEnabled \in BOOLEAN
    /\ UnscopedProduct \in BOOLEAN
    /\ \A k \in DOMAIN Ring : "revoked" \in DOMAIN Ring[k]
    /\ NoState \notin Int /\ Corrupt \notin Int /\ Nil \notin Int

(***************************************************************************)
(* What is in a document, however wrong, has the types of a payload; and   *)
(* callers give a skew.                                                    *)
(***************************************************************************)
ASSUME ScopesAssumption ==
    \A s \in DOMAIN Scopes :
        /\ Nil \notin Scopes[s].docs \cup Scopes[s].files
        /\ \A d \in Scopes[s].docs \cup (Scopes[s].files \ {Missing, Unreadable}) :
              HasTimes(d.payload)
        /\ \A c \in Scopes[s].contexts : "skew" \in DOMAIN c /\ c.skew \in Int

Operations == {"Validate", "LoadAndValidate", "Inspect", "CachedResult",
               "InvalidateCache"}

TimeLimited(p) == p.licenseType # "lifetime"

(***************************************************************************)
(* ctx.Revocation and ctx.ClockSkew default to the manager's.              *)
(***************************************************************************)
Effective(c) ==
    [c EXCEPT !.revoked = IF c.revoked = Nil THEN ManagerRevoked ELSE c.revoked,
              !.skew = IF c.skew > 0 THEN c.skew ELSE ManagerSkew]

ProductScope(c) ==
    Gate(c.product # Nil \/ UnscopedProduct, "product_required")

(***************************************************************************)
(* Everything Validate decides between reading the clock and touching the  *)
(* anti-rollback state; only the ring is shared.                           *)
(***************************************************************************)
Authenticate(d) ==
    IF ParseEnvelope(d) # "ok" THEN ParseEnvelope(d) ELSE Verify(ring, d)

Decide(d, c, at) ==
    IF ProductScope(c) # "ok" THEN ProductScope(c)
    ELSE IF Authenticate(d) # "ok" THEN Authenticate(d)
    ELSE validate(d.payload, at, Effective(c))

-----------------------------------------------------------------------------
NoAnswer == [to |-> Nil, is |-> Nil]

RevokedKeys == {k \in DOMAIN ring : ring[k].revoked}

Init ==
    /\ scope \in DOMAIN Scopes
    /\ cached = Nil
    /\ pc = [t \in Thread |-> "idle"]
    /\ op = [t \in Thread |-> Nil]
    /\ doc = [t \in Thread |-> Nil]
    /\ ctx = [t \in Thread |-> Nil]
    /\ now = [t \in Thread |-> Nil]
    /\ result = [t \in Thread |-> Nil]
    /\ answer = NoAnswer
    /\ clock \in Time
    /\ ring = Ring
    /\ mark = NoState
    /\ licenseFile \in Files
    /\ wentBack = FALSE
    /\ storedIn = [t \in Thread |-> FALSE]
    /\ revokedAt = [t \in Thread |-> {}]

Goto(t, step) ==
    /\ pc' = [pc EXCEPT ![t] = step]
    /\ answer' = NoAnswer
    /\ UNCHANGED op

(***************************************************************************)
(* The call of t returns r; its local variables are gone.                  *)
(***************************************************************************)
Return(t, r) ==
    /\ pc' = [pc EXCEPT ![t] = "idle"]
    /\ op' = [op EXCEPT ![t] = Nil]
    /\ doc' = [doc EXCEPT ![t] = Nil]
    /\ ctx' = [ctx EXCEPT ![t] = Nil]
    /\ now' = [now EXCEPT ![t] = Nil]
    /\ result' = [result EXCEPT ![t] = Nil]
    /\ answer' = [to |-> t, is |-> r]

FirstStep(m) ==
    CASE m = "Validate"        -> "clear"
      [] m = "LoadAndValidate" -> "stat"
      [] m = "Inspect"         -> "decide"
      [] m = "CachedResult"    -> "snapshot"
      [] m = "InvalidateCache" -> "invalidate"

Call(t, m, d, c) ==
    /\ pc[t] = "idle"
    /\ d = Nil <=> m \notin {"Validate", "Inspect"}
    /\ c = Nil <=> m \notin {"Validate", "LoadAndValidate"}
    /\ pc' = [pc EXCEPT ![t] = FirstStep(m)]
    /\ op' = [op EXCEPT ![t] = m]
    /\ doc' = [doc EXCEPT ![t] = d]
    /\ ctx' = [ctx EXCEPT ![t] = c]
    /\ answer' = NoAnswer
    /\ UNCHANGED <<cached, now, result, world>>

-----------------------------------------------------------------------------
(***************************************************************************)
(* LoadAndValidate: stat, then read.  The file may change in between.      *)
(***************************************************************************)
FileError(f) ==
    IF f = Missing THEN "license_file_not_found"
    ELSE IF f = Unreadable THEN "malformed"
    ELSE IF f.form = "too_large" THEN "file_too_large" ELSE "ok"

(***************************************************************************)
(* A failing stat or read invalidates the cache and then returns.  What    *)
(* fails in ReadFile is malformed, also when the file has just gone; a     *)
(* file that has grown since is left to Validate.                          *)
(***************************************************************************)
StatFails(t) ==
    /\ pc[t] = "stat"
    /\ FileError(licenseFile) # "ok"
    /\ cached' = Nil
    /\ Return(t, FileError(licenseFile))
    /\ UNCHANGED world

StatPasses(t) ==
    /\ pc[t] = "stat"
    /\ FileError(licenseFile) = "ok"
    /\ Goto(t, "read")
    /\ UNCHANGED <<cached, doc, ctx, now, result, world>>

ReadFails(t) ==
    /\ pc[t] = "read"
    /\ licenseFile \in {Missing, Unreadable}
    /\ cached' = Nil
    /\ Return(t, "malformed")
    /\ UNCHANGED world

ReadPasses(t) ==
    /\ pc[t] = "read"
    /\ licenseFile \notin {Missing, Unreadable}
    /\ doc' = [doc EXCEPT ![t] = licenseFile]
    /\ Goto(t, "clear")
    /\ UNCHANGED <<cached, ctx, now, result, world>>

-----------------------------------------------------------------------------
\* Mutation of ClearCache: the cache is kept until a success.
KeepCache(t) ==
    /\ pc[t] = "clear"
    /\ Goto(t, "clock")
    /\ UNCHANGED <<cached, doc, ctx, now, result, world>>

(***************************************************************************)
(* Validate.                                                               *)
(***************************************************************************)
ClearCache(t) ==
    /\ pc[t] = "clear"
    /\ cached' = Nil
    /\ Goto(t, "clock")
    /\ UNCHANGED <<doc, ctx, now, result, world>>

\* Mutation of ReadClock: the skew is added to the time that is read.
ReadClockAhead(t) ==
    /\ pc[t] = "clock"
    /\ now' = [now EXCEPT ![t] = clock + ManagerSkew]
    /\ Goto(t, "decide")
    /\ UNCHANGED <<cached, doc, ctx, result, world>>

(***************************************************************************)
(* A TrustedTimeProvider may fail whenever it is asked.                    *)
(***************************************************************************)
ReadClock(t) ==
    /\ pc[t] = "clock"
    /\ \/ /\ now' = [now EXCEPT ![t] = clock]
          /\ Goto(t, "decide")
          /\ UNCHANGED <<doc, ctx, result>>
       \/ Return(t, "clock_rollback")
    /\ UNCHANGED <<cached, world>>

\* Mutation of AfterDecision: the type of the license is not looked at.
TrustAlways(p) == IF RollbackEnabled THEN "trust" ELSE "store"

\* Mutation of AfterDecision: anti-rollback is skipped for every type.
TrustNever(p) == "store"

(***************************************************************************)
(* The anti-rollback state is not consulted for a lifetime license.        *)
(***************************************************************************)
AfterDecision(p) ==
    IF RollbackEnabled /\ TimeLimited(p) THEN "trust" ELSE "store"

\* Mutation of Refuse: the order of docs/enUS/architecture.md, in which the
\* mark is saved once the license is authentic, before policy refuses it.
TrustFirst(t) ==
    /\ pc[t] = "decide"
    /\ op[t] # "Inspect"
    /\ LET decision == Decide(doc[t], ctx[t], now[t])
       IN  ~Usable(decision) /\ Return(t, decision)
    /\ mark' =
          IF /\ RollbackEnabled /\ ProductScope(ctx[t]) = "ok"
             /\ Authenticate(doc[t]) = "ok" /\ TimeLimited(doc[t].payload)
             /\ mark # Corrupt /\ ~RolledBack(mark, now[t])
          THEN NextTrustedTime(mark, now[t]) ELSE mark
    /\ UNCHANGED <<cached, clock, ring, licenseFile, wentBack>>

Refuse(t) ==
    /\ pc[t] = "decide"
    /\ op[t] # "Inspect"
    /\ LET decision == Decide(doc[t], ctx[t], now[t])
       IN  ~Usable(decision) /\ Return(t, decision)
    /\ UNCHANGED <<cached, world>>

Approve(t) ==
    /\ pc[t] = "decide"
    /\ op[t] # "Inspect"
    /\ LET decision == Decide(doc[t], ctx[t], now[t])
       IN  /\ Usable(decision)
           /\ result' = [result EXCEPT ![t] =
                 [payload |-> doc[t].payload, under |-> Effective(ctx[t]),
                  status |-> decision, checkedAt |-> now[t]]]
    /\ Goto(t, AfterDecision(doc[t].payload))
    /\ UNCHANGED <<cached, doc, ctx, now, world>>

(***************************************************************************)
(* Inspect verifies without policy; its clock, which may fall back to the  *)
(* local one, decides nothing.                                             *)
(***************************************************************************)
Inspect(t) ==
    /\ pc[t] = "decide"
    /\ op[t] = "Inspect"
    /\ Return(t, IF Authenticate(doc[t]) = "ok" THEN "payload"
                                               ELSE Authenticate(doc[t]))
    /\ UNCHANGED <<cached, world>>

(***************************************************************************)
(* checkAndPersistRollback: refused, or failed (with the mark already      *)
(* written when only the directory sync failed), or accepted.              *)
(***************************************************************************)
RollbackRefused(t) ==
    /\ pc[t] = "trust"
    /\ mark # Corrupt
    /\ RolledBack(mark, now[t])
    /\ Return(t, "clock_rollback")
    /\ UNCHANGED <<cached, world>>

RollbackFails(t) ==
    /\ pc[t] = "trust"
    /\ mark' = mark \/
       (mark # Corrupt /\ ~RolledBack(mark, now[t])
            /\ mark' = NextTrustedTime(mark, now[t]))
    /\ Return(t, "state_integrity_failure")
    /\ UNCHANGED <<cached, clock, ring, licenseFile, wentBack>>

RollbackAccepted(t) ==
    /\ pc[t] = "trust"
    /\ mark # Corrupt
    /\ ~RolledBack(mark, now[t])
    /\ mark' = NextTrustedTime(mark, now[t])
    /\ Goto(t, "store")
    /\ UNCHANGED <<cached, doc, ctx, now, result, clock, ring,
                   licenseFile, wentBack>>

(***************************************************************************)
(* storeCache, and Validate returns the status of the result.              *)
(***************************************************************************)
storeCache(t) ==
    /\ pc[t] = "store"
    /\ cached' = result[t]
    /\ Return(t, result[t].status)
    /\ UNCHANGED world

-----------------------------------------------------------------------------
\* Mutation of UsableUntil: only the end of grace bounds the cache.
UntilGraceOnly(r) == GraceUntil(r.payload)

(***************************************************************************)
(* CachedResult: a snapshot of the cache, and then its own look at the     *)
(* clock, unless the entry has no time-based expiry.  A clock that fails   *)
(* is a miss.                                                              *)
(***************************************************************************)
UsableUntil(r) ==
    IF GraceUntil(r.payload) # Nil THEN GraceUntil(r.payload)
                                   ELSE r.payload.expiresAt

Snapshot(t) ==
    /\ pc[t] = "snapshot"
    /\ \/ /\ cached # Nil
          /\ UsableUntil(cached) # Nil
          /\ result' = [result EXCEPT ![t] = cached]
          /\ Goto(t, "fresh")
          /\ UNCHANGED <<doc, ctx, now>>
       \/ /\ cached = Nil
          /\ Return(t, "miss")
       \/ /\ cached # Nil
          /\ UsableUntil(cached) = Nil
          /\ Return(t, "served")
    /\ UNCHANGED <<cached, world>>

Fresh(t) ==
    /\ pc[t] = "fresh"
    /\ \/ /\ clock <= UsableUntil(result[t])
          /\ Return(t, "served")
       \/ Return(t, "miss")
    /\ UNCHANGED <<cached, world>>

InvalidateCache(t) ==
    /\ pc[t] = "invalidate"
    /\ cached' = Nil
    /\ Return(t, "done")
    /\ UNCHANGED world

-----------------------------------------------------------------------------
(***************************************************************************)
(* The surroundings: the clock is moved; a key is revoked (KeyRing.Add     *)
(* replaces its entry); the license file is replaced; the anti-rollback    *)
(* file is damaged.                                                        *)
(***************************************************************************)
MoveClock ==
    /\ clock' \in Time \ {clock}
    /\ wentBack' = (wentBack \/ clock' < clock)
    /\ UNCHANGED <<ring, mark, licenseFile>>

RevokeKey ==
    /\ \E k \in DOMAIN ring :
          ring' = Add(ring, k, [ring[k] EXCEPT !.revoked = TRUE])
    /\ UNCHANGED <<clock, mark, licenseFile, wentBack>>

ReplaceLicense ==
    /\ licenseFile' \in Files
    /\ UNCHANGED <<clock, ring, mark, wentBack>>

DamageState ==
    /\ mark' = Corrupt
    /\ UNCHANGED <<clock, ring, licenseFile, wentBack>>

Environment ==
    /\ MoveClock \/ RevokeKey \/ ReplaceLicense \/ DamageState
    /\ answer' = NoAnswer
    /\ UNCHANGED <<cached, calls>>

Step(t) ==
    \/ StatFails(t) \/ StatPasses(t) \/ ReadFails(t) \/ ReadPasses(t)
    \/ ClearCache(t) \/ ReadClock(t) \/ Refuse(t) \/ Approve(t) \/ Inspect(t)
    \/ RollbackRefused(t) \/ RollbackFails(t) \/ RollbackAccepted(t)
    \/ storeCache(t)
    \/ Snapshot(t) \/ Fresh(t) \/ InvalidateCache(t)

(***************************************************************************)
(* The history variables follow what the step did to everything else.      *)
(***************************************************************************)
Running(t) == pc[t] # "idle"

History ==
    /\ storedIn' = [t \in Thread |->
          Running(t)' /\ Running(t)
             /\ (storedIn[t] \/ (cached' # cached /\ cached' # Nil))]
    /\ revokedAt' = [t \in Thread |->
          IF ~Running(t)' THEN {}
          ELSE IF Running(t) THEN revokedAt[t] ELSE RevokedKeys]

Next ==
    /\ \/ \E t \in Thread, m \in Operations, d \in Docs \cup {Nil},
             c \in Contexts \cup {Nil} : Call(t, m, d, c)
       \/ \E t \in Thread : Step(t)
       \/ Environment
    /\ History
    /\ UNCHANGED scope

Spec == Init /\ [][Next]_mvars

-----------------------------------------------------------------------------
Results == [payload : {d.payload : d \in Documents},
            under : {Effective(c) : c \in Contexts},
            status : {"valid", "grace"}, checkedAt : Time]

TypeOK ==
    /\ cached \in Results \cup {Nil}
    /\ pc \in [Thread -> {"idle", "clear", "stat", "read", "clock", "decide",
                          "trust", "store", "snapshot", "fresh", "invalidate"}]
    /\ op \in [Thread -> Operations \cup {Nil}]
    /\ doc \in [Thread -> Documents \cup {Nil}]
    /\ ctx \in [Thread -> Contexts \cup {Nil}]
    /\ now \in [Thread -> Time \cup {Nil}]
    /\ result \in [Thread -> Results \cup {Nil}]
    /\ clock \in Time /\ wentBack \in BOOLEAN
    /\ mark \in Time \cup {NoState, Corrupt}
    /\ licenseFile \in Files

Validates(t) == Running(t) /\ op[t] \in {"Validate", "LoadAndValidate"}

Returns(t) == Running(t) /\ ~Running(t)'

Answer(t) == IF answer.to = t THEN answer.is ELSE Nil

(***************************************************************************)
(* The cache never shows a time-limited license whose instant is not       *)
(* covered by the anti-rollback mark: Validate caches "only on the success *)
(* path at the very end".                                                  *)
(***************************************************************************)
CachedIsTrusted ==
    cached # Nil /\ RollbackEnabled /\ TimeLimited(cached.payload)
        => mark = Corrupt \/ (mark # NoState /\ cached.checkedAt <= mark)

(***************************************************************************)
(* "a malformed, forged, expired, revoked, product-mismatched or           *)
(* device-mismatched license can never pollute the trusted last-seen-time  *)
(* high-water mark" (manager.go:125-131): whenever the mark is moved, a    *)
(* call is under way whose license is authentic, time-limited and usable   *)
(* at exactly that instant.                                                *)
(*                                                                         *)
(* docs/enUS/architecture.md:110-120 (and docs/enUS/README.md:64) has      *)
(* another order: it loads, checks and saves the mark as its step 7,       *)
(* before revocation, time, device and product are looked at.  In that     *)
(* order an authentic license that is refused would move the mark, and     *)
(* this property, which holds of the code, would be false: the mutation    *)
(* TrustFirst of Refuse is that order.                                     *)
(***************************************************************************)
RejectedNeverWrites ==
    [][mark' # mark /\ mark' \in Time =>
          \E t \in Thread :
              /\ Validates(t) /\ doc[t] # Nil
              /\ doc[t].signed /\ doc[t].keyId \notin revokedAt[t]
              /\ TimeLimited(doc[t].payload)
              /\ Usable(validate(doc[t].payload, mark', Effective(ctx[t])))
      ]_mvars

(***************************************************************************)
(* A validation that fails never leaves an older decision readable: when   *)
(* it returns, the cache is empty, or was filled by another call while     *)
(* this one was running.                                                   *)
(***************************************************************************)
FailureHidesOlderDecisions ==
    [][\A t \in Thread :
          Validates(t) /\ Returns(t) /\ ~Usable(Answer(t)')
             => cached' = Nil \/ storedIn[t]]_mvars

(***************************************************************************)
(* The same without the allowance: "no failure branch below can leave a    *)
(* stale successful decision readable via CachedResult ... fails closed    *)
(* with an empty cache" (manager.go:133-137).                              *)
(***************************************************************************)
FailureEmptiesCache ==
    [][\A t \in Thread :
          Validates(t) /\ Returns(t) /\ ~Usable(Answer(t)') => cached' = Nil]_mvars

(***************************************************************************)
(* What CachedResult serves, Validate would still decide at that instant,  *)
(* whatever overtook the snapshot: the boundary of the cache is never      *)
(* later than the one of evaluateExpiry, with or without grace.  Excepted  *)
(* are a clock that has moved back, and the maintenance ceiling, which the *)
(* cache does not watch.                                                   *)
(***************************************************************************)
Served(t) ==
    IF pc[t] = "fresh" THEN result[t] ELSE cached

ServedIsUsable ==
    [][\A t \in Thread :
          op[t] = "CachedResult" /\ Returns(t) /\ Answer(t)' = "served"
                /\ clock >= Served(t).checkedAt
             => \/ Usable(validate(Served(t).payload, clock, Served(t).under))
                \/ MaintenanceLapsed(Served(t).payload, clock,
                                     Served(t).under.skew)]_mvars

(***************************************************************************)
(* A rollback is reported by the store only when the clock did go back, or *)
(* when the call was overtaken by more than the store's skew between its   *)
(* look at the clock and its turn in the store.                            *)
(***************************************************************************)
NoFalseAlarm ==
    [][\A t \in Thread :
          pc[t] = "trust" /\ Returns(t) /\ Answer(t)' = "clock_rollback"
             => wentBack \/ clock - now[t] > Skew]_mvars

(***************************************************************************)
(* Revocation of a key is "an immediate kill switch": no call that begins  *)
(* after it accepts a license of that key.                                 *)
(***************************************************************************)
RevokedKeyNeverAccepted ==
    [][\A t \in Thread :
          Validates(t) /\ Returns(t) /\ Usable(Answer(t)')
             => doc[t].keyId \notin revokedAt[t]]_mvars
=============================================================================
