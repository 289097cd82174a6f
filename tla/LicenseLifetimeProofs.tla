----------------------- MODULE LicenseLifetimeProofs ------------------------
(***************************************************************************)
(* Proofs about the life of a license, for every request, key ring,        *)
(* context, build and machine, and without an end of time.                 *)
(***************************************************************************)
EXTENDS LicenseLifetime, DecisionProofs

LifeInv ==
    /\ life \in Cases
    /\ doc = Signed(life) /\ doc # Nil
    /\ HasTimes(doc.payload)
    /\ ContextFields \subseteq DOMAIN ctx
    /\ ctx.skew \in Int
    /\ ctx.version \in NamedVersions \cup {Nil}
    /\ now \in Nat

(***************************************************************************)
(* A life begins with a payload and a context of their types.              *)
(***************************************************************************)
LEMMA LifeInit == Init => LifeInv
<1> SUFFICES ASSUME Init PROVE LifeInv
  OBVIOUS
<1>1. /\ life \in Cases /\ HasTimes(doc.payload) /\ now \in Nat
      /\ doc = Signed(life) /\ doc # Nil
  BY CasesAssumption DEF Init
<1>2. ctx = Presented(life, life.home)
  BY DEF Init
<1>3. /\ ContextFields \subseteq DOMAIN life.context /\ life.context.skew \in Int
      /\ life.context.version \in NamedVersions \cup {Nil}
  BY <1>1, CasesAssumption
<1>4. /\ ContextFields \subseteq DOMAIN ctx /\ ctx.skew \in Int
      /\ ctx.version \in NamedVersions \cup {Nil}
  BY <1>2, <1>3 DEF Presented, ContextFields
<1> QED BY <1>1, <1>4 DEF LifeInv

(***************************************************************************)
(* Time, upgrades and hardware keep them.                                  *)
(***************************************************************************)
LEMMA LifeNext == LifeInv /\ [Next]_lvars => LifeInv'
<1> SUFFICES ASSUME LifeInv, [Next]_lvars PROVE LifeInv'
  OBVIOUS
<1>1. CASE UNCHANGED lvars
  BY <1>1 DEF lvars, LifeInv
<1>2. CASE Tick
  BY <1>2 DEF Tick, LifeInv
<1>3. CASE Install
  <2>1. PICK v \in life.builds : ctx' = [ctx EXCEPT !.version = v]
    BY <1>3 DEF Install
  <2>2. v \in NamedVersions
    BY CasesAssumption DEF LifeInv
  <2>3. /\ ContextFields \subseteq DOMAIN ctx' /\ ctx'.skew \in Int
        /\ ctx'.version = v
    BY <2>1 DEF LifeInv, ContextFields
  <2> QED BY <1>3, <2>2, <2>3 DEF Install, LifeInv
<1>4. ASSUME NEW source \in Parts, Rewire(source) PROVE LifeInv'
  <2> DEFINE id == DeviceId(life.app, machine')
  <2>1. ctx' = [ctx EXCEPT !.device = id]
    BY <1>4 DEF Rewire
  <2>2. /\ ContextFields \subseteq DOMAIN ctx' /\ ctx'.skew \in Int
        /\ ctx'.version \in NamedVersions \cup {Nil}
    BY <2>1 DEF LifeInv, ContextFields
  <2> QED BY <1>4, <2>2 DEF Rewire, LifeInv
<1> QED BY <1>1, <1>2, <1>3, <1>4 DEF Next

-----------------------------------------------------------------------------
(***************************************************************************)
(* A decision that allows use, or one of two that differ in time only, is  *)
(* one of the policy.                                                      *)
(***************************************************************************)
LEMMA PolicyDecides ==
  ASSUME NEW l, NEW d, NEW at, NEW c
  PROVE  /\ Usable(DecisionOn(l, d, at, c)) =>
               DecisionOn(l, d, at, c) = validate(d.payload, at, c)
         /\ \A at2 :
               Usable(DecisionOn(l, d, at2, c)) =>
                  DecisionOn(l, d, at, c) = validate(d.payload, at, c)
<1>1. ~Usable(ProductScope(l, c)) \/ ProductScope(l, c) = "ok"
  BY GateFails DEF ProductScope
<1> QED BY <1>1, ParseFails, VerifyFails DEF DecisionOn

(***************************************************************************)
(* What the passing of time changes, and what it leaves alone.             *)
(***************************************************************************)
LEMMA AfterTick ==
  ASSUME LifeInv, Tick
  PROVE  /\ now \in Int /\ now' = now + 1 /\ now' \in Int /\ now <= now'
         /\ life' = life /\ doc' = doc /\ ctx' = ctx
BY DEF LifeInv, Tick

(***************************************************************************)
(* A license that has stopped working is not brought back by time.         *)
(***************************************************************************)
THEOREM NotRegained == Spec => NeverRegained
<1>1. ASSUME LifeInv, Tick, ~Usable(Decision), Usable(Decided)
      PROVE  Decision = "not_yet_valid"
  <2>1. /\ Decision = DecisionOn(life, doc, now, ctx)
        /\ Decided = DecisionOn(life, doc, now', ctx)
    BY <1>1, AfterTick DEF Decision, Decided
  <2>2. /\ Decided = validate(doc.payload, now', ctx)
        /\ Decision = validate(doc.payload, now, ctx)
    BY <1>1, <2>1, PolicyDecides
  <2> QED BY <1>1, <2>2, AfterTick, NotBegun, CasesAssumption DEF LifeInv
<1>2. LifeInv /\ [Next]_lvars =>
        [Tick /\ ~Usable(Decision) /\ Usable(Decided)
          => Decision = "not_yet_valid"]_lvars
  BY <1>1
<1> QED BY <1>2, LifeInit, LifeNext, PTL DEF Spec, NeverRegained

(***************************************************************************)
(* Grace comes after full validity and before nothing of it.               *)
(***************************************************************************)
THEOREM GraceInOrder == Spec => GraceFollowsValid
<1>1. ASSUME LifeInv, Tick, Decided = "grace"
      PROVE  Decision \in {"valid", "grace"}
  <2>1. /\ Decision = DecisionOn(life, doc, now, ctx)
        /\ Decided = DecisionOn(life, doc, now', ctx)
    BY <1>1, AfterTick DEF Decision, Decided
  <2>2. /\ Decided = validate(doc.payload, now', ctx)
        /\ Decision = validate(doc.payload, now, ctx)
    BY <1>1, <2>1, PolicyDecides DEF Usable
  <2>3. Usable(validate(doc.payload, now, ctx))
    BY <1>1, <2>2, AfterTick, GraceHasBegun, CasesAssumption DEF LifeInv
  <2> QED BY <2>2, <2>3 DEF Usable
<1>2. ASSUME LifeInv, Tick, Decision = "grace" PROVE Decided # "valid"
  <2> SUFFICES ASSUME Decided = "valid" PROVE FALSE
    OBVIOUS
  <2>1. /\ Decision = DecisionOn(life, doc, now, ctx)
        /\ Decided = DecisionOn(life, doc, now', ctx)
    BY <1>2, AfterTick DEF Decision, Decided
  <2> DEFINE p0 == doc.payload
             skew == SkewOf(ctx)
  <2>2. validate(p0, now', ctx) = "valid" /\ validate(p0, now, ctx) = "grace"
    BY <1>2, <2>1, PolicyDecides DEF Usable
  <2>3. skew \in Nat
    BY <1>2, SkewNatural DEF LifeInv
  <2>4. evaluateExpiry(p0, now', skew) = "valid"
    BY <2>2, ShutFails DEF validate, Usable
  <2>5. evaluateExpiry(p0, now, skew) = "grace"
    BY <2>2, ShutFails DEF validate, Usable
  <2>6. PastExpiry(p0, now, skew) /\ ~PastExpiry(p0, now', skew)
    BY <2>4, <2>5 DEF evaluateExpiry
  <2>7. Expires(p0) /\ p0.expiresAt \in Int
    BY <1>2, <2>6, EndTyped, CasesAssumption DEF LifeInv, PastExpiry
  <2> QED BY <1>2, <2>3, <2>6, <2>7, AfterTick DEF PastExpiry
<1>3. LifeInv /\ [Next]_lvars =>
        [Tick =>
          /\ Decided = "grace" => Decision \in {"valid", "grace"}
          /\ Decision = "grace" => Decided # "valid"]_lvars
  BY <1>1, <1>2
<1> QED BY <1>3, LifeInit, LifeNext, PTL DEF Spec, GraceFollowsValid

(***************************************************************************)
(* A lifetime license goes on working with every covered build inside its  *)
(* bounds.                                                                 *)
(***************************************************************************)
THEOREM CoveredNeverEnds == Spec => CoveredForever
<1>1. ASSUME LifeInv, Tick \/ Install, doc.payload.licenseType = "lifetime",
             Usable(Decision), Covered', InBounds'
      PROVE  Usable(Decided)
  <2> DEFINE p0 == doc.payload
             skew == SkewOf(ctx)
             before == ShutCodes(p0, now, ctx)
             codes == ShutCodes(p0, now', ctx')
  <2>1. /\ doc' = doc /\ now' \in Int /\ now \in Int /\ now <= now'
        /\ ctx'.skew = ctx.skew /\ ctx'.product = ctx.product
        /\ ctx'.device = ctx.device /\ ctx'.revoked = ctx.revoked
        /\ ctx'.version = ctx.version \/ ctx'.version # Nil
    <3>1. CASE Tick
      BY <1>1, <3>1, AfterTick
    <3>2. CASE Install
      <4>1. PICK v \in life.builds : ctx' = [ctx EXCEPT !.version = v]
        BY <3>2 DEF Install
      <4>2. v # Nil /\ ContextFields \subseteq DOMAIN ctx
        BY <1>1, CasesAssumption DEF LifeInv
      <4>3. /\ ctx'.skew = ctx.skew /\ ctx'.product = ctx.product
            /\ ctx'.device = ctx.device /\ ctx'.revoked = ctx.revoked
            /\ ctx'.version = v
        BY <4>1, <4>2 DEF ContextFields
      <4> QED BY <1>1, <3>2, <4>2, <4>3 DEF Install, LifeInv
    <3> QED BY <1>1, <3>1, <3>2
  <2>2. Decision = validate(p0, now, ctx) /\ Usable(validate(p0, now, ctx))
    BY <1>1, PolicyDecides DEF Decision
  <2>3. Decided = validate(p0, now', ctx')
    <3>1. ~Usable(ProductScope(life, ctx)) \/ ProductScope(life, ctx) = "ok"
      BY GateFails DEF ProductScope
    <3>2. /\ ProductScope(life, ctx) = "ok"
          /\ ParseEnvelope(doc) = "ok" /\ Verify(Ring, doc) = "ok"
      BY <1>1, <3>1, ParseFails, VerifyFails DEF Decision, DecisionOn
    <3>3. ProductScope(life', ctx') = "ok"
      BY <1>1, <2>1, <3>2 DEF ProductScope, Tick, Install
    <3> QED BY <2>1, <3>2, <3>3 DEF Decided, DecisionOn
  <2>4. /\ validateStatic(p0) = "ok" /\ \A i \in 1..6 : before[i] = "ok"
    BY <2>2, UsableMeans
  <2>5. skew \in Nat /\ SkewOf(ctx') = skew
    BY <1>1, <2>1, SkewNatural DEF LifeInv, SkewOf
  <2>6. codes[1] = "ok"
    <3>1. before[1] = "ok" /\ p0.issuedAt \in Int
      BY <1>1, <2>4, StaticMeans DEF LifeInv, HasTimes
    <3> QED BY <2>1, <2>5, <3>1 DEF ShutCodes, validateIssuedAtGate, Gate
  <2>7. codes[2] = "ok" /\ codes[3] = "ok" /\ codes[6] = "ok"
    <3>1. before[2] = "ok" /\ before[3] = "ok" /\ before[6] = "ok"
      BY <2>4
    <3> QED BY <2>1, <3>1
            DEF ShutCodes, validateRevocationGate, validateProductGate
  <2>8. codes[4] = "ok"
    <3>1. before[4] = "ok" /\ p0.notBefore \in Int \cup {Nil}
      BY <1>1, <2>4 DEF LifeInv, HasTimes
    <3> QED BY <2>1, <2>5, <3>1 DEF ShutCodes, validateNotBeforeGate, Gate
  <2>9. codes[5] = "ok"
    <3>1. checkVersion(p0, ctx.version, now, skew) = "ok"
      <4>1. before[5] = "ok"
        BY <2>4
      <4> QED BY <4>1 DEF ShutCodes
    <3>2. CASE ~HasVersionConstraint(p0)
      BY <3>2 DEF ShutCodes, checkVersion
    <3>3. CASE HasVersionConstraint(p0)
      <4> DEFINE bounds == checkVersionBounds(p0, ctx'.version)
                 ceiling == checkMaintenanceCeiling(p0, ctx'.version, now', skew)
                 row == <<bounds, ceiling>>
      <4>1. ctx'.version # Nil
        BY <2>1, <3>1, <3>3 DEF checkVersion
      <4>2. bounds = "ok"
        BY <1>1, <2>1 DEF InBounds, p
      <4>3. ceiling = "ok"
        BY <1>1, <2>1 DEF Covered, p, checkMaintenanceCeiling, Gate
      <4>4. FirstFailure(row) = "ok"
        BY <4>2, <4>3, PassAll
      <4> QED BY <2>5, <3>3, <4>1, <4>4 DEF ShutCodes, checkVersion
    <3> QED BY <3>2, <3>3
  <2>10. \A i \in 1..6 : codes[i] = "ok"
    BY <2>6, <2>7, <2>8, <2>9
  <2>11. Usable(evaluateExpiry(p0, now', skew))
    BY <1>1 DEF evaluateExpiry, PastExpiry, Expires, Usable
  <2> QED BY <2>3, <2>4, <2>5, <2>10, <2>11, UsableMeans
<1>2. LifeInv /\ [Next]_lvars =>
        [(Tick \/ Install) /\ p.licenseType = "lifetime" /\ Usable(Decision)
          /\ Covered' /\ InBounds'
          => Usable(Decided)]_lvars
  BY <1>1 DEF p
<1> QED BY <1>2, LifeInit, LifeNext, PTL DEF Spec, CoveredForever

-----------------------------------------------------------------------------
(***************************************************************************)
(* What the issuer returns for a request, by either way, is an envelope of *)
(* its own around a payload that bears its key id, and by Issue one that   *)
(* passes the static checks of the client.                                 *)
(***************************************************************************)
LEMMA SignedIsAnEnvelope ==
  ASSUME NEW c \in Cases, Signed(c) # Nil
  PROVE  /\ Signed(c) = NewEnvelope(SigningKey, Signed(c).payload)
         /\ Signed(c).payload.keyId = SigningKey
         /\ c.through = "Issue" => validateStatic(Signed(c).payload) = "ok"
<1> DEFINE built == BuildPayload(c.request, c.clock, FreshId)
           stamped == Stamped(SigningKey, built)
<1>1. Signed(c) = NewEnvelope(SigningKey, stamped)
  BY DEF Signed, Issue, SignPayload, SignLicenseBytes
<1>2. c.through = "Issue" => validateStatic(stamped) = "ok"
  BY DEF Signed, Issue, SignPayload
<1>3. NewEnvelope(SigningKey, stamped).payload = stamped
  BY DEF NewEnvelope
<1>4. stamped.keyId = SigningKey
  <2>1. "keyId" \in DOMAIN built
    BY CasesAssumption
  <2> HIDE DEF built
  <2> QED BY <2>1 DEF Stamped
<1> HIDE DEF built, stamped
<1> QED BY <1>1, <1>2, <1>3, <1>4

(***************************************************************************)
(* Such an envelope is refused by Verify only for its key: the client's    *)
(* verifier accepts what the issuer's signer makes.                        *)
(***************************************************************************)
THEOREM EnvelopeVerifies ==
  ASSUME NEW keys, NEW id, NEW payload, NEW d,
         d = NewEnvelope(id, payload), payload.keyId = id, payload.compact,
         LookupPublicKey(keys, id) = "ok",
         Window(keys[id], payload.issuedAt) = "ok"
  PROVE  ParseEnvelope(d) = "ok" /\ Verify(keys, d) = "ok"
<1>1. /\ d.form = "ok" /\ d.algorithm /\ d.keyId = id /\ d.encoding
      /\ d.signed /\ d.decodes /\ d.canonical /\ d.payload = payload
  BY DEF NewEnvelope
<1>2. ParseEnvelope(d) = "ok"
  <2> DEFINE form == <<Gate(d.form # "too_large", "file_too_large"),
                       Gate(d.form = "ok", "malformed")>>
  <2>1. form[1] = "ok" /\ form[2] = "ok" /\ DOMAIN form = 1..2
    BY <1>1 DEF Gate
  <2>2. \A i \in DOMAIN form : form[i] = "ok"
    BY <2>1
  <2> QED BY <2>2, PassAll DEF ParseEnvelope
<1>3. CheckKeyPolicy(keys[id], payload.issuedAt) = "ok"
  <2> DEFINE policy == <<KillSwitches(keys[id]),
                         Window(keys[id], payload.issuedAt)>>
  <2>1. policy[1] = "ok" /\ policy[2] = "ok" /\ DOMAIN policy = 1..2
    BY DEF LookupPublicKey
  <2>2. \A i \in DOMAIN policy : policy[i] = "ok"
    BY <2>1
  <2> QED BY <2>2, PassAll DEF CheckKeyPolicy
<1>4. VerifyWith(keys[id], d) = "ok"
  <2> DEFINE codes == VerifyCodes(keys[id], d)
  <2>1. /\ codes[1] = "ok" /\ codes[2] = "ok" /\ codes[3] = "ok"
        /\ codes[4] = "ok" /\ codes[5] = "ok" /\ codes[6] = "ok"
    BY <1>1, <1>3 DEF VerifyCodes, Gate
  <2>2. DOMAIN codes = 1..6
    BY DEF VerifyCodes
  <2>3. \A i \in DOMAIN codes : codes[i] = "ok"
    BY <2>1, <2>2
  <2>4. FirstFailure(codes) = "ok"
    BY <2>3, PassAll
  <2> QED BY <2>4 DEF VerifyWith, VerifyCodes
<1> QED BY <1>1, <1>2, <1>4 DEF Verify

(***************************************************************************)
(* A payload that passes the static checks ends in full days of grace, and *)
(* if it has an end at all, it expires.                                    *)
(***************************************************************************)
LEMMA StaticEnds ==
  ASSUME NEW p0, validateStatic(p0) = "ok"
  PROVE  /\ p0.graceDays \in 0..MaxGraceDays
         /\ Expires(p0) <=> p0.expiresAt # Nil
         /\ InOrder(p0.issuedAt, p0.notBefore)
<1> DEFINE codes == StaticCodes(p0)
<1>1. DOMAIN codes = 1..6 /\ FirstFailure(codes) = "ok"
  BY DEF validateStatic, StaticCodes
<1>2. codes[3] = "ok" /\ codes[6] = "ok"
  BY <1>1, AllPass DEF Checks
<1>3. validateCaps(p0) = "ok" /\ validateTimeSemantics(p0) = "ok"
  BY <1>2 DEF StaticCodes
<1>4. p0.graceDays \in 0..MaxGraceDays
  BY <1>3 DEF validateCaps, Gate
<1>5. InOrder(p0.issuedAt, p0.notBefore)
  BY <1>3 DEF validateTimeSemantics, Gate
<1> QED BY <1>4, <1>5, StaticMeans DEF Expires

(***************************************************************************)
(* The end of a license is its expiry, pushed out by the days of grace and *)
(* by the skew.                                                            *)
(***************************************************************************)
LEMMA EndOfUse ==
  ASSUME NEW p0, NEW at \in Int, NEW skew \in Nat, HasTimes(p0), Nil \notin Int,
         validateStatic(p0) = "ok"
  PROVE  Usable(evaluateExpiry(p0, at, skew)) <=>
            (p0.expiresAt # Nil => at <= p0.expiresAt + p0.graceDays * Day + skew)
<1>1. CASE p0.expiresAt = Nil
  BY <1>1 DEF evaluateExpiry, PastExpiry, Expires, Usable
<1>2. CASE p0.expiresAt # Nil
  <2> DEFINE grace == p0.graceDays * Day
  <2>1. Expires(p0) /\ p0.expiresAt \in Int /\ p0.graceDays \in Nat
    <3>1. Expires(p0) /\ p0.graceDays \in Nat
      BY <1>2, StaticEnds
    <3> QED BY <3>1, EndTyped
  <2>2. grace \in Nat /\ (p0.graceDays = 0 => grace = 0)
    BY <2>1, ValidatorConstants
  <2>3. Usable(evaluateExpiry(p0, at, skew)) <=>
          ~PastExpiry(p0, at, skew) \/ InGrace(p0, at, skew)
    BY DEF evaluateExpiry, Usable
  <2>4. PastExpiry(p0, at, skew) <=> at - skew > p0.expiresAt
    BY <2>1 DEF PastExpiry
  <2>5. InGrace(p0, at, skew) <=>
          /\ at - skew > p0.expiresAt /\ p0.graceDays > 0
          /\ at - skew <= p0.expiresAt + grace
    BY <2>4 DEF InGrace, GraceEnd
  <2> HIDE DEF grace
  <2>6. Usable(evaluateExpiry(p0, at, skew)) <=> at <= p0.expiresAt + grace + skew
    BY <2>1, <2>2, <2>3, <2>4, <2>5
  <2> QED BY <1>2, <2>6 DEF grace
<1> QED BY <1>1, <1>2

(***************************************************************************)
(* A license can be used at the instants between its start and its end,    *)
(* unless something other than time refuses it: what was issued is never   *)
(* refused for its contents.                                               *)
(***************************************************************************)
LEMMA LifeWindow == LifeInv => UsableInWindow
<1> SUFFICES ASSUME LifeInv, ~BoundElsewhere
             PROVE  Usable(Decision) <=>
                      /\ now >= Start - SkewOf(ctx)
                      /\ p.expiresAt # Nil =>
                            now <= p.expiresAt + p.graceDays * Day + SkewOf(ctx)
  BY DEF UsableInWindow
<1> DEFINE skew == SkewOf(ctx)
           codes == ShutCodes(p, now, ctx)
           ended == p.expiresAt # Nil =>
                      now <= p.expiresAt + p.graceDays * Day + skew
<1>1. /\ now \in Int /\ skew \in Nat /\ HasTimes(p) /\ Nil \notin Int
      /\ doc = Signed(life) /\ doc # Nil /\ life \in Cases
  BY SkewNatural, CasesAssumption DEF LifeInv, p
<1>2. doc = NewEnvelope(SigningKey, p) /\ p.keyId = SigningKey
  BY <1>1, SignedIsAnEnvelope DEF p
<1>3. validateStatic(p) = "ok"
  BY <1>1, SignedIsAnEnvelope DEF p, BoundElsewhere
<1>4. ParseEnvelope(doc) = "ok" /\ Verify(Ring, doc) = "ok"
  BY <1>2, EnvelopeVerifies DEF BoundElsewhere
<1>5. Decision = validate(p, now, ctx)
  BY <1>4 DEF BoundElsewhere, Decision, DecisionOn, p
<1>6. codes[2] = "ok" /\ codes[3] = "ok" /\ codes[5] = "ok" /\ codes[6] = "ok"
  BY DEF BoundElsewhere, ShutCodes, validateRevocationGate,
         validateProductGate, Gate
<1>7. codes[1] = "ok" /\ codes[4] = "ok" <=> now >= Start - skew
  <2>1. p.issuedAt \in Int /\ p.notBefore \in Int \cup {Nil}
    BY <1>1, <1>3, StaticMeans DEF HasTimes
  <2>2. p.notBefore # Nil => p.issuedAt <= p.notBefore
    BY <1>1, <1>3, <2>1, StaticEnds DEF InOrder
  <2>3. codes[1] = "ok" <=> p.issuedAt <= now + skew
    BY DEF ShutCodes, validateIssuedAtGate, Gate
  <2>4. codes[4] = "ok" <=> (p.notBefore # Nil => now + skew >= p.notBefore)
    BY DEF ShutCodes, validateNotBeforeGate, Gate
  <2> HIDE DEF codes, skew
  <2> QED BY <1>1, <2>1, <2>2, <2>3, <2>4 DEF Start
<1>8. Usable(evaluateExpiry(p, now, skew)) <=> ended
  BY <1>1, <1>3, EndOfUse
<1>9. Usable(validate(p, now, ctx)) <=>
        /\ \A i \in 1..6 : codes[i] = "ok"
        /\ Usable(evaluateExpiry(p, now, skew))
  BY <1>3, UsableMeans
<1>10. (\A i \in 1..6 : codes[i] = "ok") <=> codes[1] = "ok" /\ codes[4] = "ok"
  BY <1>6
<1> HIDE DEF codes, ended
<1>11. Usable(Decision) <=> now >= Start - skew /\ ended
  BY <1>5, <1>7, <1>8, <1>9, <1>10
<1> QED BY <1>11 DEF ended

(***************************************************************************)
(* So it is over its whole life.                                           *)
(***************************************************************************)
THEOREM UsableBetweenItsBounds == Spec => []UsableInWindow
BY LifeWindow, LifeInit, LifeNext, PTL DEF Spec

(***************************************************************************)
(* Division leaves less than the divisor.                                  *)
(***************************************************************************)
LEMMA WholeDays ==
  ASSUME NEW time \in Nat
  PROVE  /\ time \div Day \in Nat
         /\ (time \div Day) * Day <= time
         /\ time < (time \div Day + 1) * Day
<1>1. Day \in Nat /\ Day > 0
  BY ValidatorConstants
<1> DEFINE days == time \div Day
           rest == time % Day
<1>2. days \in Int /\ rest \in 0 .. Day - 1 /\ time = Day * days + rest
  BY <1>1, SMTT(60)
<1> HIDE DEF days, rest
<1>3. days \in Nat /\ days * Day <= time /\ time < (days + 1) * Day
  BY <1>1, <1>2, SMTT(60)
<1> QED BY <1>3 DEF days

(***************************************************************************)
(* The days that a result of a usable license shows: the sentinel exactly  *)
(* if it never expires, none in grace, and otherwise the whole days until  *)
(* it does, in all of which it is fully valid.                             *)
(***************************************************************************)
DaysAreThere ==
    Usable(Decision) =>
        LET days == GetRemainingDays(ValidationResult(p, now, Decision))
        IN  IF p.expiresAt = Nil THEN days = PerpetualRemainingDays
            ELSE /\ days \in Nat
                 /\ Decision = "grace" => days = 0
                 /\ p.expiresAt < now + (days + 1) * Day
                 /\ days > 0 => \A t \in now .. now + days * Day :
                       evaluateExpiry(p, t, SkewOf(ctx)) = "valid"

(***************************************************************************)
(* GetRemainingDays: what is true of its comment.  The days of a license   *)
(* that may be used are never negative, and they are never too many.  (Of  *)
(* one that has expired the result knows nothing.)                         *)
(***************************************************************************)
THEOREM DaysLeftAreThere == Spec => []DaysAreThere
<1>1. ASSUME LifeInv, Usable(Decision) PROVE DaysAreThere
  <2> DEFINE skew == SkewOf(ctx)
             r == ValidationResult(p, now, Decision)
             days == GetRemainingDays(r)
             left == p.expiresAt - now
  <2>1. now \in Int /\ skew \in Nat /\ HasTimes(p) /\ Nil \notin Int /\ Day \in Nat \ {0}
    BY <1>1, SkewNatural, CasesAssumption, ValidatorConstants DEF LifeInv, p
  <2>2. Decision = validate(p, now, ctx)
    BY <1>1, PolicyDecides DEF Decision, p
  <2>3. validateStatic(p) = "ok" /\ Decision = evaluateExpiry(p, now, skew)
    <3>1. Usable(validate(p, now, ctx))
      BY <1>1, <2>2
    <3>2. Shut(p, now, ctx) = "ok"
      BY <3>1, ShutFails DEF validate
    <3> QED BY <2>2, <3>1, <3>2, UsableMeans DEF validate
  <2>4. /\ r.licenseType = p.licenseType /\ r.expiresAt = p.expiresAt
        /\ r.checkedAt = now
    BY <1>1 DEF ValidationResult
  <2>5. NeverExpires(r) <=> p.expiresAt = Nil
    BY <2>3, <2>4, StaticMeans DEF NeverExpires
  <2> HIDE DEF r
  <2>6. CASE p.expiresAt = Nil
    BY <2>5, <2>6 DEF DaysAreThere, GetRemainingDays, r
  <2>7. CASE p.expiresAt # Nil
    <3>1. Expires(p) /\ p.expiresAt \in Int
      BY <2>1, <2>3, <2>7, StaticEnds, EndTyped
    <3>2. days = IF p.expiresAt <= now THEN 0 ELSE left \div Day
      BY <2>4, <2>5, <2>7 DEF GetRemainingDays
    <3>3. CASE p.expiresAt <= now
      <4>1. days = 0 /\ p.expiresAt < now + (days + 1) * Day
        BY <2>1, <3>1, <3>2, <3>3
      <4> QED BY <2>7, <4>1 DEF DaysAreThere, r
    <3>4. CASE p.expiresAt > now
      <4>1. left \in Nat /\ days = left \div Day
        BY <2>1, <3>1, <3>2, <3>4
      <4>2. days \in Nat /\ days * Day <= left /\ left < (days + 1) * Day
        BY <4>1, WholeDays
      <4>3. Decision # "grace"
        <5>1. ~PastExpiry(p, now, skew)
          BY <2>1, <3>1, <3>4 DEF PastExpiry
        <5> QED BY <2>3, <5>1 DEF evaluateExpiry
      <4>4. days * Day \in Nat /\ (days + 1) * Day \in Nat
        BY <2>1, <4>2
      <4> HIDE DEF days
      <4>5. p.expiresAt < now + (days + 1) * Day
        BY <2>1, <3>1, <4>2, <4>4
      <4>6. ASSUME NEW t \in now .. now + days * Day
            PROVE  evaluateExpiry(p, t, skew) = "valid"
        <5>1. ~PastExpiry(p, t, skew)
          BY <2>1, <3>1, <4>2, <4>4, <4>6 DEF PastExpiry
        <5> QED BY <5>1 DEF evaluateExpiry
      <4> QED BY <2>7, <4>2, <4>3, <4>5, <4>6 DEF DaysAreThere, days, r
    <3> QED BY <2>1, <3>1, <3>3, <3>4
  <2> QED BY <2>6, <2>7
<1>2. LifeInv => DaysAreThere
  BY <1>1 DEF DaysAreThere
<1> QED BY <1>2, LifeInit, LifeNext, PTL DEF Spec

(***************************************************************************)
(* An upgrade never falls out of the minimum of a license, nor a downgrade *)
(* out of its maximum.                                                     *)
(***************************************************************************)
THEOREM UpgradesStayAboveTheMinimum == Spec => ChangesKeepBounds
<1>1. ASSUME LifeInv
      PROVE  /\ p.minVersion \in Versions \cup {Nil}
             /\ p.maxVersion \in Versions \cup {Nil}
  BY <1>1, CasesAssumption DEF LifeInv, NamedVersions, p
<1>2. ASSUME LifeInv, LifeInv', Upgrade, p.minVersion # Nil,
             AtLeast(ctx.version, p.minVersion)
      PROVE  AtLeast(ctx'.version, p.minVersion)
  <2> DEFINE new == ctx'.version
             old == ctx.version
             bound == p.minVersion
  <2>1. old \in Versions /\ bound \in Versions /\ new \in Versions \cup {Nil}
    BY <1>1, <1>2 DEF LifeInv, NamedVersions, Upgrade
  <2>2. new \in Versions
    BY <1>2, CasesAssumption DEF Upgrade, Install, LifeInv, NamedVersions, ContextFields
  <2>3. /\ compareVersionsStrict(new, old) \in {0, 1}
        /\ compareVersionsStrict(old, bound) \in {0, 1}
    BY <1>2 DEF Upgrade, AtLeast
  <2> HIDE DEF new, old, bound
  <2>4. compareVersionsStrict(new, bound) \in {0, 1}
    BY <2>1, <2>2, <2>3, CasesAssumption, VersionsOrder
  <2> QED BY <2>4 DEF AtLeast, new, bound
<1>3. ASSUME LifeInv, LifeInv', Downgrade, p.maxVersion # Nil,
             AtMost(ctx.version, p.maxVersion)
      PROVE  AtMost(ctx'.version, p.maxVersion)
  <2> DEFINE new == ctx'.version
             old == ctx.version
             bound == p.maxVersion
  <2>1. old \in Versions /\ bound \in Versions
    BY <1>1, <1>3 DEF LifeInv, NamedVersions, Downgrade
  <2>2. new \in Versions
    BY <1>3, CasesAssumption DEF Downgrade, Install, LifeInv, NamedVersions, ContextFields
  <2>3. /\ compareVersionsStrict(new, old) \in {0, -1}
        /\ compareVersionsStrict(old, bound) \in {0, -1}
    BY <1>3 DEF Downgrade, AtMost
  <2> HIDE DEF new, old, bound
  <2>4. compareVersionsStrict(new, bound) \in {0, -1}
    BY <2>1, <2>2, <2>3, CasesAssumption, VersionsOrder
  <2> QED BY <2>4 DEF AtMost, new, bound
<1>4. LifeInv /\ LifeInv' /\ [Next]_lvars =>
        [/\ Upgrade /\ p.minVersion # Nil /\ AtLeast(ctx.version, p.minVersion)
              => AtLeast(ctx'.version, p.minVersion)
         /\ Downgrade /\ p.maxVersion # Nil /\ AtMost(ctx.version, p.maxVersion)
              => AtMost(ctx'.version, p.maxVersion)]_lvars
  BY <1>2, <1>3
<1> QED BY <1>4, LifeInit, LifeNext, PTL DEF Spec, ChangesKeepBounds

-----------------------------------------------------------------------------
(***************************************************************************)
(* Induction over the naturals, for a set of them.                         *)
(***************************************************************************)
LEMMA Induction ==
  ASSUME NEW S \in SUBSET Nat, 0 \in S, \A n \in S : n + 1 \in S
  PROVE  S = Nat
<1> SUFFICES ASSUME Nat \ S # {} PROVE FALSE
  OBVIOUS
<1> DEFINE first == Min(Nat \ S)
<1>1. first \in Nat \ S /\ \A i \in Nat \ S : first <= i
  BY FirstPosition
<1> HIDE DEF first
<1>2. first - 1 \in S
  BY <1>1
<1> QED BY <1>1, <1>2

(***************************************************************************)
(* The numbers that the digits make exist, one digit after the other.      *)
(***************************************************************************)
NumberStep(digits, number, n) ==
    IF n = 0 THEN 0 ELSE number[n - 1] * Base + digits[n]

LEMMA NumbersExist ==
  ASSUME NEW digits, NEW n \in Nat
  PROVE  \E f : f = [i \in 0..n |-> NumberStep(digits, f, i)]
<1> DEFINE Made(m) == \E f : f = [i \in 0..m |-> NumberStep(digits, f, i)]
           S == {m \in Nat : Made(m)}
<1>1. Made(0)
  <2> DEFINE f == [i \in 0..0 |-> 0]
  <2>1. f = [i \in 0..0 |-> NumberStep(digits, f, i)]
    BY DEF NumberStep
  <2> QED BY <2>1
<1>2. ASSUME NEW m \in S PROVE Made(m + 1)
  <2>1. PICK f : f = [i \in 0..m |-> NumberStep(digits, f, i)]
    OBVIOUS
  <2> DEFINE g == [i \in 0..(m + 1) |->
                     IF i <= m THEN f[i] ELSE f[m] * Base + digits[m + 1]]
  <2>2. \A i \in 0..(m + 1) : g[i] = NumberStep(digits, g, i)
    <3>1. ASSUME NEW i \in 0..m PROVE g[i] = NumberStep(digits, g, i)
      <4>1. f[i] = NumberStep(digits, f, i)
        BY <2>1
      <4>2. g[i] = f[i] /\ (i # 0 => g[i - 1] = f[i - 1])
        OBVIOUS
      <4> QED BY <4>1, <4>2 DEF NumberStep
    <3>2. g[m + 1] = f[m] * Base + digits[m + 1] /\ g[m] = f[m]
      OBVIOUS
    <3>3. (m + 1) - 1 = m /\ m + 1 # 0
      OBVIOUS
    <3>4. g[m + 1] = NumberStep(digits, g, m + 1)
      BY <3>2, <3>3 DEF NumberStep
    <3>5. \A i \in 0..(m + 1) : i \in 0..m \/ i = m + 1
      OBVIOUS
    <3> HIDE DEF g
    <3> QED BY <3>1, <3>4, <3>5
  <2>3. g = [i \in 0..(m + 1) |-> NumberStep(digits, g, i)]
    <3>1. g = [i \in 0..(m + 1) |-> g[i]]
      OBVIOUS
    <3> HIDE DEF g
    <3> QED BY <2>2, <3>1
  <2> QED BY <2>3
<1>3. S = Nat
  <2>1. 0 \in S /\ S \in SUBSET Nat
    BY <1>1
  <2>2. \A m \in S : m + 1 \in S
    BY <1>2
  <2> HIDE DEF S
  <2> QED BY <2>1, <2>2, Induction
<1> QED BY <1>3

(***************************************************************************)
(* Number computes what its recursion says: such a function exists.         *)
(***************************************************************************)
LEMMA NumberIs ==
  ASSUME NEW digits
  PROVE  /\ Number(digits)[0] = 0
         /\ \A n \in 1..maxVersionComponents :
               Number(digits)[n] = Number(digits)[n - 1] * Base + digits[n]
<1> DEFINE Makes(f) == f = [n \in 0..maxVersionComponents |->
                   IF n = 0 THEN 0 ELSE f[n - 1] * Base + digits[n]]
           number == CHOOSE f : Makes(f)
<1>1. maxVersionComponents \in Nat
  BY SemVerConstants
<1>2. \E f : Makes(f)
  BY <1>1, NumbersExist DEF NumberStep
<1>3. Makes(number)
  BY <1>2
<1>4. Number(digits) = number
  BY DEF Number
<1> HIDE DEF number
<1>5. \A n \in 0..maxVersionComponents :
        number[n] = IF n = 0 THEN 0 ELSE number[n - 1] * Base + digits[n]
  BY <1>3
<1> QED BY <1>1, <1>4, <1>5

(* The digits of numbers. *)
DigitSeqs == [1..maxVersionComponents -> 0..(Base - 1)]

(***************************************************************************)
(* The numbers are naturals.                                               *)
(***************************************************************************)
LEMMA NumberType ==
  ASSUME NEW digits \in DigitSeqs
  PROVE  \A n \in 0..maxVersionComponents : Number(digits)[n] \in Nat
<1> DEFINE number == Number(digits)
           S == {n \in Nat : n <= maxVersionComponents => number[n] \in Nat}
<1>1. maxVersionComponents \in Nat /\ Base \in Nat
  BY SemVerConstants, OrderAssumption DEF Base
<1>2. 0 \in S
  BY NumberIs
<1>3. ASSUME NEW n \in S PROVE n + 1 \in S
  <2> SUFFICES ASSUME n + 1 <= maxVersionComponents PROVE number[n + 1] \in Nat
    OBVIOUS
  <2>1. n + 1 \in 1..maxVersionComponents /\ (n + 1) - 1 = n
    BY <1>1
  <2>2. number[n + 1] = number[n] * Base + digits[n + 1]
    BY <2>1, NumberIs
  <2>3. number[n] \in Nat /\ digits[n + 1] \in Nat
    BY <1>1, <2>1 DEF DigitSeqs
  <2> HIDE DEF number
  <2> QED BY <1>1, <2>2, <2>3
<1>4. S = Nat
  <2>1. S \in SUBSET Nat /\ \A n \in S : n + 1 \in S
    BY <1>3
  <2> HIDE DEF S
  <2> QED BY <1>2, <2>1, Induction
<1> QED BY <1>1, <1>4

(***************************************************************************)
(* Where the digits of two numbers are the same up to n, and where they    *)
(* first differ before and are less there.                                 *)
(***************************************************************************)
SameUpTo(d, e, n) == \A i \in 1..n : d[i] = e[i]

LessUpTo(d, e, n) ==
    \E i \in 1..n : d[i] < e[i] /\ SameUpTo(d, e, i - 1)

LEMMA NextDigit ==
  ASSUME NEW x \in Nat, NEW y \in Nat, NEW base \in Nat,
         NEW a \in 0..(base - 1), NEW b \in 0..(base - 1), x < y
  PROVE  x * base + a < y * base + b
<1>1. PICK k \in Nat : y = x + 1 + k
  <2>1. y - x - 1 \in Nat /\ y = x + 1 + (y - x - 1)
    OBVIOUS
  <2> QED BY <2>1
<1>2. y * base = x * base + base + k * base
  BY <1>1
<1>3. k * base \in Nat /\ x * base \in Nat
  OBVIOUS
<1> QED BY <1>2, <1>3

(***************************************************************************)
(* The first digit in which two numbers differ decides which is less.      *)
(***************************************************************************)
LEMMA NumberOrder ==
  ASSUME NEW d \in DigitSeqs, NEW e \in DigitSeqs,
         NEW n \in 0..maxVersionComponents
  PROVE  /\ SameUpTo(d, e, n) => Number(d)[n] = Number(e)[n]
         /\ LessUpTo(d, e, n) => Number(d)[n] < Number(e)[n]
<1> DEFINE f == Number(d)
           g == Number(e)
           Agree(m) == /\ SameUpTo(d, e, m) => f[m] = g[m]
                       /\ LessUpTo(d, e, m) => f[m] < g[m]
           S == {m \in Nat : m <= maxVersionComponents => Agree(m)}
<1>1. maxVersionComponents \in Nat /\ Base \in Nat
  BY SemVerConstants, OrderAssumption DEF Base
<1>2. 0 \in S
  <2>1. f[0] = g[0]
    BY NumberIs
  <2>2. ~LessUpTo(d, e, 0)
    BY DEF LessUpTo
  <2> QED BY <2>1, <2>2
<1>3. ASSUME NEW m \in S PROVE m + 1 \in S
  <2> SUFFICES ASSUME m + 1 <= maxVersionComponents PROVE Agree(m + 1)
    OBVIOUS
  <2>1. m + 1 \in 1..maxVersionComponents /\ (m + 1) - 1 = m
    BY <1>1
  <2>2. /\ f[m + 1] = f[m] * Base + d[m + 1]
        /\ g[m + 1] = g[m] * Base + e[m + 1]
    BY <2>1, NumberIs
  <2>3. f[m] \in Nat /\ g[m] \in Nat
    BY <1>1, <2>1, NumberType
  <2>4. d[m + 1] \in 0..(Base - 1) /\ e[m + 1] \in 0..(Base - 1)
    BY <2>1 DEF DigitSeqs
  <2>5. Agree(m)
    BY <1>1
  <2> HIDE DEF f, g
  <2>6. ASSUME SameUpTo(d, e, m + 1) PROVE f[m + 1] = g[m + 1]
    <3>1. SameUpTo(d, e, m) /\ d[m + 1] = e[m + 1]
      BY <2>6 DEF SameUpTo
    <3> QED BY <2>2, <2>5, <3>1
  <2>7. ASSUME LessUpTo(d, e, m + 1) PROVE f[m + 1] < g[m + 1]
    <3>1. PICK i \in 1..(m + 1) : d[i] < e[i] /\ SameUpTo(d, e, i - 1)
      BY <2>7 DEF LessUpTo
    <3>2. CASE i = m + 1
      <4>1. f[m] = g[m] /\ d[m + 1] < e[m + 1]
        BY <2>5, <3>1, <3>2
      <4>2. f[m] * Base \in Nat
        BY <1>1, <2>3
      <4> QED BY <2>2, <2>4, <4>1, <4>2
    <3>3. CASE i # m + 1
      <4>1. LessUpTo(d, e, m)
        BY <3>1, <3>3 DEF LessUpTo
      <4>2. f[m] < g[m]
        BY <2>5, <4>1
      <4> QED BY <1>1, <2>2, <2>3, <2>4, <4>2, NextDigit
    <3> QED BY <3>2, <3>3
  <2> QED BY <2>6, <2>7
<1>4. S = Nat
  <2>1. S \in SUBSET Nat /\ \A m \in S : m + 1 \in S
    BY <1>3
  <2> HIDE DEF S
  <2> QED BY <1>2, <2>1, Induction
<1> QED BY <1>1, <1>4

-----------------------------------------------------------------------------
(***************************************************************************)
(* Identifiers that fit compare as their digits do, which are above that   *)
(* of an absent identifier and below that of a release.                    *)
(***************************************************************************)
FittingIdentifiers ==
    {id \in Identifiers : IF id.digits THEN InRange(id.value) ELSE id.value < Half - 1}

LEMMA IdentifierDigits ==
  ASSUME NEW a \in FittingIdentifiers, NEW b \in FittingIdentifiers
  PROVE  /\ IdentifierDigit(a) \in 1..(Base - 2)
         /\ comparePrereleaseID(a, b) = cmpUint(IdentifierDigit(a), IdentifierDigit(b))
<1>1. /\ a.digits \in BOOLEAN /\ a.value \in Nat /\ b.digits \in BOOLEAN /\ b.value \in Nat
      /\ IF a.digits THEN a.value <= MaxUint64 ELSE a.value < Half - 1
      /\ IF b.digits THEN b.value <= MaxUint64 ELSE b.value < Half - 1
  BY DEF FittingIdentifiers, Identifiers, InRange
<1>2. Half \in Nat /\ MaxUint64 \in Nat /\ MaxUint64 + 1 < Half /\ Base = 2 * Half
  BY OrderAssumption, SemVerConstants DEF Base
<1>3. /\ a.digits => ParseUint(a.value) = a.value
      /\ b.digits => ParseUint(b.value) = b.value
  BY <1>1 DEF ParseUint, InRange
<1>4. /\ IdentifierDigit(a) = IF a.digits THEN 1 + a.value ELSE Half + a.value
      /\ IdentifierDigit(b) = IF b.digits THEN 1 + b.value ELSE Half + b.value
  BY DEF IdentifierDigit
<1>5. IdentifierDigit(a) \in 1..(Base - 2)
  BY <1>1, <1>2, <1>4
<1>6. CASE a.digits /\ b.digits
  BY <1>1, <1>2, <1>3, <1>4, <1>6 DEF comparePrereleaseID, cmpUint
<1>7. CASE a.digits /\ ~b.digits
  BY <1>1, <1>2, <1>3, <1>4, <1>7 DEF comparePrereleaseID, cmpUint
<1>8. CASE ~a.digits /\ b.digits
  BY <1>1, <1>2, <1>3, <1>4, <1>8 DEF comparePrereleaseID, cmpUint
<1>9. CASE ~a.digits /\ ~b.digits
  BY <1>1, <1>2, <1>3, <1>4, <1>9 DEF comparePrereleaseID, cmpUint
<1> QED BY <1>1, <1>5, <1>6, <1>7, <1>8, <1>9

(***************************************************************************)
(* The prereleases of versions that parse and fit.                         *)
(***************************************************************************)
FittingPrereleases ==
    {pre \in Seq(FittingIdentifiers) : Len(pre) <= maxVersionComponents - 3}

LEMMA PrereleaseDigits ==
  ASSUME NEW a \in FittingPrereleases, NEW i \in 1..(maxVersionComponents - 3)
  PROVE  /\ PrereleaseDigit(a, i) \in 0..(Base - 1)
         /\ a = <<>> => PrereleaseDigit(a, i) = Base - 1
         /\ a # <<>> /\ i <= Len(a) =>
               /\ PrereleaseDigit(a, i) = IdentifierDigit(a[i])
               /\ PrereleaseDigit(a, i) \in 1..(Base - 2)
         /\ a # <<>> /\ i > Len(a) => PrereleaseDigit(a, i) = 0
<1>1. Base \in Nat /\ Base > 2
  BY OrderAssumption, SemVerConstants DEF Base
<1>2. /\ a \in Seq(FittingIdentifiers) /\ Len(a) \in Nat /\ DOMAIN a = 1..Len(a)
  BY DEF FittingPrereleases
<1>3. CASE a = <<>>
  BY <1>1, <1>3 DEF PrereleaseDigit
<1>4. CASE a # <<>> /\ i <= Len(a)
  <2>1. i \in DOMAIN a /\ a[i] \in FittingIdentifiers
    BY <1>2, <1>4
  <2>2. PrereleaseDigit(a, i) = IdentifierDigit(a[i])
    BY <1>4, <2>1 DEF PrereleaseDigit
  <2> QED BY <1>1, <1>4, <2>1, <2>2, IdentifierDigits
<1>5. CASE a # <<>> /\ i > Len(a)
  <2>1. i \notin DOMAIN a
    BY <1>2, <1>5
  <2> QED BY <1>1, <1>5, <2>1 DEF PrereleaseDigit
<1> QED BY <1>1, <1>2, <1>3, <1>4, <1>5

(***************************************************************************)
(* comparePrerelease results in the comparison of the first digit in which  *)
(* two prereleases differ: a common beginning is followed by an absent      *)
(* identifier, and a release has the highest digit.                         *)
(***************************************************************************)
LEMMA PrereleasesCompare ==
  ASSUME NEW a \in FittingPrereleases, NEW b \in FittingPrereleases
  PROVE  \/ \E i \in 1..(maxVersionComponents - 3) :
               /\ PrereleaseDigit(a, i) # PrereleaseDigit(b, i)
               /\ comparePrerelease(a, b)
                     = cmpUint(PrereleaseDigit(a, i), PrereleaseDigit(b, i))
               /\ \A j \in 1..(i - 1) : PrereleaseDigit(a, j) = PrereleaseDigit(b, j)
         \/ /\ comparePrerelease(a, b) = 0
            /\ \A i \in 1..(maxVersionComponents - 3) :
                  PrereleaseDigit(a, i) = PrereleaseDigit(b, i)
<1> DEFINE places == 1..(maxVersionComponents - 3)
           da(i) == PrereleaseDigit(a, i)
           db(i) == PrereleaseDigit(b, i)
<1>1. /\ a \in Seq(FittingIdentifiers) /\ Len(a) \in Nat /\ DOMAIN a = 1..Len(a)
      /\ b \in Seq(FittingIdentifiers) /\ Len(b) \in Nat /\ DOMAIN b = 1..Len(b)
      /\ Len(a) <= maxVersionComponents - 3 /\ Len(b) <= maxVersionComponents - 3
  BY DEF FittingPrereleases
<1>2. maxVersionComponents \in Nat /\ 1 \in places /\ Base \in Nat /\ Base > 2
  BY OrderAssumption, SemVerConstants DEF Base
<1>3. CASE a = <<>> /\ b = <<>>
  BY <1>3, PrereleaseDigits DEF comparePrerelease
<1>4. CASE a = <<>> /\ b # <<>>
  <2>1. da(1) = Base - 1 /\ db(1) \in 1..(Base - 2)
    BY <1>1, <1>2, <1>4, PrereleaseDigits
  <2>2. comparePrerelease(a, b) = 1 /\ cmpUint(da(1), db(1)) = 1
    BY <1>2, <1>4, <2>1 DEF comparePrerelease, cmpUint
  <2> QED BY <1>2, <2>1, <2>2
<1>5. CASE a # <<>> /\ b = <<>>
  <2>1. db(1) = Base - 1 /\ da(1) \in 1..(Base - 2)
    BY <1>1, <1>2, <1>5, PrereleaseDigits
  <2>2. comparePrerelease(a, b) = -1 /\ cmpUint(da(1), db(1)) = -1
    BY <1>2, <1>5, <2>1 DEF comparePrerelease, cmpUint
  <2> QED BY <1>2, <2>1, <2>2
<1>6. CASE a # <<>> /\ b # <<>>
  <2> DEFINE pairs == Pairwise(a, b)
             lengths == cmpUint(Len(a), Len(b))
  <2>1. comparePrerelease(a, b) = FirstDifference(pairs, lengths)
    BY <1>6 DEF comparePrerelease
  <2>2. DOMAIN pairs = 1..Len(a) \cap 1..Len(b)
    BY <1>1 DEF Pairwise
  <2>3. \A i \in DOMAIN pairs :
          /\ i \in places
          /\ pairs[i] = cmpUint(da(i), db(i))
          /\ da(i) \in Nat /\ db(i) \in Nat
    <3> SUFFICES ASSUME NEW i \in DOMAIN pairs
                 PROVE  /\ i \in places
                        /\ pairs[i] = cmpUint(da(i), db(i))
                        /\ da(i) \in Nat /\ db(i) \in Nat
      OBVIOUS
    <3>1. i \in places /\ i <= Len(a) /\ i <= Len(b)
      <4>1. i \in Nat /\ 1 <= i /\ i <= Len(a) /\ i <= Len(b)
        BY <1>1, <2>2
      <4> HIDE DEF pairs
      <4> QED BY <1>1, <1>2, <4>1
    <3>2. a[i] \in FittingIdentifiers /\ b[i] \in FittingIdentifiers
      BY <1>1, <2>2
    <3>3. pairs[i] = comparePrereleaseID(a[i], b[i])
      BY <1>1, <2>2 DEF Pairwise
    <3>4. /\ da(i) = IdentifierDigit(a[i]) /\ db(i) = IdentifierDigit(b[i])
          /\ da(i) \in 1..(Base - 2) /\ db(i) \in 1..(Base - 2)
      BY <1>6, <3>1, PrereleaseDigits
    <3>5. comparePrereleaseID(a[i], b[i])
            = cmpUint(IdentifierDigit(a[i]), IdentifierDigit(b[i]))
      BY <3>2, IdentifierDigits
    <3> QED BY <3>1, <3>3, <3>4, <3>5
  <2> HIDE DEF pairs, lengths, da, db
  <2>4. CASE \E i \in DOMAIN pairs :
               /\ FirstDifference(pairs, lengths) = pairs[i]
               /\ pairs[i] # 0
               /\ \A j \in DOMAIN pairs : j < i => pairs[j] = 0
    <3>1. PICK i \in DOMAIN pairs :
               /\ FirstDifference(pairs, lengths) = pairs[i]
               /\ pairs[i] # 0
               /\ \A j \in DOMAIN pairs : j < i => pairs[j] = 0
      BY <2>4
    <3>2. i \in places /\ da(i) # db(i) /\ comparePrerelease(a, b) = cmpUint(da(i), db(i))
      BY <2>1, <2>3, <3>1 DEF cmpUint
    <3>3. \A j \in 1..(i - 1) : da(j) = db(j)
      <4> SUFFICES ASSUME NEW j \in 1..(i - 1) PROVE da(j) = db(j)
        OBVIOUS
      <4>1. j \in DOMAIN pairs /\ j < i
        BY <1>1, <2>2
      <4>2. pairs[j] = 0
        BY <3>1, <4>1
      <4> QED BY <2>3, <4>1, <4>2 DEF cmpUint
    <3> QED BY <3>2, <3>3 DEF da, db
  <2>5. CASE /\ FirstDifference(pairs, lengths) = lengths
             /\ \A i \in DOMAIN pairs : pairs[i] = 0
    <3>1. \A i \in DOMAIN pairs : da(i) = db(i)
      BY <2>3, <2>5 DEF cmpUint
    <3>2. CASE Len(a) = Len(b)
      <4>1. comparePrerelease(a, b) = 0
        BY <1>1, <2>1, <2>5, <3>2 DEF lengths, cmpUint
      <4>2. ASSUME NEW i \in places PROVE da(i) = db(i)
        <5>1. CASE i <= Len(a)
          BY <1>1, <2>2, <3>1, <3>2, <5>1
        <5>2. CASE i > Len(a)
          BY <1>1, <1>6, <3>2, <5>2, PrereleaseDigits DEF da, db
        <5> QED BY <1>1, <5>1, <5>2
      <4> QED BY <4>1, <4>2 DEF da, db
    <3>3. CASE Len(a) < Len(b)
      <4> DEFINE i == Len(a) + 1
      <4>1. i \in places /\ i <= Len(b) /\ i > Len(a)
        BY <1>1, <1>2, <3>3
      <4>2. da(i) = 0 /\ db(i) \in 1..(Base - 2)
        BY <1>6, <4>1, PrereleaseDigits DEF da, db
      <4>3. comparePrerelease(a, b) = -1
        BY <1>1, <2>1, <2>5, <3>3 DEF lengths, cmpUint
      <4>4. \A j \in 1..(i - 1) : da(j) = db(j)
        BY <1>1, <2>2, <3>1, <3>3
      <4>5. comparePrerelease(a, b) = cmpUint(da(i), db(i))
        BY <1>2, <4>2, <4>3 DEF cmpUint
      <4> HIDE DEF i
      <4> QED BY <4>1, <4>2, <4>4, <4>5 DEF da, db
    <3>4. CASE Len(b) < Len(a)
      <4> DEFINE i == Len(b) + 1
      <4>1. i \in places /\ i <= Len(a) /\ i > Len(b)
        BY <1>1, <1>2, <3>4
      <4>2. db(i) = 0 /\ da(i) \in 1..(Base - 2)
        BY <1>6, <4>1, PrereleaseDigits DEF da, db
      <4>3. comparePrerelease(a, b) = 1
        BY <1>1, <2>1, <2>5, <3>4 DEF lengths, cmpUint
      <4>4. \A j \in 1..(i - 1) : da(j) = db(j)
        BY <1>1, <2>2, <3>1, <3>4
      <4>5. comparePrerelease(a, b) = cmpUint(da(i), db(i))
        BY <1>2, <4>2, <4>3 DEF cmpUint
      <4> HIDE DEF i
      <4> QED BY <4>1, <4>2, <4>4, <4>5 DEF da, db
    <3>5. Len(a) = Len(b) \/ Len(a) < Len(b) \/ Len(b) < Len(a)
      <4>1. Len(a) \in Int /\ Len(b) \in Int
        BY <1>1
      <4> QED BY <4>1
    <3> QED BY <3>2, <3>3, <3>4, <3>5
  <2>6. DOMAIN pairs \subseteq Nat
    BY <2>2
  <2> QED BY <2>4, <2>5, <2>6, FirstDifferenceIs
<1> QED BY <1>3, <1>4, <1>5, <1>6

(***************************************************************************)
(* What a version that parses and fits is made of.                         *)
(***************************************************************************)
FittingVersions == {v \in NamedVersions : Parses(v) /\ Fits(v)}

LEMMA FittingParts ==
  ASSUME NEW v \in FittingVersions
  PROVE  /\ DOMAIN parseVersion(v).core = 1..3
         /\ \A i \in 1..3 : parseVersion(v).core[i] \in 0..MaxUint64
         /\ parseVersion(v).prerelease \in FittingPrereleases
<1>1. /\ v.core \in Seq(Numerals) /\ Len(v.core) = 3
      /\ \A i \in DOMAIN v.core : parseNumericID(v.core[i])
      /\ v.pre \in Seq(Identifiers) \cup {Nil}
      /\ v.pre = Nil \/ ParsesPrerelease(v.pre)
      /\ v.pre # Nil =>
           \A i \in DOMAIN v.pre : ~v.pre[i].digits => v.pre[i].value < Half - 1
  BY DEF FittingVersions, NamedVersions, Versions, Parses
<1>2. /\ parseVersion(v).core = [i \in 1..3 |-> v.core[i].value]
      /\ parseVersion(v).prerelease = IF v.pre = Nil THEN <<>> ELSE v.pre
  BY DEF parseVersion
<1>3. ASSUME NEW i \in 1..3 PROVE parseVersion(v).core[i] \in 0..MaxUint64
  <2>1. v.core[i] \in Numerals /\ parseNumericID(v.core[i])
    BY <1>1
  <2>2. v.core[i].value \in 0..MaxUint64
    BY <2>1, SemVerConstants DEF Numerals, parseNumericID, InRange
  <2> QED BY <1>2, <2>2
<1>4. parseVersion(v).prerelease \in FittingPrereleases
  <2>1. CASE v.pre = Nil
    <3>1. <<>> \in Seq(FittingIdentifiers) /\ Len(<<>>) = 0
      OBVIOUS
    <3>2. 0 <= maxVersionComponents - 3
      BY OrderAssumption, SemVerConstants
    <3> QED BY <1>2, <2>1, <3>1, <3>2 DEF FittingPrereleases
  <2>2. CASE v.pre # Nil
    <3>1. v.pre \in Seq(Identifiers) /\ Len(v.pre) \in Nat /\ 3 + Len(v.pre) <= maxVersionComponents
      BY <1>1, <2>2 DEF ParsesPrerelease
    <3>2. \A i \in DOMAIN v.pre : v.pre[i].digits => InRange(v.pre[i].value)
      BY <1>2, <2>2 DEF FittingVersions, Fits
    <3>3. ASSUME NEW i \in 1..Len(v.pre) PROVE v.pre[i] \in FittingIdentifiers
      <4>1. i \in DOMAIN v.pre /\ v.pre[i] \in Identifiers
        BY <3>1
      <4> QED BY <1>1, <2>2, <3>2, <4>1 DEF FittingIdentifiers
    <3>4. v.pre \in Seq(FittingIdentifiers)
      BY <3>1, <3>3
    <3>5. Len(v.pre) <= maxVersionComponents - 3
      BY <3>1, OrderAssumption, SemVerConstants
    <3> QED BY <1>2, <2>2, <3>4, <3>5 DEF FittingPrereleases
  <2> QED BY <2>1, <2>2
<1> QED BY <1>2, <1>3, <1>4

(***************************************************************************)
(* Its digits are digits: none reaches the base.                            *)
(***************************************************************************)
LEMMA DigitsType ==
  ASSUME NEW v \in FittingVersions
  PROVE  Digits(v) \in DigitSeqs
<1> DEFINE core == parseVersion(v).core
           pre == parseVersion(v).prerelease
<1>1. /\ \A i \in 1..3 : core[i] \in 0..MaxUint64
      /\ pre \in FittingPrereleases
  BY FittingParts
<1>2. /\ maxVersionComponents \in Nat /\ Base \in Nat /\ MaxUint64 \in Nat
      /\ MaxUint64 <= Base - 1
  BY OrderAssumption, SemVerConstants DEF Base
<1>3. Digits(v) = [i \in 1..maxVersionComponents |->
                     IF i <= 3 THEN core[i] ELSE PrereleaseDigit(pre, i - 3)]
  BY DEF Digits
<1> HIDE DEF core, pre
<1>4. ASSUME NEW i \in 1..maxVersionComponents
      PROVE  (IF i <= 3 THEN core[i] ELSE PrereleaseDigit(pre, i - 3)) \in 0..(Base - 1)
  <2>1. CASE i <= 3
    BY <1>1, <1>2, <2>1
  <2>2. CASE ~(i <= 3)
    <3>1. i - 3 \in 1..(maxVersionComponents - 3)
      BY <1>2, <2>2
    <3> QED BY <1>1, <2>2, <3>1, PrereleaseDigits
  <2> QED BY <2>1, <2>2
<1> QED BY <1>3, <1>4 DEF DigitSeqs

(***************************************************************************)
(* compareVersionsStrict results in the comparison of the first digit in   *)
(* which two versions differ.                                              *)
(***************************************************************************)
LEMMA VersionsCompare ==
  ASSUME NEW a \in FittingVersions, NEW b \in FittingVersions
  PROVE  \/ \E i \in 1..maxVersionComponents :
               /\ Digits(a)[i] # Digits(b)[i]
               /\ compareVersionsStrict(a, b) = cmpUint(Digits(a)[i], Digits(b)[i])
               /\ SameUpTo(Digits(a), Digits(b), i - 1)
         \/ /\ compareVersionsStrict(a, b) = 0
            /\ SameUpTo(Digits(a), Digits(b), maxVersionComponents)
<1> DEFINE ca == parseVersion(a).core
           cb == parseVersion(b).core
           pa == parseVersion(a).prerelease
           pb == parseVersion(b).prerelease
           cores == [i \in 1..3 |-> cmpUint(ca[i], cb[i])]
           da == Digits(a)
           db == Digits(b)
           c == compareVersionsStrict(a, b)
<1>1. /\ maxVersionComponents \in Nat /\ 3 < maxVersionComponents /\ MaxUint64 \in Nat
  BY OrderAssumption, SemVerConstants
<1>2. /\ \A i \in 1..3 : ca[i] \in Nat /\ cb[i] \in Nat
      /\ pa \in FittingPrereleases /\ pb \in FittingPrereleases
  BY <1>1, FittingParts
<1>3. /\ \A i \in 1..3 : da[i] = ca[i] /\ db[i] = cb[i]
      /\ \A i \in 4..maxVersionComponents :
           da[i] = PrereleaseDigit(pa, i - 3) /\ db[i] = PrereleaseDigit(pb, i - 3)
  BY <1>1 DEF Digits
<1>4. c = FirstDifference(cores, comparePrerelease(pa, pb))
  BY DEF compareVersionsStrict, compare, FittingVersions
<1>5. DOMAIN cores = 1..3 /\ \A i \in 1..3 : cores[i] = cmpUint(ca[i], cb[i])
  OBVIOUS
<1> HIDE DEF ca, cb, pa, pb, cores, da, db, c
<1>6. CASE \E i \in DOMAIN cores :
               /\ FirstDifference(cores, comparePrerelease(pa, pb)) = cores[i]
               /\ cores[i] # 0
               /\ \A j \in DOMAIN cores : j < i => cores[j] = 0
  <2>1. PICK i \in 1..3 :
               /\ FirstDifference(cores, comparePrerelease(pa, pb)) = cores[i]
               /\ cores[i] # 0
               /\ \A j \in DOMAIN cores : j < i => cores[j] = 0
    BY <1>5, <1>6
  <2>2. i \in 1..maxVersionComponents
    BY <1>1
  <2>3. da[i] # db[i] /\ c = cmpUint(da[i], db[i])
    BY <1>2, <1>3, <1>4, <1>5, <2>1 DEF cmpUint
  <2>4. ASSUME NEW j \in 1..(i - 1) PROVE da[j] = db[j]
    <3>1. j \in 1..3 /\ j < i
      OBVIOUS
    <3>2. cmpUint(ca[j], cb[j]) = 0
      BY <1>5, <2>1, <3>1
    <3> QED BY <1>2, <1>3, <3>1, <3>2 DEF cmpUint
  <2> QED BY <2>2, <2>3, <2>4 DEF da, db, c, SameUpTo
<1>7. CASE /\ FirstDifference(cores, comparePrerelease(pa, pb)) = comparePrerelease(pa, pb)
           /\ \A i \in DOMAIN cores : cores[i] = 0
  <2>1. \A i \in 1..3 : da[i] = db[i]
    BY <1>2, <1>3, <1>5, <1>7 DEF cmpUint
  <2>2. CASE \E i \in 1..(maxVersionComponents - 3) :
               /\ PrereleaseDigit(pa, i) # PrereleaseDigit(pb, i)
               /\ comparePrerelease(pa, pb)
                     = cmpUint(PrereleaseDigit(pa, i), PrereleaseDigit(pb, i))
               /\ \A j \in 1..(i - 1) : PrereleaseDigit(pa, j) = PrereleaseDigit(pb, j)
    <3>1. PICK i \in 1..(maxVersionComponents - 3) :
               /\ PrereleaseDigit(pa, i) # PrereleaseDigit(pb, i)
               /\ comparePrerelease(pa, pb)
                     = cmpUint(PrereleaseDigit(pa, i), PrereleaseDigit(pb, i))
               /\ \A j \in 1..(i - 1) : PrereleaseDigit(pa, j) = PrereleaseDigit(pb, j)
      BY <2>2
    <3>2. /\ i + 3 \in 4..maxVersionComponents /\ (i + 3) - 3 = i
          /\ i + 3 \in 1..maxVersionComponents
      BY <1>1
    <3>3. da[i + 3] # db[i + 3] /\ c = cmpUint(da[i + 3], db[i + 3])
      BY <1>3, <1>4, <1>7, <3>1, <3>2
    <3>4. ASSUME NEW j \in 1..((i + 3) - 1) PROVE da[j] = db[j]
      <4>1. CASE j <= 3
        BY <2>1, <4>1
      <4>2. CASE ~(j <= 3)
        <5>1. j \in 4..maxVersionComponents /\ j - 3 \in 1..(i - 1)
          BY <1>1, <4>2
        <5> QED BY <1>3, <3>1, <5>1
      <4> QED BY <4>1, <4>2
    <3> QED BY <3>2, <3>3, <3>4 DEF da, db, c, SameUpTo
  <2>3. CASE /\ comparePrerelease(pa, pb) = 0
             /\ \A i \in 1..(maxVersionComponents - 3) :
                  PrereleaseDigit(pa, i) = PrereleaseDigit(pb, i)
    <3>1. ASSUME NEW j \in 1..maxVersionComponents PROVE da[j] = db[j]
      <4>1. CASE j <= 3
        BY <2>1, <4>1
      <4>2. CASE ~(j <= 3)
        <5>1. j \in 4..maxVersionComponents /\ j - 3 \in 1..(maxVersionComponents - 3)
          BY <1>1, <4>2
        <5> QED BY <1>3, <2>3, <5>1
      <4> QED BY <4>1, <4>2
    <3> QED BY <1>4, <1>7, <2>3, <3>1 DEF da, db, c, SameUpTo
  <2> QED BY <1>2, <2>2, <2>3, PrereleasesCompare
<1>8. DOMAIN cores \subseteq Nat
  BY <1>5
<1> QED BY <1>6, <1>7, <1>8, FirstDifferenceIs

(***************************************************************************)
(* compareVersionsStrict: versions whose numbers fit in a uint64 compare   *)
(* as their places on the line that clause 11 of SemVer puts them on,      *)
(* however many identifiers they have: the code agrees with the reference. *)
(***************************************************************************)
THEOREM PrecedenceIsPlace ==
  ASSUME NEW a \in NamedVersions, NEW b \in NamedVersions,
         Parses(a), Parses(b), Fits(a), Fits(b)
  PROVE  /\ Place(a) \in Nat /\ Place(b) \in Nat
         /\ compareVersionsStrict(a, b) = cmpUint(Place(a), Place(b))
<1> DEFINE last == maxVersionComponents
           da == Digits(a)
           db == Digits(b)
           c == compareVersionsStrict(a, b)
<1>1. a \in FittingVersions /\ b \in FittingVersions
  BY DEF FittingVersions
<1>2. da \in DigitSeqs /\ db \in DigitSeqs
  BY <1>1, DigitsType
<1>3. last \in Nat /\ last \in 0..last /\ Base \in Nat
  BY OrderAssumption, SemVerConstants DEF Base
<1>4. Place(a) = Number(da)[last] /\ Place(b) = Number(db)[last]
  BY DEF Place
<1>5. Place(a) \in Nat /\ Place(b) \in Nat
  BY <1>2, <1>3, <1>4, NumberType
<1>6. /\ SameUpTo(da, db, last) => Place(a) = Place(b)
      /\ LessUpTo(da, db, last) => Place(a) < Place(b)
      /\ LessUpTo(db, da, last) => Place(b) < Place(a)
  BY <1>2, <1>3, <1>4, NumberOrder
<1>7. \/ \E i \in 1..last : /\ da[i] # db[i]
                            /\ c = cmpUint(da[i], db[i])
                            /\ SameUpTo(da, db, i - 1)
      \/ c = 0 /\ SameUpTo(da, db, last)
  BY <1>1, VersionsCompare
<1> HIDE DEF da, db, c, last
<1>8. CASE \E i \in 1..last : /\ da[i] # db[i]
                              /\ c = cmpUint(da[i], db[i])
                              /\ SameUpTo(da, db, i - 1)
  <2>1. PICK i \in 1..last : /\ da[i] # db[i]
                             /\ c = cmpUint(da[i], db[i])
                             /\ SameUpTo(da, db, i - 1)
    BY <1>8
  <2>2. da[i] \in Nat /\ db[i] \in Nat
    BY <1>2, <1>3 DEF DigitSeqs, last
  <2>3. SameUpTo(db, da, i - 1)
    BY <2>1 DEF SameUpTo
  <2>4. CASE da[i] < db[i]
    <3>1. LessUpTo(da, db, last) /\ c = -1
      BY <2>1, <2>4 DEF LessUpTo, cmpUint
    <3> QED BY <1>5, <1>6, <3>1 DEF cmpUint, c
  <2>5. CASE db[i] < da[i]
    <3>1. LessUpTo(db, da, last)
      BY <2>3, <2>5 DEF LessUpTo
    <3>2. c = 1
      BY <2>1, <2>2, <2>5 DEF cmpUint
    <3> QED BY <1>5, <1>6, <3>1, <3>2 DEF cmpUint, c
  <2> QED BY <2>1, <2>2, <2>4, <2>5
<1>9. CASE c = 0 /\ SameUpTo(da, db, last)
  BY <1>5, <1>6, <1>9 DEF cmpUint, c
<1> QED BY <1>7, <1>8, <1>9

(***************************************************************************)
(* As long as the numbers of the strings fit in a uint64, a build is       *)
(* inside the bounds of its license exactly when SemVer puts it there.     *)
(***************************************************************************)
THEOREM BoundsAreThoseOfSemVer == Spec => []BoundsAreSemVer
<1>1. ASSUME NEW a \in NamedVersions, NEW b \in NamedVersions,
             Parses(a) => Fits(a), Parses(b) => Fits(b)
      PROVE  /\ AtLeast(a, b) <=> Parses(a) /\ Parses(b) /\ Place(b) <= Place(a)
             /\ AtMost(a, b) <=> Parses(a) /\ Parses(b) /\ Place(a) <= Place(b)
  <2>1. CASE Parses(a) /\ Parses(b)
    <3>1. /\ Place(a) \in Nat /\ Place(b) \in Nat
          /\ compareVersionsStrict(a, b) = cmpUint(Place(a), Place(b))
      BY <1>1, <2>1, PrecedenceIsPlace
    <3>2. /\ cmpUint(Place(a), Place(b)) \in {0, 1} <=> Place(b) <= Place(a)
          /\ cmpUint(Place(a), Place(b)) \in {-1, 0} <=> Place(a) <= Place(b)
      BY <3>1 DEF cmpUint
    <3> QED BY <2>1, <3>1, <3>2 DEF AtLeast, AtMost
  <2>2. CASE ~(Parses(a) /\ Parses(b))
    <3>1. compareVersionsStrict(a, b) = Nil
      BY <2>2 DEF compareVersionsStrict
    <3>2. Nil \notin {0, 1} /\ Nil \notin {-1, 0}
      BY CasesAssumption
    <3> QED BY <2>2, <3>1, <3>2 DEF AtLeast, AtMost
  <2> QED BY <2>1, <2>2
<1>2. ASSUME LifeInv, \A v \in Texts : Parses(v) => Fits(v), ctx.version # Nil
      PROVE  InBounds <=> Within(ctx.version, p.minVersion, p.maxVersion)
  <2>1. /\ p.minVersion \in NamedVersions \cup {Nil}
        /\ p.maxVersion \in NamedVersions \cup {Nil}
        /\ ctx.version \in NamedVersions
    BY <1>2, CasesAssumption DEF LifeInv, p
  <2>2. /\ Parses(ctx.version) => Fits(ctx.version)
        /\ p.minVersion # Nil /\ Parses(p.minVersion) => Fits(p.minVersion)
        /\ p.maxVersion # Nil /\ Parses(p.maxVersion) => Fits(p.maxVersion)
    BY <1>2 DEF Texts
  <2>3. p.minVersion # Nil =>
          (AtLeast(ctx.version, p.minVersion)
             <=> /\ Parses(ctx.version) /\ Parses(p.minVersion)
                 /\ Place(p.minVersion) <= Place(ctx.version))
    BY <1>1, <2>1, <2>2
  <2>4. p.maxVersion # Nil =>
          (AtMost(ctx.version, p.maxVersion)
             <=> /\ Parses(ctx.version) /\ Parses(p.maxVersion)
                 /\ Place(ctx.version) <= Place(p.maxVersion))
    BY <1>1, <2>1, <2>2
  <2> QED BY <2>3, <2>4 DEF InBounds, checkVersionBounds, Gate, Within
<1>3. LifeInv => BoundsAreSemVer
  BY <1>2 DEF BoundsAreSemVer, BoundsAgree
<1> QED BY <1>3, LifeInit, LifeNext, PTL DEF Spec

-----------------------------------------------------------------------------
(***************************************************************************)
(* The sources of a platform: each has a category of its own, a place of   *)
(* its own in the priority, and shares no place to read with another.      *)
(***************************************************************************)
WellSorted(table, priority) ==
    /\ DOMAIN table \subseteq Nat
    /\ \A i \in DOMAIN table :
          /\ table[i].category \in Categories
          /\ Rank(priority, table[i].category) \in Nat
          /\ DOMAIN table[i].from = 1..Len(table[i].from)
    /\ \A i, j \in DOMAIN table :
          /\ table[i].category = table[j].category => i = j
          /\ Rank(priority, table[i].category) = Rank(priority, table[j].category)
                => i = j
    /\ \A i, j \in DOMAIN table :
          \A s : Contains(table[i].from, s) /\ Contains(table[j].from, s) => i = j

(***************************************************************************)
(* So are the sources of all platforms.                                    *)
(***************************************************************************)
LEMMA SourcesTable ==
  ASSUME NEW platform \in DOMAIN Sources
  PROVE  WellSorted(Sources[platform], primaryCategoryPriority[platform])
<1>1. platform \in {"linux", "darwin", "windows", "other"}
  BY DEF Sources
<1>2. CASE platform = "linux"
  <2> DEFINE table == Sources[platform]
             order == primaryCategoryPriority[platform]
  <2>1. table = <<[category |-> "machine_id",
                   from |-> <<"/etc/machine-id", "/var/lib/dbus/machine-id">>],
                  [category |-> "board_uuid", from |-> <<"board_serial">>],
                  [category |-> "product_uuid", from |-> <<"product_uuid">>]>>
    BY <1>2 DEF Sources
  <2>2. order = <<"machine_id", "product_uuid", "board_uuid">>
    BY <1>2 DEF primaryCategoryPriority
  <2>3. /\ DOMAIN table = {1, 2, 3} /\ table[1].category = "machine_id"
        /\ table[2].category = "board_uuid" /\ table[3].category = "product_uuid"
        /\ table[1].from = <<"/etc/machine-id", "/var/lib/dbus/machine-id">>
        /\ table[2].from = <<"board_serial">> /\ table[3].from = <<"product_uuid">>
    BY <2>1
  <2>4. /\ DOMAIN order = 1..3 /\ Len(order) = 3 /\ order[1] = "machine_id"
        /\ order[2] = "product_uuid" /\ order[3] = "board_uuid"
    BY <2>2
  <2> HIDE DEF table, order
  <2>5. /\ Rank(order, "machine_id") = 1 /\ Rank(order, "product_uuid") = 2
        /\ Rank(order, "board_uuid") = 3
    BY <2>4 DEF Rank, Contains
  <2>6. \A s : /\ Contains(table[1].from, s) <=>
                      s \in {"/etc/machine-id", "/var/lib/dbus/machine-id"}
               /\ Contains(table[2].from, s) <=> s = "board_serial"
               /\ Contains(table[3].from, s) <=> s = "product_uuid"
    BY <2>3 DEF Contains
  <2>7. \A i \in {1, 2, 3} : DOMAIN table[i].from = 1..Len(table[i].from)
    BY <2>3
  <2>8. \A i \in DOMAIN table :
          /\ table[i].category \in Categories
          /\ Rank(order, table[i].category) \in Nat
          /\ DOMAIN table[i].from = 1..Len(table[i].from)
    BY <2>3, <2>5, <2>7 DEF Categories
  <2>9. \A i, j \in DOMAIN table :
          /\ table[i].category = table[j].category => i = j
          /\ Rank(order, table[i].category) = Rank(order, table[j].category) => i = j
    BY <2>3, <2>5
  <2>10. \A i, j \in DOMAIN table :
           \A s : Contains(table[i].from, s) /\ Contains(table[j].from, s) => i = j
    BY <2>3, <2>6
  <2>11. DOMAIN table \subseteq Nat
    BY <2>3
  <2>12. WellSorted(table, order)
    BY <2>8, <2>9, <2>10, <2>11 DEF WellSorted
  <2> QED BY <2>12 DEF table, order
<1>3. CASE platform \in {"darwin", "windows"}
  <2> DEFINE table == Sources[platform]
             order == primaryCategoryPriority[platform]
  <2>1. PICK category \in Categories :
          /\ \E place : table = <<[category |-> category, from |-> <<place>>]>>
          /\ order = <<category>>
    <3>1. CASE platform = "darwin"
      <4>1. table = <<[category |-> "platform_uuid", from |-> <<"IOPlatformUUID">>]>>
        BY <3>1 DEF Sources
      <4>2. order = <<"platform_uuid">> /\ "platform_uuid" \in Categories
        BY <3>1 DEF primaryCategoryPriority, Categories
      <4> HIDE DEF table, order
      <4> QED BY <4>1, <4>2
    <3>2. CASE platform = "windows"
      <4>1. table = <<[category |-> "machine_guid", from |-> <<"MachineGuid">>]>>
        BY <3>2 DEF Sources
      <4>2. order = <<"machine_guid">> /\ "machine_guid" \in Categories
        BY <3>2 DEF primaryCategoryPriority, Categories
      <4> HIDE DEF table, order
      <4> QED BY <4>1, <4>2
    <3> QED BY <1>3, <3>1, <3>2
  <2> HIDE DEF table, order
  <2>2. /\ DOMAIN table = {1} /\ table[1].category = category
        /\ DOMAIN table[1].from = 1..Len(table[1].from)
    BY <2>1
  <2>3. Rank(order, category) = 1
    BY <2>1 DEF Rank, Contains
  <2>4. /\ DOMAIN table \subseteq Nat /\ \A i, j \in DOMAIN table : i = j
        /\ \A i \in DOMAIN table :
              /\ table[i].category \in Categories
              /\ Rank(order, table[i].category) \in Nat
              /\ DOMAIN table[i].from = 1..Len(table[i].from)
    BY <2>2, <2>3
  <2>5. WellSorted(table, order)
    BY <2>4 DEF WellSorted
  <2> QED BY <2>5 DEF table, order
<1>4. CASE platform = "other"
  BY <1>4 DEF Sources, WellSorted
<1> QED BY <1>1, <1>2, <1>3, <1>4

(***************************************************************************)
(* The category and the rank of what is collected at a place.              *)
(***************************************************************************)
CategoryAt(m, i) == Sources[m.platform][i].category

RankAt(m, i) == Rank(primaryCategoryPriority[m.platform], CategoryAt(m, i))

(***************************************************************************)
(* What is collected at a place is what its source shows, has an           *)
(* identifier, and is what the machine is known by in its category.        *)
(***************************************************************************)
LEMMA CollectedMeans ==
  ASSUME NEW m, IsMachine(m), NEW i \in DOMAIN collectComponents(m)
  PROVE  /\ i \in DOMAIN Sources[m.platform]
         /\ collectComponents(m)[i] =
              [category |-> CategoryAt(m, i),
               value |-> Shown(m, Sources[m.platform][i])]
         /\ Shown(m, Sources[m.platform][i]).id # Nil
         /\ Identifier(m, CategoryAt(m, i)) = Shown(m, Sources[m.platform][i]).id
<1> DEFINE table == Sources[m.platform]
           showing == {j \in DOMAIN table :
                         table[j].category = CategoryAt(m, i)
                           /\ Showing(m, table[j]) # {}}
<1>1. /\ m.platform \in DOMAIN Sources
      /\ \A source \in ToSet(table) : ToSet(source.from) \subseteq DOMAIN m.reads
      /\ \A s \in DOMAIN m.reads : m.reads[s] # Nil => m.reads[s].id # Nil
  BY DEF IsMachine
<1>2. WellSorted(table, primaryCategoryPriority[m.platform])
  BY <1>1, SourcesTable
<1>3. /\ i \in DOMAIN table /\ Showing(m, table[i]) # {}
      /\ collectComponents(m)[i] = [category |-> CategoryAt(m, i),
                                    value |-> Shown(m, table[i])]
  BY DEF collectComponents, CategoryAt
<1>4. Shown(m, table[i]).id # Nil
  <2> DEFINE places == table[i].from
             k == Min(Showing(m, table[i]))
  <2>1. Showing(m, table[i]) \in SUBSET Nat
    BY <1>2, <1>3 DEF Showing, WellSorted
  <2>2. k \in Showing(m, table[i])
    BY <1>3, <2>1, FirstPosition
  <2>3. k \in DOMAIN places /\ m.reads[places[k]] # Nil
    BY <2>2 DEF Showing
  <2>4. places[k] \in DOMAIN m.reads
    BY <1>1, <1>3, <2>3 DEF ToSet
  <2> QED BY <1>1, <2>3, <2>4 DEF Shown
<1>5. showing = {i}
  BY <1>2, <1>3 DEF WellSorted, CategoryAt
<1>6. Min(showing) = i
  <2>1. showing \in SUBSET Nat /\ showing # {}
    BY <1>2, <1>3, <1>5 DEF WellSorted
  <2> HIDE DEF showing
  <2> QED BY <1>5, <2>1, FirstPosition
<1>7. Identifier(m, CategoryAt(m, i)) = Shown(m, table[i]).id
  BY <1>5, <1>6 DEF Identifier
<1> QED BY <1>3, <1>4, <1>7

(***************************************************************************)
(* And nothing else identifies a machine.                                  *)
(***************************************************************************)
LEMMA IdentifierMeans ==
  ASSUME NEW m, NEW category, Identifier(m, category) # Nil
  PROVE  \E i \in DOMAIN collectComponents(m) : CategoryAt(m, i) = category
BY DEF Identifier, collectComponents, CategoryAt

(***************************************************************************)
(* The places of the components that are no placeholders, the one of the   *)
(* least rank among them, and the component that the code takes.           *)
(***************************************************************************)
Genuinely(m) == Genuine(collectComponents(m))

PrimaryAt(m, i) ==
    /\ i \in Genuinely(m)
    /\ \A j \in Genuinely(m) \ {i} : RankAt(m, i) < RankAt(m, j)

Primary(m) ==
    primaryComponent(collectComponents(m), primaryCategoryPriority[m.platform])

(***************************************************************************)
(* A component is no placeholder if the machine is not known by a          *)
(* placeholder in its category.                                            *)
(***************************************************************************)
LEMMA GenuineMeans ==
  ASSUME NEW m, IsMachine(m), NEW i
  PROVE  i \in Genuinely(m) <=>
            /\ i \in DOMAIN collectComponents(m)
            /\ Identifier(m, CategoryAt(m, i)) \notin Placeholders
BY CollectedMeans DEF Genuinely, Genuine, isPlaceholderValue, normalize

(***************************************************************************)
(* Unless all components are placeholders one of them has the least rank,  *)
(* and the code takes it.                                                  *)
(***************************************************************************)
LEMMA PrimaryMeans ==
  ASSUME NEW m, IsMachine(m)
  PROVE  /\ Genuinely(m) # {} => \E i : PrimaryAt(m, i)
         /\ \A i : PrimaryAt(m, i) => Primary(m) = collectComponents(m)[i]
<1> DEFINE C == collectComponents(m)
           rank(i) == Rank(primaryCategoryPriority[m.platform], C[i].category)
           before(i, j) == rank(i) < rank(j) \/ (rank(i) = rank(j) /\ i < j)
<1>1. \A i \in Genuinely(m) : /\ i \in DOMAIN Sources[m.platform]
                              /\ rank(i) = RankAt(m, i)
  BY CollectedMeans DEF Genuinely, Genuine, RankAt
<1>2. /\ \A i \in Genuinely(m) : RankAt(m, i) \in Nat
      /\ \A i, j \in Genuinely(m) : RankAt(m, i) = RankAt(m, j) => i = j
  BY <1>1, SourcesTable DEF IsMachine, WellSorted, RankAt, CategoryAt
<1>3. ASSUME Genuinely(m) # {} PROVE \E i : PrimaryAt(m, i)
  <2> DEFINE ranks == {RankAt(m, i) : i \in Genuinely(m)}
  <2>1. ranks \in SUBSET Nat /\ ranks # {}
    BY <1>2, <1>3
  <2>2. PICK i \in Genuinely(m) :
          \A j \in Genuinely(m) : RankAt(m, i) <= RankAt(m, j)
    <3>1. Min(ranks) \in ranks /\ \A r \in ranks : Min(ranks) <= r
      <4> HIDE DEF ranks
      <4> QED BY <2>1, FirstPosition
    <3>2. PICK i \in Genuinely(m) : RankAt(m, i) = Min(ranks)
      BY <3>1
    <3>3. \A j \in Genuinely(m) : RankAt(m, j) \in ranks
      OBVIOUS
    <3> HIDE DEF ranks
    <3>4. \A j \in Genuinely(m) : RankAt(m, i) <= RankAt(m, j)
      BY <3>1, <3>2, <3>3
    <3> QED BY <3>4
  <2>3. \A j \in Genuinely(m) \ {i} : RankAt(m, i) < RankAt(m, j)
    BY <1>2, <2>2
  <2> QED BY <2>3 DEF PrimaryAt
<1>4. ASSUME NEW i, PrimaryAt(m, i) PROVE Primary(m) = C[i]
  <2> DEFINE first(k) == /\ k \in Genuinely(m)
                         /\ \A j \in Genuinely(m) \ {k} : before(k, j)
  <2>1. first(i)
    BY <1>1, <1>4 DEF PrimaryAt
  <2>2. ASSUME NEW k, first(k) PROVE k = i
    <3> SUFFICES ASSUME k # i PROVE FALSE
      OBVIOUS
    <3>1. k \in Genuinely(m) /\ i \in Genuinely(m)
      BY <1>4, <2>2 DEF PrimaryAt
    <3>2. RankAt(m, i) < RankAt(m, k)
      BY <1>4, <3>1 DEF PrimaryAt
    <3>3. before(k, i)
      BY <2>2, <3>1
    <3>4. rank(k) = RankAt(m, k) /\ rank(i) = RankAt(m, i)
      BY <1>1, <3>1
    <3>5. RankAt(m, k) \in Nat /\ RankAt(m, i) \in Nat
      BY <1>2, <3>1
    <3> HIDE DEF rank
    <3> QED BY <3>2, <3>3, <3>4, <3>5
  <2>3. Primary(m) = C[CHOOSE k \in Genuinely(m) :
                          \A j \in Genuinely(m) \ {k} : before(k, j)]
    BY <2>1 DEF Primary, primaryComponent, Genuinely
  <2> HIDE DEF before, C
  <2> QED BY <2>1, <2>2, <2>3
<1> QED BY <1>3, <1>4

(***************************************************************************)
(* What the two schemes digest, without white space and letter case.       *)
(***************************************************************************)
Digested(version, m) ==
    IF version = 1 THEN collectComponents(m) ELSE <<Primary(m)>>

Form(components) ==
    {[category |-> components[i].category,
      value |-> normalize(components[i].value)] : i \in DOMAIN components}

(***************************************************************************)
(* A device id digests what was collected under the first scheme, and the  *)
(* primary component under the second.                                     *)
(***************************************************************************)
LEMMA DeviceIdMeans ==
  ASSUME NEW app, NEW m, DeviceId(app, m) # Nil
  PROVE  /\ app.version \in {1, 2}
         /\ app.version = 2 => Genuinely(m) # {}
         /\ DeviceId(app, m).version = app.version
         /\ DeviceId(app, m).digest =
              <<app.key, <<app.namespace, Form(Digested(app.version, m))>>>>
<1>1. CASE app.version = 1
  BY <1>1 DEF DeviceId, ComputeHMACVersion, ComputeHMAC, Fingerprint,
              canonicalForm, Form, Digested
<1>2. CASE app.version = 2
  <2> DEFINE fp == Fingerprint(2, app.namespace, app.key, <<Primary(m)>>)
  <2>1. DeviceId(app, m) = ComputeHMACV2(app.namespace, app.key, m)
    BY <1>2 DEF DeviceId, ComputeHMACVersion
  <2>2. DeviceId(app, m) = fp /\ Genuinely(m) # {}
    BY <2>1 DEF ComputeHMACV2, Primary, Genuinely
  <2>3. fp.version = 2
    BY DEF Fingerprint
  <2>4. fp.digest = <<app.key, <<app.namespace, Form(<<Primary(m)>>)>>>>
    BY DEF Fingerprint, canonicalForm, Form
  <2> HIDE DEF fp
  <2> QED BY <1>2, <2>2, <2>3, <2>4 DEF Digested
<1>3. CASE app.version \notin {1, 2}
  BY <1>3 DEF DeviceId, ComputeHMACVersion
<1> QED BY <1>1, <1>2, <1>3

(***************************************************************************)
(* Two machines of which the same was collected are known by the same.     *)
(***************************************************************************)
LEMMA FormsTell ==
  ASSUME NEW m, NEW h, IsMachine(m), IsMachine(h), NEW category,
         Form(collectComponents(m)) = Form(collectComponents(h)),
         Identifier(m, category) # Nil
  PROVE  Identifier(h, category) = Identifier(m, category)
<1> DEFINE C == collectComponents(m)
           D == collectComponents(h)
<1>1. PICK i \in DOMAIN C : CategoryAt(m, i) = category
  BY IdentifierMeans
<1>2. C[i].category = category /\ normalize(C[i].value) = Identifier(m, category)
  BY <1>1, CollectedMeans DEF normalize
<1>3. [category |-> C[i].category, value |-> normalize(C[i].value)] \in Form(C)
  BY DEF Form
<1>4. PICK j \in DOMAIN D :
        [category |-> D[j].category, value |-> normalize(D[j].value)]
          = [category |-> C[i].category, value |-> normalize(C[i].value)]
  BY <1>3 DEF Form
<1>5. D[j].category = category /\ normalize(D[j].value) = Identifier(m, category)
  BY <1>2, <1>4
<1>6. /\ D[j].category = CategoryAt(h, j)
      /\ normalize(D[j].value) = Identifier(h, CategoryAt(h, j))
  BY CollectedMeans DEF normalize
<1> QED BY <1>5, <1>6

(***************************************************************************)
(* A device id is that of one program, and under the first scheme of the   *)
(* machines that are known by the same in every category, under the second *)
(* in one that tells machines apart.                                       *)
(***************************************************************************)
LEMMA DeviceIdTells ==
  ASSUME NEW a, NEW b, IsApp(a), IsApp(b),
         NEW m, NEW h, IsMachine(m), IsMachine(h),
         DeviceId(b, h) # Nil, DeviceId(a, m) = DeviceId(b, h)
  PROVE  /\ a = b /\ b.version \in {1, 2}
         /\ b.version = 1 => \A category \in Categories :
               Identifier(m, category) = Identifier(h, category)
         /\ b.version = 2 => \E category \in Categories :
               /\ Telling(m, category)
               /\ Identifier(m, category) = Identifier(h, category)
<1> DEFINE formA == Form(Digested(a.version, m))
           formB == Form(Digested(b.version, h))
<1>1. /\ b.version \in {1, 2} /\ a.version = b.version
      /\ a.version = 2 => Genuinely(m) # {}
      /\ b.version = 2 => Genuinely(h) # {}
      /\ <<a.key, <<a.namespace, formA>>>> = <<b.key, <<b.namespace, formB>>>>
  <2> HIDE DEF formA, formB
  <2>1. /\ DeviceId(a, m).version = a.version
        /\ DeviceId(a, m).digest = <<a.key, <<a.namespace, formA>>>>
        /\ a.version = 2 => Genuinely(m) # {}
    BY DeviceIdMeans DEF formA
  <2>2. /\ DeviceId(b, h).version = b.version /\ b.version \in {1, 2}
        /\ DeviceId(b, h).digest = <<b.key, <<b.namespace, formB>>>>
        /\ b.version = 2 => Genuinely(h) # {}
    BY DeviceIdMeans DEF formB
  <2> QED BY <2>1, <2>2
<1>2. a.key = b.key /\ a.namespace = b.namespace /\ formA = formB
  <2> HIDE DEF formA, formB
  <2> QED BY <1>1
<1>3. a = b
  <2>1. a = [namespace |-> a.namespace, version |-> a.version, key |-> a.key]
    BY DEF IsApp
  <2>2. b = [namespace |-> b.namespace, version |-> b.version, key |-> b.key]
    BY DEF IsApp
  <2> QED BY <1>1, <1>2, <2>1, <2>2
<1>4. ASSUME b.version = 1, NEW category \in Categories
      PROVE  Identifier(m, category) = Identifier(h, category)
  <2>1. Form(collectComponents(m)) = Form(collectComponents(h))
    BY <1>1, <1>2, <1>4 DEF Digested
  <2> QED BY <2>1, FormsTell
<1>5. ASSUME b.version = 2
      PROVE  \E category \in Categories :
                /\ Telling(m, category)
                /\ Identifier(m, category) = Identifier(h, category)
  <2>1. Form(<<Primary(m)>>) = Form(<<Primary(h)>>)
    BY <1>1, <1>2, <1>5 DEF Digested
  <2>2. PICK i : PrimaryAt(m, i) /\ Primary(m) = collectComponents(m)[i]
    BY <1>1, <1>5, PrimaryMeans
  <2>3. PICK j : PrimaryAt(h, j) /\ Primary(h) = collectComponents(h)[j]
    BY <1>1, <1>5, PrimaryMeans
  <2>4. /\ Primary(m).category = Primary(h).category
        /\ Primary(m).value.id = Primary(h).value.id
    <3>1. /\ [category |-> Primary(m).category, value |-> normalize(Primary(m).value)]
               \in Form(<<Primary(m)>>)
          /\ \A x \in Form(<<Primary(h)>>) :
               x = [category |-> Primary(h).category,
                    value |-> normalize(Primary(h).value)]
      BY DEF Form
    <3>2. [category |-> Primary(m).category, value |-> normalize(Primary(m).value)]
            = [category |-> Primary(h).category, value |-> normalize(Primary(h).value)]
      BY <2>1, <3>1
    <3> QED BY <3>2 DEF normalize
  <2>5. /\ i \in DOMAIN collectComponents(m)
        /\ Identifier(m, CategoryAt(m, i)) \notin Placeholders
    BY <2>2, GenuineMeans DEF PrimaryAt
  <2>6. j \in DOMAIN collectComponents(h)
    BY <2>3, GenuineMeans DEF PrimaryAt
  <2>7. /\ Primary(m).category = CategoryAt(m, i)
        /\ Primary(m).value.id = Identifier(m, CategoryAt(m, i))
        /\ Identifier(m, CategoryAt(m, i)) # Nil
        /\ i \in DOMAIN Sources[m.platform]
    BY <2>2, <2>5, CollectedMeans
  <2>8. /\ Primary(h).category = CategoryAt(h, j)
        /\ Primary(h).value.id = Identifier(h, CategoryAt(h, j))
    BY <2>3, <2>6, CollectedMeans
  <2>9. CategoryAt(m, i) \in Categories
    BY <2>7, SourcesTable DEF IsMachine, WellSorted, CategoryAt
  <2>10. Telling(m, CategoryAt(m, i))
    BY <2>5, <2>7 DEF Telling
  <2>11. Identifier(m, CategoryAt(m, i)) = Identifier(h, CategoryAt(m, i))
    BY <2>4, <2>7, <2>8
  <2> QED BY <2>9, <2>10, <2>11
<1> QED BY <1>1, <1>3, <1>4, <1>5

(***************************************************************************)
(* The other way round: a machine that is known by the same in every       *)
(* category has the same device id under every scheme.                     *)
(***************************************************************************)
LEMMA SameIdentifiersSameDevice ==
  ASSUME NEW m, NEW h, IsMachine(m), IsMachine(h), m.platform = h.platform,
         \A category \in Categories : Identifier(m, category) = Identifier(h, category),
         NEW app
  PROVE  DeviceId(app, m) = DeviceId(app, h)
<1> DEFINE C == collectComponents(m)
           D == collectComponents(h)
<1>1. /\ m.platform \in DOMAIN Sources
      /\ WellSorted(Sources[m.platform], primaryCategoryPriority[m.platform])
  BY SourcesTable DEF IsMachine
<1>2. ASSUME NEW x, NEW y, IsMachine(x), IsMachine(y),
             x.platform = m.platform, y.platform = m.platform,
             \A category \in Categories :
                Identifier(x, category) = Identifier(y, category),
             NEW i \in DOMAIN collectComponents(x)
      PROVE  i \in DOMAIN collectComponents(y)
  <2> DEFINE category == CategoryAt(x, i)
  <2>1. i \in DOMAIN Sources[m.platform] /\ Identifier(x, category) # Nil
    BY <1>2, CollectedMeans
  <2>2. category \in Categories
    BY <1>1, <1>2, <2>1 DEF WellSorted, CategoryAt
  <2>3. Identifier(y, category) # Nil
    BY <1>2, <2>1, <2>2
  <2> HIDE DEF category
  <2>4. PICK j \in DOMAIN collectComponents(y) : CategoryAt(y, j) = category
    BY <2>3, IdentifierMeans
  <2>5. j \in DOMAIN Sources[m.platform]
    BY <1>2, <2>4, CollectedMeans
  <2>6. i = j
    BY <1>1, <1>2, <2>1, <2>4, <2>5 DEF WellSorted, CategoryAt, category
  <2> QED BY <2>4, <2>6
<1>3. DOMAIN C = DOMAIN D
  BY <1>2
<1>4. \A i \in DOMAIN C :
        /\ i \in DOMAIN Sources[m.platform]
        /\ CategoryAt(m, i) = CategoryAt(h, i) /\ CategoryAt(m, i) \in Categories
        /\ Identifier(m, CategoryAt(m, i)) = Identifier(h, CategoryAt(h, i))
  BY <1>1, CollectedMeans DEF WellSorted, CategoryAt
<1>5. \A i \in DOMAIN C :
        /\ C[i].category = D[i].category
        /\ normalize(C[i].value) = normalize(D[i].value)
  BY <1>3, <1>4, CollectedMeans DEF normalize
<1>6. Form(C) = Form(D)
  <2> HIDE DEF C, D
  <2> QED BY <1>3, <1>5 DEF Form
<1>7. ComputeHMAC(app.namespace, app.key, m) = ComputeHMAC(app.namespace, app.key, h)
  <2>1. canonicalForm(app.namespace, C) = canonicalForm(app.namespace, D)
    <3> HIDE DEF C, D
    <3> QED BY <1>6 DEF canonicalForm, Form
  <2> QED BY <1>3, <2>1 DEF ComputeHMAC, Fingerprint
<1>8. ComputeHMACV2(app.namespace, app.key, m)
        = ComputeHMACV2(app.namespace, app.key, h)
  <2>1. Genuinely(m) = Genuinely(h)
    <3>1. \A i : i \in Genuinely(m) <=> i \in Genuinely(h)
      BY <1>3, <1>4, GenuineMeans
    <3>2. Genuinely(m) \subseteq Genuinely(h) /\ Genuinely(h) \subseteq Genuinely(m)
      BY <3>1
    <3> QED BY <3>2
  <2>2. \A i : RankAt(m, i) = RankAt(h, i)
    BY DEF RankAt, CategoryAt
  <2>3. CASE Genuinely(m) = {}
    BY <2>1, <2>3 DEF ComputeHMACV2, Genuinely
  <2>4. CASE Genuinely(m) # {}
    <3>1. PICK i : PrimaryAt(m, i)
      BY <2>4, PrimaryMeans
    <3>2. PrimaryAt(h, i)
      BY <2>1, <2>2, <3>1 DEF PrimaryAt
    <3>3. Primary(m) = C[i] /\ Primary(h) = D[i]
      BY <3>1, <3>2, PrimaryMeans
    <3>4. i \in DOMAIN C
      BY <3>1, GenuineMeans DEF PrimaryAt
    <3>5. /\ Primary(m).category = Primary(h).category
          /\ normalize(Primary(m).value) = normalize(Primary(h).value)
      BY <1>5, <3>3, <3>4
    <3>6. canonicalForm(app.namespace, <<Primary(m)>>)
            = canonicalForm(app.namespace, <<Primary(h)>>)
      BY <3>5 DEF canonicalForm
    <3>7. Fingerprint(2, app.namespace, app.key, <<Primary(m)>>)
            = Fingerprint(2, app.namespace, app.key, <<Primary(h)>>)
      BY <3>6 DEF Fingerprint
    <3> QED BY <2>1, <3>7 DEF ComputeHMACV2, Primary, Genuinely
  <2> QED BY <2>3, <2>4
<1> QED BY <1>7, <1>8 DEF DeviceId, ComputeHMACVersion

(***************************************************************************)
(* What changes at a place of less rank than a genuine component leaves    *)
(* the device id of the second scheme as it is.                            *)
(***************************************************************************)
LEMMA OutrankedIsHarmless ==
  ASSUME NEW m, NEW h, IsMachine(m), IsMachine(h), m.platform = h.platform,
         NEW i, NEW best \in Genuinely(m) \ {i}, RankAt(m, best) < RankAt(m, i),
         i \in DOMAIN Sources[m.platform],
         \A j \in DOMAIN Sources[m.platform] \ {i} :
            /\ j \in DOMAIN collectComponents(m) <=> j \in DOMAIN collectComponents(h)
            /\ j \in DOMAIN collectComponents(m) =>
                  Shown(m, Sources[m.platform][j]) = Shown(h, Sources[m.platform][j]),
         NEW app, app.version = 2
  PROVE  DeviceId(app, m) = DeviceId(app, h)
<1> DEFINE C == collectComponents(m)
           D == collectComponents(h)
<1>1. /\ m.platform \in DOMAIN Sources
      /\ WellSorted(Sources[m.platform], primaryCategoryPriority[m.platform])
  BY SourcesTable DEF IsMachine
<1>2. \A j : RankAt(m, j) = RankAt(h, j) /\ CategoryAt(m, j) = CategoryAt(h, j)
  BY DEF RankAt, CategoryAt
<1>3. \A j \in DOMAIN Sources[m.platform] : RankAt(m, j) \in Nat
  BY <1>1 DEF WellSorted, RankAt, CategoryAt
<1>4. /\ \A j \in DOMAIN C : j \in DOMAIN Sources[m.platform]
      /\ \A j \in DOMAIN D : j \in DOMAIN Sources[m.platform]
  BY CollectedMeans
<1>5. \A j : j # i => (j \in DOMAIN C <=> j \in DOMAIN D)
  BY <1>4
<1>6. \A j \in DOMAIN C : j # i => C[j] = D[j]
  BY <1>2, <1>4, <1>5, CollectedMeans
<1>7. \A j \in DOMAIN C : j # i =>
        Identifier(m, CategoryAt(m, j)) = Identifier(h, CategoryAt(h, j))
  BY <1>4, <1>5, CollectedMeans
<1>8. \A j : j # i => (j \in Genuinely(m) <=> j \in Genuinely(h))
  BY <1>5, <1>7, GenuineMeans
<1>9. PICK k : PrimaryAt(m, k)
  BY PrimaryMeans
<1>10. \A j \in Genuinely(m) \cup Genuinely(h) : j \in DOMAIN Sources[m.platform]
  BY <1>4, GenuineMeans
<1>11. k \in Genuinely(m) /\ k # i /\ RankAt(m, k) < RankAt(m, i)
  <2>1. k \in Genuinely(m) /\ (k # best => RankAt(m, k) < RankAt(m, best))
    BY <1>9 DEF PrimaryAt
  <2>2. RankAt(m, k) \in Nat /\ RankAt(m, best) \in Nat /\ RankAt(m, i) \in Nat
    BY <1>3, <1>10, <2>1
  <2>3. RankAt(m, k) < RankAt(m, i)
    BY <2>1, <2>2
  <2> QED BY <2>1, <2>2, <2>3
<1>12. PrimaryAt(h, k)
  <2>1. k \in Genuinely(h)
    BY <1>8, <1>11
  <2>2. ASSUME NEW j \in Genuinely(h) \ {k} PROVE RankAt(h, k) < RankAt(h, j)
    <3>1. CASE j = i
      BY <1>2, <1>11, <3>1
    <3>2. CASE j # i
      BY <1>2, <1>8, <1>9, <2>2, <3>2 DEF PrimaryAt
    <3> QED BY <3>1, <3>2
  <2> QED BY <2>1, <2>2 DEF PrimaryAt
<1>13. Primary(m) = Primary(h) /\ Genuinely(m) # {} /\ Genuinely(h) # {}
  <2>1. Primary(m) = C[k] /\ Primary(h) = D[k]
    BY <1>9, <1>12, PrimaryMeans
  <2>2. C[k] = D[k]
    BY <1>6, <1>11, GenuineMeans
  <2> QED BY <1>11, <1>12, <2>1, <2>2 DEF PrimaryAt
<1> QED BY <1>13 DEF DeviceId, ComputeHMACVersion, ComputeHMACV2, Primary, Genuinely

-----------------------------------------------------------------------------
(***************************************************************************)
(* The machine stays one of its platform, whatever its parts show, and the *)
(* program presents the device id that it has now; of the rest of what it  *)
(* presents only the version changes.                                      *)
(***************************************************************************)
HardwareInv ==
    /\ ctx.product = life.context.product
    /\ ctx.revoked = life.context.revoked
    /\ ctx.skew = life.context.skew
    /\ life.app = Nil => machine = Nil
    /\ life.app # Nil =>
          /\ IsMachine(machine)
          /\ machine.platform = life.home.platform
          /\ ctx.device = DeviceId(life.app, machine)
          /\ ctx = [ctx EXCEPT !.device = ctx.device]

(***************************************************************************)
(* It is so when the life begins.                                          *)
(***************************************************************************)
LEMMA HardwareInit == Init => HardwareInv
<1> SUFFICES ASSUME Init PROVE HardwareInv
  OBVIOUS
<1>1. life \in Cases /\ machine = life.home /\ ctx = Presented(life, machine)
  BY DEF Init
<1>2. ContextFields \subseteq DOMAIN life.context
  BY <1>1, CasesAssumption
<1>3. CASE life.app = Nil
  BY <1>1, <1>3, HardwareAssumption DEF Presented, HardwareInv
<1>4. CASE life.app # Nil
  <2> DEFINE id == DeviceId(life.app, machine)
  <2>1. ctx = [life.context EXCEPT !.device = id]
    BY <1>1, <1>4 DEF Presented
  <2> HIDE DEF id
  <2>2. /\ ctx.product = life.context.product /\ ctx.revoked = life.context.revoked
        /\ ctx.skew = life.context.skew /\ ctx.device = id
        /\ ctx = [ctx EXCEPT !.device = ctx.device]
    BY <1>2, <2>1 DEF ContextFields
  <2>3. IsMachine(machine)
    BY <1>1, <1>4, HardwareAssumption
  <2> QED BY <1>1, <1>4, <2>2, <2>3 DEF HardwareInv, id
<1> QED BY <1>3, <1>4

(***************************************************************************)
(* What a change of hardware does to a machine and to the context.         *)
(***************************************************************************)
LEMMA AfterRewire ==
  ASSUME LifeInv, HardwareInv, NEW source \in Parts, Rewire(source)
  PROVE  /\ life' = life /\ doc' = doc /\ now' = now /\ life.app # Nil
         /\ IsMachine(machine') /\ machine'.platform = machine.platform
         /\ \A s : s # source => machine'.reads[s] = machine.reads[s]
         /\ ctx' = [ctx EXCEPT !.device = DeviceId(life.app, machine')]
<1>1. machine # Nil /\ source \in DOMAIN machine.reads
  BY DEF Parts
<1>2. life.app # Nil /\ IsMachine(machine)
  BY <1>1 DEF HardwareInv
<1>3. PICK r \in life.shows : machine' = [machine EXCEPT !.reads[source] = r]
  BY DEF Rewire
<1>4. r # Nil => r.id # Nil
  BY <1>2, HardwareAssumption DEF LifeInv
<1>5. machine = [platform |-> machine.platform, reads |-> machine.reads]
  BY <1>2 DEF IsMachine
<1>6. machine' = [platform |-> machine.platform,
                  reads |-> [machine.reads EXCEPT ![source] = r]]
  BY <1>3, <1>5
<1>7. /\ machine'.platform = machine.platform
      /\ machine'.reads = [machine.reads EXCEPT ![source] = r]
  BY <1>6
<1>8. /\ DOMAIN machine'.reads = DOMAIN machine.reads
      /\ \A s \in DOMAIN machine.reads :
            machine'.reads[s] = IF s = source THEN r ELSE machine.reads[s]
  BY <1>7
<1> QED BY <1>2, <1>4, <1>6, <1>7, <1>8 DEF IsMachine, Rewire

(***************************************************************************)
(* Every step keeps it so.                                                 *)
(***************************************************************************)
LEMMA HardwareNext == LifeInv /\ HardwareInv /\ [Next]_lvars => HardwareInv'
<1> SUFFICES ASSUME LifeInv, HardwareInv, [Next]_lvars PROVE HardwareInv'
  OBVIOUS
<1>1. CASE UNCHANGED lvars
  BY <1>1 DEF lvars, HardwareInv
<1>2. CASE Tick
  BY <1>2 DEF Tick, HardwareInv
<1>3. CASE Install
  <2>1. PICK v \in life.builds : ctx' = [ctx EXCEPT !.version = v]
    BY <1>3 DEF Install
  <2>2. life' = life /\ machine' = machine
    BY <1>3 DEF Install
  <2>3. /\ ctx'.product = ctx.product /\ ctx'.revoked = ctx.revoked
        /\ ctx'.skew = ctx.skew /\ ctx'.device = ctx.device
        /\ ctx' = [ctx' EXCEPT !.device = ctx'.device]
    BY <2>1 DEF LifeInv, ContextFields
  <2> QED BY <2>2, <2>3 DEF HardwareInv
<1>4. ASSUME NEW source \in Parts, Rewire(source) PROVE HardwareInv'
  <2> DEFINE id == DeviceId(life.app, machine')
  <2>1. /\ life' = life /\ life.app # Nil /\ ctx' = [ctx EXCEPT !.device = id]
        /\ IsMachine(machine') /\ machine'.platform = machine.platform
    BY <1>4, AfterRewire
  <2> HIDE DEF id
  <2>2. /\ ctx'.product = ctx.product /\ ctx'.revoked = ctx.revoked
        /\ ctx'.skew = ctx.skew /\ ctx'.device = id
        /\ ctx' = [ctx' EXCEPT !.device = ctx'.device]
    BY <2>1 DEF LifeInv, ContextFields
  <2> QED BY <2>1, <2>2 DEF HardwareInv, id
<1> QED BY <1>1, <1>2, <1>3, <1>4 DEF Next

(***************************************************************************)
(* Under the second scheme no change to a less preferred part changes the  *)
(* decision.                                                               *)
(***************************************************************************)
THEOREM OnlyThePrimaryMatters == Spec => SecondaryHardwareHarmless
<1>1. ASSUME LifeInv, HardwareInv, NEW source \in Parts, Rewire(source),
             life.app.version = 2, Outranked(source)
      PROVE  Decided = Decision
  <2> DEFINE m == machine
             h == machine'
             table == Sources[m.platform]
             priority == primaryCategoryPriority[m.platform]
  <2>1. /\ life' = life /\ doc' = doc /\ now' = now /\ life.app # Nil
        /\ IsMachine(h) /\ h.platform = m.platform
        /\ \A s : s # source => h.reads[s] = m.reads[s]
        /\ ctx' = [ctx EXCEPT !.device = DeviceId(life.app, h)]
    BY <1>1, AfterRewire
  <2>2. /\ IsMachine(m) /\ ctx.device = DeviceId(life.app, m)
        /\ ctx = [ctx EXCEPT !.device = ctx.device]
    BY <1>1, <2>1 DEF HardwareInv
  <2>3. m.platform \in DOMAIN Sources /\ WellSorted(table, priority)
    BY <2>2, SourcesTable DEF IsMachine
  <2>4. PICK i \in DOMAIN table, category \in Categories :
          /\ Contains(table[i].from, source)
          /\ Telling(m, category)
          /\ Rank(priority, category) < Rank(priority, table[i].category)
    BY <1>1 DEF Outranked
  <2>5. PICK best \in DOMAIN collectComponents(m) : CategoryAt(m, best) = category
    BY <2>4, IdentifierMeans DEF Telling
  <2>6. best \in Genuinely(m)
    BY <2>2, <2>4, <2>5, GenuineMeans DEF Telling
  <2>7. RankAt(m, best) < RankAt(m, i)
    BY <2>4, <2>5 DEF RankAt, CategoryAt
  <2>8. best # i
    <3>1. RankAt(m, i) \in Nat
      BY <2>3 DEF WellSorted, RankAt, CategoryAt
    <3> QED BY <2>7, <3>1
  <2>9. ASSUME NEW j \in DOMAIN table \ {i}
        PROVE  /\ j \in DOMAIN collectComponents(m)
                    <=> j \in DOMAIN collectComponents(h)
               /\ j \in DOMAIN collectComponents(m) =>
                     Shown(m, table[j]) = Shown(h, table[j])
    <3>1. ~Contains(table[j].from, source)
      BY <2>3, <2>4, <2>9 DEF WellSorted
    <3>2. \A k \in DOMAIN table[j].from : table[j].from[k] # source
      <4>1. DOMAIN table[j].from = 1..Len(table[j].from)
        BY <2>3, <2>9 DEF WellSorted
      <4> QED BY <3>1, <4>1 DEF Contains
    <3>3. Showing(m, table[j]) = Showing(h, table[j])
      BY <2>1, <3>2 DEF Showing
    <3>4. ASSUME j \in DOMAIN collectComponents(m)
          PROVE  Shown(m, table[j]) = Shown(h, table[j])
      <4> DEFINE k == Min(Showing(m, table[j]))
      <4>1. Showing(m, table[j]) # {}
        BY <3>4 DEF collectComponents
      <4>2. Showing(m, table[j]) \in SUBSET Nat
        BY <2>3, <2>9 DEF Showing, WellSorted
      <4>3. k \in DOMAIN table[j].from
        BY <4>1, <4>2, FirstPosition DEF Showing
      <4> QED BY <2>1, <3>2, <3>3, <4>3 DEF Shown
    <3> QED BY <2>1, <3>3, <3>4 DEF collectComponents
  <2>10. DeviceId(life.app, m) = DeviceId(life.app, h)
    <3> HIDE DEF m, h
    <3> QED BY <1>1, <2>1, <2>2, <2>4, <2>6, <2>7, <2>8, <2>9, OutrankedIsHarmless
  <2>11. ctx' = ctx
    BY <2>1, <2>2, <2>10
  <2> QED BY <2>1, <2>11 DEF Decided, Decision
<1>2. LifeInv /\ HardwareInv /\ [Next]_lvars =>
        [\A source \in Parts :
            Rewire(source) /\ life.app.version = 2 /\ Outranked(source)
               => Decided = Decision]_lvars
  BY <1>1
<1> QED BY <1>2, LifeInit, LifeNext, HardwareInit, HardwareNext, PTL
        DEF Spec, SecondaryHardwareHarmless

(***************************************************************************)
(* A license bound to a machine is usable only there, by the program and   *)
(* scheme it was asked for with, and there it is usable.                   *)
(***************************************************************************)
THEOREM BoundOnlyToItsMachine == Spec => []BoundToItsMachine
<1>1. ASSUME LifeInv, HardwareInv, life.app # Nil
      PROVE  /\ Usable(Decision) => life.app = life.bound /\ Recognisable
             /\ life.app = life.bound /\ SameMachine => Usable(Decision)
  <2> DEFINE home == DeviceId(life.bound, life.home)
  <2>1. /\ IsApp(life.app) /\ IsApp(life.bound) /\ IsMachine(life.home)
        /\ home # Nil /\ p.mode = "single" /\ p.deviceIds = <<home>>
        /\ OnlyDeviceBinds(p, life.context)
        /\ ProductScope(life, life.context) = "ok"
    BY <1>1, HardwareAssumption DEF LifeInv, p
  <2>2. /\ IsMachine(machine) /\ machine.platform = life.home.platform
        /\ ctx.device = DeviceId(life.app, machine)
    BY <1>1 DEF HardwareInv
  <2>3. checkDevice(p, ctx.device) = "ok" <=> ctx.device = home
    <3> DEFINE ids == p.deviceIds
    <3>1. DOMAIN ids = {1} /\ ids[1] = home
      BY <2>1
    <3> HIDE DEF ids, home
    <3>2. (\E i \in DOMAIN ids : ids[i] = ctx.device) <=> ctx.device = home
      BY <3>1
    <3> QED BY <2>1, <3>2 DEF checkDevice, Gate, ids
  <2>4. ASSUME Usable(Decision) PROVE life.app = life.bound /\ Recognisable
    <3>1. Usable(validate(p, now, ctx))
      BY <2>4, PolicyDecides DEF Decision, p
    <3>2. checkDevice(p, ctx.device) = "ok"
      <4>1. ShutCodes(p, now, ctx)[6] = "ok"
        BY <3>1, UsableMeans
      <4> QED BY <4>1 DEF ShutCodes
    <3>3. DeviceId(life.app, machine) = DeviceId(life.bound, life.home)
      BY <2>2, <2>3, <3>2
    <3>4. /\ life.app = life.bound /\ life.bound.version \in {1, 2}
          /\ life.bound.version = 1 => SameMachine
          /\ life.bound.version = 2 => \E category \in Categories :
                /\ Telling(machine, category)
                /\ Identifier(machine, category) = Identifier(life.home, category)
      BY <2>1, <2>2, <3>3, DeviceIdTells DEF SameMachine
    <3> QED BY <3>4 DEF Recognisable
  <2>5. ASSUME life.app = life.bound, SameMachine PROVE Usable(Decision)
    <3>1. checkDevice(p, ctx.device) = "ok"
      <4>1. DeviceId(life.app, machine) = DeviceId(life.app, life.home)
        BY <2>1, <2>2, <2>5, SameIdentifiersSameDevice DEF SameMachine
      <4> QED BY <2>2, <2>3, <2>5, <4>1
    <3>2. /\ ctx.revoked = life.context.revoked /\ ctx.product = life.context.product
          /\ SkewOf(ctx) = SkewOf(life.context)
      BY <1>1 DEF HardwareInv, SkewOf
    <3>3. ~BoundElsewhere
      BY <2>1, <3>1, <3>2
      DEF OnlyDeviceBinds, BoundElsewhere, ProductScope, checkVersion
    <3>4. p.expiresAt = Nil /\ now >= Start - SkewOf(ctx)
      <4>1. p.issuedAt \in Int
        BY <1>1, <2>1, StaticMeans DEF OnlyDeviceBinds, LifeInv, HasTimes, p
      <4>2. now \in Nat /\ SkewOf(ctx) \in Nat
        BY <1>1, SkewNatural DEF LifeInv
      <4>3. Start = p.issuedAt /\ p.issuedAt <= SkewOf(ctx) /\ p.expiresAt = Nil
        BY <2>1, <3>2 DEF OnlyDeviceBinds, Start
      <4> QED BY <4>1, <4>2, <4>3
    <3> QED BY <1>1, <3>3, <3>4, LifeWindow DEF UsableInWindow
  <2> QED BY <2>4, <2>5
<1>2. LifeInv /\ HardwareInv => BoundToItsMachine
  BY <1>1 DEF BoundToItsMachine
<1> QED BY <1>2, LifeInit, LifeNext, HardwareInit, HardwareNext, PTL DEF Spec
=============================================================================
