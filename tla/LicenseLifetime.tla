-------------------------- MODULE LicenseLifetime ---------------------------
(***************************************************************************)
(* One license from the request to its end: it is issued, and then         *)
(* presented while trusted time moves forward, the program is upgraded and *)
(* downgraded, and the hardware that identifies the machine changes.  What *)
(* the decisions add up to over the life of the license.                   *)
(***************************************************************************)
EXTENDS Issuer, Results, SemVerOrder

CONSTANTS
    Ring,        \* the client's key ring
    SigningKey,  \* the key id of the issuer
    FreshId,     \* the random license id
    Cases        \* the lives considered: records of
                 \*   request   what is asked for,
                 \*   through   "Issue" or "SignLicenseBytes",
                 \*   clock     when it is issued,
                 \*   context   what the program presents,
                 \*   unscopedProduct  whether its Manager was built to
                 \*             validate without a product,
                 \*   builds    the builds of the program that there are,
                 \*   app       how the program identifies the machine:
                 \*             [namespace, version, key], or Nil when the
                 \*             context has a device id of its own,
                 \*   bound     the same when the license was asked for,
                 \*   home      the machine then, or Nil,
                 \*   shows     what a source of the machine may show,
                 \*   until     a bound: time runs from 0 to `until'

VARIABLES life, doc, ctx, machine, now

lvars == <<life, doc, ctx, machine, now>>

p == doc.payload

(***************************************************************************)
(* The device id that the program computes and presents.                   *)
(***************************************************************************)
DeviceId(app, m) == ComputeHMACVersion(app.namespace, app.version, app.key, m)

Presented(c, m) ==
    IF c.app = Nil THEN c.context
    ELSE [c.context EXCEPT !.device = DeviceId(c.app, m)]

Signed(c) ==
    IF c.through = "Issue" THEN Issue(SigningKey, c.request, c.clock, FreshId)
    ELSE SignLicenseBytes(SigningKey, BuildPayload(c.request, c.clock, FreshId))

(***************************************************************************)
(* What is signed has the types of a payload and what is presented those   *)
(* of a context; every build knows its version.  That a payload has a key  *)
(* id is so by the definition of @@, which the provers do not know.        *)
(***************************************************************************)
ContextFields == {"product", "version", "device", "revoked", "skew"}

ASSUME CasesAssumption ==
    /\ Nil \notin Int
    /\ \A c \in Cases :
          /\ "keyId" \in DOMAIN BuildPayload(c.request, c.clock, FreshId)
          /\ Signed(c) # Nil =>
                /\ HasTimes(Signed(c).payload)
                /\ Signed(c).payload.minVersion \in NamedVersions \cup {Nil}
                /\ Signed(c).payload.maxVersion \in NamedVersions \cup {Nil}
          /\ ContextFields \subseteq DOMAIN c.context
          /\ c.context.skew \in Int
          /\ c.unscopedProduct \in BOOLEAN
          /\ c.context.version \in NamedVersions \cup {Nil}
          /\ c.builds \subseteq NamedVersions
          /\ Nil \notin c.builds

(***************************************************************************)
(* A program that identifies the machine does so by name, scheme and key.  *)
(* A machine has all sources of its platform, and what one of them shows   *)
(* has an identifier.                                                      *)
(***************************************************************************)
IsApp(app) ==
    app = [namespace |-> app.namespace, version |-> app.version, key |-> app.key]

IsMachine(m) ==
    /\ m = [platform |-> m.platform, reads |-> m.reads]
    /\ m.platform \in DOMAIN Sources
    /\ \A source \in ToSet(Sources[m.platform]) :
          ToSet(source.from) \subseteq DOMAIN m.reads
    /\ \A s \in DOMAIN m.reads : m.reads[s] # Nil => m.reads[s].id # Nil

(***************************************************************************)
(* The first gate of Manager.Validate: a caller names the product, unless  *)
(* the Manager was built WithUnscopedProductValidation.                    *)
(***************************************************************************)
ProductScope(c, context) ==
    Gate(context.product # Nil \/ c.unscopedProduct, "product_required")

(***************************************************************************)
(* A license that is bound to a machine here is bound by nothing else: by  *)
(* no version, product, list of revoked licenses or end.                   *)
(***************************************************************************)
OnlyDeviceBinds(payload, context) ==
    /\ validateStatic(payload) = "ok"
    /\ payload.compact
    /\ LookupPublicKey(Ring, SigningKey) = "ok"
    /\ Window(Ring[SigningKey], payload.issuedAt) = "ok"
    /\ payload.licenseId \notin context.revoked
    /\ context.product \in {Nil, payload.productId}
    /\ ~HasVersionConstraint(payload)
    /\ payload.issuedAt <= SkewOf(context)
    /\ payload.notBefore = Nil /\ payload.expiresAt = Nil

ASSUME HardwareAssumption ==
    \A c \in Cases :
       IF c.app = Nil THEN c.home = Nil
       ELSE /\ IsApp(c.app) /\ IsApp(c.bound)
            /\ IsMachine(c.home)
            /\ \A r \in c.shows : r # Nil => r.id # Nil
            /\ DeviceId(c.bound, c.home) # Nil
            /\ Signed(c) # Nil =>
                  /\ Signed(c).payload.mode = "single"
                  /\ Signed(c).payload.deviceIds = <<DeviceId(c.bound, c.home)>>
                  /\ OnlyDeviceBinds(Signed(c).payload, c.context)
                  /\ ProductScope(c, c.context) = "ok"

(***************************************************************************)
(* A request that is refused has no life.                                  *)
(***************************************************************************)
Init ==
    /\ life \in Cases
    /\ doc = Signed(life)
    /\ doc # Nil
    /\ machine = life.home
    /\ ctx = Presented(life, machine)
    /\ now = 0

Tick ==
    /\ now < life.until
    /\ now' = now + 1
    /\ UNCHANGED <<life, doc, ctx, machine>>

(***************************************************************************)
(* Another build runs under the license.                                   *)
(***************************************************************************)
Install ==
    /\ \E v \in life.builds : ctx' = [ctx EXCEPT !.version = v]
    /\ UNCHANGED <<life, doc, machine, now>>

(***************************************************************************)
(* A part is replaced, added, lost, or written differently, and the        *)
(* program computes its device id again.                                   *)
(***************************************************************************)
Rewire(source) ==
    /\ \E r \in life.shows :
          machine' = [machine EXCEPT !.reads[source] = r]
    /\ ctx' = [ctx EXCEPT !.device = DeviceId(life.app, machine')]
    /\ UNCHANGED <<life, doc, now>>

Parts == IF machine = Nil THEN {} ELSE DOMAIN machine.reads

Next == Tick \/ Install \/ \E source \in Parts : Rewire(source)

Spec == Init /\ [][Next]_lvars

(***************************************************************************)
(* Manager.Validate, without what the Manager keeps.                       *)
(***************************************************************************)
DecisionOn(c, d, at, context) ==
    IF ProductScope(c, context) # "ok" THEN ProductScope(c, context)
    ELSE IF ParseEnvelope(d) # "ok" THEN ParseEnvelope(d)
    ELSE IF Verify(Ring, d) # "ok" THEN Verify(Ring, d)
    ELSE validate(d.payload, at, context)

Decision == DecisionOn(life, doc, now, ctx)
Decided == DecisionOn(life', doc', now', ctx')     \* after a step

-----------------------------------------------------------------------------
(***************************************************************************)
(* Once a license that worked stops working, no later instant brings it    *)
(* back: expiry, the end of grace and the end of maintenance are final.    *)
(* Before it works it is "not yet valid", or refused for a reason that     *)
(* time does not change.                                                   *)
(***************************************************************************)
NeverRegained ==
    [][Tick /\ ~Usable(Decision) /\ Usable(Decided)
          => Decision = "not_yet_valid"]_lvars

(***************************************************************************)
(* Grace comes only after full validity, and full validity never after     *)
(* grace.                                                                  *)
(***************************************************************************)
GraceFollowsValid ==
    [][Tick =>
          /\ Decided = "grace" => Decision \in {"valid", "grace"}
          /\ Decision = "grace" => Decided # "valid"]_lvars

(***************************************************************************)
(* The reference: a license is usable at the instants between its start    *)
(* and its end, each widened by the skew, where the end of grace is the    *)
(* "usable until" boundary and a license without an end has none.  What    *)
(* Issue has let pass is never refused for its contents: the issuer and    *)
(* the client agree.  It can be refused for its size, or for the switches  *)
(* and the window of the issuer's key, which the issuer does not know.     *)
(* And a caller that names no product is refused, whatever the license,    *)
(* by a Manager that was not built to do without.                          *)
(***************************************************************************)
Start == IF p.notBefore = Nil THEN p.issuedAt ELSE p.notBefore

BoundElsewhere ==
    \/ ProductScope(life, ctx) # "ok"
    \/ life.through # "Issue" /\ validateStatic(p) # "ok"
    \/ ~p.compact
    \/ LookupPublicKey(Ring, SigningKey) # "ok"
    \/ Window(Ring[SigningKey], p.issuedAt) # "ok"
    \/ p.licenseId \in ctx.revoked
    \/ ctx.product \notin {Nil, p.productId}
    \/ checkVersion(p, ctx.version, now, SkewOf(ctx)) # "ok"
    \/ checkDevice(p, ctx.device) # "ok"

UsableInWindow ==
    ~BoundElsewhere =>
        (Usable(Decision) <=>
            /\ now >= Start - SkewOf(ctx)
            /\ p.expiresAt # Nil =>
                  now <= p.expiresAt + p.graceDays * Day + SkewOf(ctx))

(***************************************************************************)
(* "versions <= CoveredMaxVersion keep working forever": a lifetime        *)
(* license that works with a covered build never stops working, neither    *)
(* with it nor with any other covered build inside the license's bounds.   *)
(***************************************************************************)
Covered ==
    CoveredCeiling(p) = Nil \/ AtMost(ctx.version, CoveredCeiling(p))

InBounds == checkVersionBounds(p, ctx.version) = "ok"

CoveredForever ==
    [][(Tick \/ Install) /\ p.licenseType = "lifetime" /\ Usable(Decision)
          /\ Covered' /\ InBounds'
          => Usable(Decided)]_lvars

(***************************************************************************)
(* As long as the numbers of the strings fit in a uint64, a build is       *)
(* inside the bounds of its license exactly when SemVer puts it there, and *)
(* a string that is no version satisfies no bound.                         *)
(***************************************************************************)
Texts == {ctx.version, p.minVersion, p.maxVersion} \ {Nil}

BoundsAgree == ctx.version # Nil =>
    (InBounds <=> Within(ctx.version, p.minVersion, p.maxVersion))

BoundsAreSemVer == (\A v \in Texts : Parses(v) => Fits(v)) => BoundsAgree

(***************************************************************************)
(* What the comment of compareVersionsStrict says, for numbers of any      *)
(* size: numeric identifiers are compared numerically.                     *)
(***************************************************************************)
BoundsAreAlwaysSemVer == BoundsAgree

(***************************************************************************)
(* An upgrade, as the code itself compares the two builds, never falls out *)
(* of the minimum of a license, and a downgrade never out of its maximum,  *)
(* for numbers of any size: the comparison is transitive.                  *)
(***************************************************************************)
Upgrade == Install /\ ctx.version # Nil /\ AtLeast(ctx'.version, ctx.version)
Downgrade == Install /\ ctx.version # Nil /\ AtMost(ctx'.version, ctx.version)

ChangesKeepBounds ==
    [][/\ Upgrade /\ p.minVersion # Nil /\ AtLeast(ctx.version, p.minVersion)
            => AtLeast(ctx'.version, p.minVersion)
       /\ Downgrade /\ p.maxVersion # Nil /\ AtMost(ctx.version, p.maxVersion)
            => AtMost(ctx'.version, p.maxVersion)]_lvars

-----------------------------------------------------------------------------
(***************************************************************************)
(* What can be read off a machine: id is shown under category.             *)
(***************************************************************************)
Categories == {"machine_id", "board_uuid", "product_uuid", "platform_uuid",
               "machine_guid"}

Identifier(m, category) ==
    LET sources == Sources[m.platform]
        showing == {i \in DOMAIN sources :
                       sources[i].category = category /\ Showing(m, sources[i]) # {}}
    IN  IF showing = {} THEN Nil ELSE Shown(m, sources[Min(showing)]).id

Telling(m, category) == Identifier(m, category) \notin Placeholders \cup {Nil}

(***************************************************************************)
(* "Resilient to secondary components appearing or disappearing": as long  *)
(* as a machine goes on showing a telling identifier of a category, no     *)
(* change to a less preferred one changes the decision under scheme v2.    *)
(***************************************************************************)
Outranked(source) ==
    LET priority == primaryCategoryPriority[machine.platform]
        categoryOf(i) == Sources[machine.platform][i].category
    IN  \E i \in DOMAIN Sources[machine.platform], category \in Categories :
           /\ Contains(Sources[machine.platform][i].from, source)
           /\ Telling(machine, category)
           /\ Rank(priority, category) < Rank(priority, categoryOf(i))

SecondaryHardwareHarmless ==
    [][\A source \in Parts :
          Rewire(source) /\ life.app.version = 2 /\ Outranked(source)
             => Decided = Decision]_lvars

(***************************************************************************)
(* A license bound to a machine is usable by the program and the scheme it *)
(* was asked for with, and where the machine is recognisably the same.     *)
(* Under v2 it shows an identifier of the machine that is no vendor's      *)
(* placeholder, so that two machines whose vendors left everything unset   *)
(* are never taken for one; under v1 it shows all of them and no others.   *)
(* And the machine itself, as it was or with its identifiers written       *)
(* differently, is accepted.                                               *)
(***************************************************************************)
SameMachine ==
    \A category \in Categories :
        Identifier(machine, category) = Identifier(life.home, category)

Recognisable ==
    CASE life.bound.version = 1 -> SameMachine
      [] life.bound.version = 2 ->
            \E category \in Categories :
                /\ Telling(machine, category)
                /\ Identifier(machine, category) = Identifier(life.home, category)

BoundToItsMachine ==
    life.app # Nil =>
        /\ Usable(Decision) => life.app = life.bound /\ Recognisable
        /\ life.app = life.bound /\ SameMachine => Usable(Decision)

-----------------------------------------------------------------------------
(***************************************************************************)
(* What the comment of GetRemainingDays says: "An already-expired license  *)
(* returns 0 (never negative)".                                            *)
(***************************************************************************)
ExpiredHasNoDaysLeft ==
    Decision = "expired" =>
        GetRemainingDays(ValidationResult(p, now, Decision)) = 0
=============================================================================
